--------------------------- MODULE SchedulesProofs ---------------------------
(***************************************************************************)
(* The schedules, for every number of engines, schedules and occurrences:  *)
(* the types, that a removed schedule stays removed, that an occurrence is *)
(* sent once and not promised again, and that occurrences are sent in      *)
(* order.                                                                  *)
(***************************************************************************)
EXTENDS Schedules, WellFoundedInduction, TLAPS

-----------------------------------------------------------------------------
(* Extremes of sets of times. *)

LEMMA LeastIsThere ==
  ASSUME NEW S \in SUBSET Nat, S # {}
  PROVE  Least(S) \in S /\ \A u \in S : Least(S) <= u
<1> DEFINE R == OpToRel(<, Nat)
<1>1. IsWellFoundedOn(R, Nat)
  BY NatLessThanWellFounded
<1>2. \A a, b \in Nat : <<a, b>> \in R <=> a < b
  BY DEF OpToRel
<1> HIDE DEF R
<1>3. \E t \in S : \A u \in S : ~(<<u, t>> \in R)
  <2>1. S \subseteq Nat
    OBVIOUS
  <2> QED
    BY <1>1, <2>1, WFMin, Zenon
<1>4. PICK t \in S : \A u \in S : ~(<<u, t>> \in R)
  BY <1>3
<1>5. \A u \in S : t <= u
  <2> TAKE u \in S
  <2>1. u \in Nat /\ t \in Nat
    OBVIOUS
  <2>2. ~(u < t)
    BY <1>2, <1>4, <2>1
  <2> QED
    BY <2>1, <2>2
<1> QED
  BY <1>4, <1>5 DEF Least

LEMMA GreatestIsThere ==
  ASSUME NEW N \in Nat, NEW S \in SUBSET (0 .. N), S # {}
  PROVE  Greatest(S) \in S /\ \A u \in S : u <= Greatest(S)
<1> DEFINE T == {N - u : u \in S}
<1>1. T \in SUBSET Nat /\ T # {}
  <2>1. \A u \in S : N - u \in Nat
    OBVIOUS
  <2> QED
    BY <2>1
<1>2. PICK m \in T : \A u \in T : m <= u
  BY <1>1, LeastIsThere
<1>3. PICK g \in S : m = N - g /\ g \in 0 .. N
  BY <1>2
<1>4. \A u \in S : u <= g
  <2> TAKE u \in S
  <2>1. N - u \in T
    OBVIOUS
  <2>2. m <= N - u /\ u \in 0 .. N
    BY <1>2, <2>1
  <2> QED
    BY <1>3, <2>2
<1> QED
  BY <1>4 DEF Greatest


-----------------------------------------------------------------------------
(* Records. *)

LEMMA TimesAreNat == Times \subseteq Nat /\ 0 \in Times
BY SchedulesAssumption DEF Times

LEMMA DueIsTimes == \A y \in Items : Due[y] \subseteq 1 .. Horizon
BY SchedulesAssumption

LEMMA NextAfterFacts ==
  ASSUME NEW y \in Items, NEW t \in Nat
  PROVE  /\ NextAfter(y, t) \in Times
         /\ NextAfter(y, t) # 0 => t < NextAfter(y, t)
<1> DEFINE later == {d \in Due[y] : d > t}
<1>1. later \subseteq 1 .. Horizon /\ later \subseteq Nat
  BY DueIsTimes, SchedulesAssumption
<1>2. CASE later = {}
  BY <1>2, TimesAreNat DEF NextAfter
<1>3. CASE later # {}
  <2>1. Least(later) \in later
    BY <1>1, <1>3, LeastIsThere
  <2> QED
    BY <1>1, <1>3, <2>1, SchedulesAssumption DEF NextAfter, Times
<1> QED
  BY <1>2, <1>3

LEMMA AbsentIsRecord == Absent \in Records /\ NoFire \in Fires
BY TimesAreNat DEF Absent, Records, NoFire, Fires

LEMMA RecordFields ==
  ASSUME NEW r \in Records
  PROVE  /\ r.there \in BOOLEAN /\ r.on \in BOOLEAN /\ r.next \in Times
         /\ r.last \in Fires /\ r.last.due \in Times /\ r.last.at \in Nat
         /\ r.last.out \in {"none", "unknown", "undelivered", "delivered"}
         /\ r.last.retry \in BOOLEAN
         /\ r.next \in Nat /\ r.last.due \in Nat
BY TimesAreNat DEF Records, Fires

\* A claim moves the cursor past the pass, and takes the latest occurrence.
LEMMA ClaimedFacts ==
  ASSUME NEW y \in Items, NEW r \in Records, NEW t \in Times, IsDue(r, t)
  PROVE  LET c == Claimed(y, r, t) IN
         /\ c \in Records
         /\ c.there = r.there
         /\ c.next # 0 => t < c.next
         /\ r.next <= c.last.due /\ c.last.due <= t
         /\ c.last.out = "unknown" /\ c.last.retry = FALSE
<1> DEFINE S == {d \in Due[y] \cup {r.next} : r.next <= d /\ d <= t}
           due == Greatest(S)
           f == [NoFire EXCEPT !.due = due, !.out = "unknown"]
<1>1. r.next \in S /\ S \subseteq 0 .. Horizon
  BY RecordFields, DueIsTimes, SchedulesAssumption DEF IsDue, Times
<1>2. due \in S
  BY <1>1, GreatestIsThere, SchedulesAssumption
<1>3. f \in Fires /\ f.due = due /\ f.out = "unknown" /\ f.retry = FALSE
  <2>1. due \in Times
    BY <1>1, <1>2 DEF Times
  <2> HIDE DEF due
  <2> QED
    BY <2>1 DEF NoFire, Fires
<1>4. Claimed(y, r, t) = [r EXCEPT !.next = NextAfter(y, t), !.last = f]
  BY DEF Claimed
<1>5. NextAfter(y, t) \in Times /\ (NextAfter(y, t) # 0 => t < NextAfter(y, t))
  BY NextAfterFacts, TimesAreNat
<1> HIDE DEF f
<1>6. PICK n : n = NextAfter(y, t)
  OBVIOUS
<1>7. LET c == [r EXCEPT !.next = n, !.last = f] IN
      /\ c \in Records /\ c.there = r.there /\ c.next = n /\ c.last = f
  BY <1>3, <1>5, <1>6 DEF Records
<1> QED
  BY <1>2, <1>3, <1>4, <1>5, <1>6, <1>7

LEMMA JudgedFacts ==
  ASSUME NEW r \in Records, NEW answer, NEW t \in Times
  PROVE  LET j == Judged(r, answer, t) IN
         /\ j \in Records
         /\ j.there = r.there /\ j.next = r.next
         /\ j.last.due = r.last.due
         /\ j.last.out \in {"delivered", "undelivered"}
         /\ j.last.retry => j.last.out = "undelivered" /\ answer = "later"
         /\ j.last.retry = KeepsTrying(r, answer, t)
         /\ (answer = "ok") => (j.last.out = "delivered")
<1>1. KeepsTrying(r, answer, t) \in BOOLEAN
  BY DEF KeepsTrying
<1>2. RetryAt(r, t) \in Nat
  BY RecordFields, TimesAreNat, SchedulesAssumption DEF RetryAt, Lesser, Deadline
<1>3. PICK k \in BOOLEAN : k = KeepsTrying(r, answer, t)
  BY <1>1
<1>4. PICK at \in Nat : at = IF k THEN RetryAt(r, t) ELSE 0
  BY <1>2
<1>5. PICK out \in {"delivered", "undelivered"} :
        out = IF answer = "ok" THEN "delivered" ELSE "undelivered"
  OBVIOUS
<1>6. PICK f \in Fires : f = [r.last EXCEPT !.out = out, !.retry = k, !.at = at]
  BY RecordFields DEF Fires
<1>7. Judged(r, answer, t) = [r EXCEPT !.last = f]
  BY <1>3, <1>4, <1>5, <1>6 DEF Judged
<1>8. f.due = r.last.due /\ f.out = out /\ f.retry = k
  BY <1>6, RecordFields DEF Fires
<1>9. LET j == [r EXCEPT !.last = f] IN
      /\ j \in Records /\ j.there = r.there /\ j.next = r.next /\ j.last = f
  BY DEF Records
<1>10. k => answer = "later"
  BY <1>3 DEF KeepsTrying
<1> QED
  BY <1>3, <1>5, <1>7, <1>8, <1>9, <1>10

LEMMA WrittenFacts ==
  ASSUME NEW mem \in [Items -> Records]
  PROVE  /\ Written(mem) \in [Items -> Records]
         /\ \A y \in Items : /\ mem[y].there => Written(mem)[y] = mem[y]
                             /\ ~mem[y].there => Written(mem)[y] = Absent
                             /\ Written(mem)[y].there = mem[y].there
<1>1. \A y \in Items : mem[y].there \in BOOLEAN
  BY RecordFields
<1>2. Absent.there = FALSE
  BY DEF Absent
<1> QED
  BY <1>1, <1>2, AbsentIsRecord DEF Written

LEMMA EditedFacts ==
  ASSUME NEW y \in Items, NEW r \in Records, now \in Times,
         NEW op \in {"remove", "pause", "resume"}
  PROVE  LET n == Edited(y, r, op) IN
         /\ n \in Records
         /\ n.last = r.last
         /\ op # "remove" => n.there = r.there
         /\ op = "remove" => n.there = FALSE
         /\ op = "remove" => n.next = r.next
         /\ op # "remove" /\ n.next # 0 => now < n.next
<1>1. CASE op = "remove"
  BY <1>1 DEF Edited, Records
<1>2. CASE op = "pause"
  BY <1>2, TimesAreNat DEF Edited, Records
<1>3. CASE op = "resume"
  <2>1. PICK n \in Times : n = NextAfter(y, now) /\ (n # 0 => now < n)
    BY NextAfterFacts, TimesAreNat
  <2> QED
    BY <1>3, <2>1 DEF Edited, Records
<1> QED
  BY <1>1, <1>2, <1>3


-----------------------------------------------------------------------------
(* What an engine has in memory.  Kept: the records stay, but for removed    *)
(* ones that a pass drops when it ends.                                      *)

Kept(s, t) == \A y \in Items : \/ t.mem[y] = s.mem[y]
                               \/ t.mem[y] = Absent /\ ~s.mem[y].there

LEMMA SomeItemIs == SomeItem \in Items
BY SchedulesAssumption DEF SomeItem

LEMMA LocalFields ==
  ASSUME NEW s \in Local
  PROVE  /\ s.up \in {"off", "running", "held"} /\ s.mem \in [Items -> Records]
         /\ s.pc \in Steps /\ s.ino \in 0 .. Inodes /\ s.fresh \in BOOLEAN
         /\ s.attempt \in 0 .. 1 /\ s.file \in 0 .. Inodes /\ s.at \in Times
         /\ s.todo \in SUBSET Items /\ s.cur \in Items
         /\ s.snap \in [Items -> Records] /\ s.ticked \in BOOLEAN
         /\ s.beat \in 0 .. LOCK_BEAT
         /\ \A y \in Items : s.mem[y] \in Records /\ s.snap[y] \in Records
BY DEF Local

LEMMA OffIsLocal ==
  /\ Off \in Local
  /\ NoMap \in [Items -> Records]
  /\ \A y \in Items : Off.mem[y] = Absent
<1>1. NoMap \in [Items -> Records] /\ \A y \in Items : NoMap[y] = Absent
  BY AbsentIsRecord DEF NoMap
<1>2. 0 \in 0 .. Inodes /\ 0 \in 0 .. LOCK_BEAT /\ 0 \in 0 .. 1
  BY SchedulesAssumption
<1>3. "idle" \in Steps
  BY DEF Steps
<1> QED
  BY <1>1, <1>2, <1>3, SomeItemIs, TimesAreNat DEF Off, Local

LEMMA RestsFacts ==
  ASSUME NEW s \in Local
  PROVE  LET t == Rests(s) IN
         /\ t \in Local
         /\ t.up = s.up /\ t.pc = "idle" /\ t.ino = s.ino /\ t.fresh = s.fresh
         /\ t.ticked = s.ticked /\ t.beat = s.beat /\ t.at = 0 /\ t.file = 0
         /\ t.mem = Written(s.mem)
         /\ Kept(s, t)
<1>1. PICK m \in [Items -> Records] : m = Written(s.mem)
  BY LocalFields, WrittenFacts
<1>2. \A y \in Items : m[y] = s.mem[y] \/ (m[y] = Absent /\ ~s.mem[y].there)
  <2> TAKE y \in Items
  <2>1. s.mem[y].there \in BOOLEAN
    BY LocalFields, RecordFields
  <2> QED
    BY <1>1, <2>1, LocalFields, WrittenFacts
<1>3. 0 \in 0 .. Inodes /\ 0 \in 0 .. 1 /\ 0 \in Times
  BY SchedulesAssumption, TimesAreNat
<1>4. "idle" \in Steps
  BY DEF Steps
<1>5. Rests(s) = [s EXCEPT !.pc = "idle", !.attempt = 0, !.file = 0, !.at = 0,
                           !.todo = {}, !.cur = SomeItem, !.snap = NoMap,
                           !.mem = m]
  BY <1>1 DEF Rests
<1> DEFINE t == [s EXCEPT !.pc = "idle", !.attempt = 0, !.file = 0, !.at = 0,
                          !.todo = {}, !.cur = SomeItem, !.snap = NoMap,
                          !.mem = m]
<1>6. t \in Local
  BY <1>3, <1>4, SomeItemIs, OffIsLocal DEF Local
<1>7. /\ t.up = s.up /\ t.pc = "idle" /\ t.ino = s.ino /\ t.fresh = s.fresh
      /\ t.ticked = s.ticked /\ t.beat = s.beat /\ t.at = 0 /\ t.file = 0
      /\ t.mem = m
  BY DEF Local
<1> HIDE DEF t
<1>8. Kept(s, t)
  BY <1>2, <1>7 DEF Kept
<1> QED
  BY <1>1, <1>5, <1>6, <1>7, <1>8 DEF t

LEMMA LostFacts ==
  ASSUME NEW s \in Local
  PROVE  LET t == Lost(s) IN
         /\ t \in Local
         /\ t.up = s.up /\ t.pc = "idle" /\ t.ino = 0 /\ t.fresh = FALSE
         /\ t.ticked = s.ticked /\ t.at = 0 /\ t.file = 0
         /\ t.mem = Written(s.mem)
         /\ Kept(s, t)
<1>1. PICK r \in Local : r = Rests(s)
  BY RestsFacts
<1>2. 0 \in 0 .. Inodes /\ 0 \in 0 .. LOCK_BEAT
  BY SchedulesAssumption
<1>3. Lost(s) = [r EXCEPT !.ino = 0, !.fresh = FALSE, !.beat = 0]
  BY <1>1 DEF Lost
<1>4. /\ r.up = s.up /\ r.pc = "idle" /\ r.ticked = s.ticked /\ r.at = 0
      /\ r.file = 0 /\ r.mem = Written(s.mem) /\ Kept(s, r)
  BY <1>1, RestsFacts
<1> QED
  BY <1>2, <1>3, <1>4 DEF Local, Kept

LEMMA WaivedFacts ==
  ASSUME NEW s \in Local
  PROVE  LET t == Waived(s) IN
         /\ t \in Local
         /\ t.pc \in {"idle", "read"} /\ t.ino = s.ino /\ t.fresh = s.fresh
         /\ t.at = 0 /\ t.file = 0 /\ Kept(s, t)
         /\ t.pc = "idle" => s.ticked
<1>1. PICK r \in Local : r = Rests(s)
  BY RestsFacts
<1>2. "read" \in Steps
  BY DEF Steps
<1>3. /\ r.pc = "idle" /\ r.ino = s.ino /\ r.fresh = s.fresh
      /\ r.at = 0 /\ r.file = 0 /\ Kept(s, r)
  BY <1>1, RestsFacts
<1>4. CASE s.ticked
  BY <1>1, <1>3, <1>4 DEF Waived
<1>5. CASE ~s.ticked
  <2>1. Waived(s) = [r EXCEPT !.pc = "read"]
    BY <1>1, <1>5 DEF Waived
  <2> QED
    BY <1>2, <1>3, <2>1 DEF Local, Kept
<1> QED
  BY <1>4, <1>5

LEMMA PassesFacts ==
  ASSUME NEW s \in Local, now \in Times
  PROVE  LET t == Passes(s) IN
         /\ t \in Local
         /\ t.pc = "pass" /\ t.ino = s.ino /\ t.fresh = s.fresh /\ t.at = now
         /\ t.mem = s.mem /\ t.file = s.file
<1>1. "pass" \in Steps
  BY DEF Steps
<1> QED
  BY <1>1 DEF Passes, Local

LEMMA OwnsFacts ==
  ASSUME NEW s \in Local, NEW i \in 0 .. Inodes
  PROVE  LET t == Owns(s, i) IN
         /\ t \in Local
         /\ t.pc = "read" /\ t.ino = i /\ t.fresh = TRUE /\ t.file = 0
         /\ t.mem = s.mem /\ t.at = s.at
<1>1. "read" \in Steps
  BY DEF Steps
<1>2. 0 \in 0 .. Inodes /\ 0 \in 0 .. LOCK_BEAT /\ 0 \in 0 .. 1
  BY SchedulesAssumption
<1> QED
  BY <1>1, <1>2 DEF Owns, Local

LEMMA StampedFacts ==
  ASSUME NEW s \in Local
  PROVE  LET t == Stamped(s) IN
         /\ t \in Local
         /\ t.up = s.up /\ t.pc = s.pc /\ t.ino = s.ino /\ t.fresh = s.fresh
         /\ t.mem = s.mem /\ t.at = s.at /\ t.file = s.file /\ t.todo = s.todo
<1>1. 0 \in 0 .. LOCK_BEAT
  BY SchedulesAssumption
<1> QED
  BY <1>1 DEF Stamped, Local

\* To the next schedule of the pass, or none: nothing is claimed.
LEMMA OverFacts ==
  ASSUME NEW s \in Local
  PROVE  LET t == Over(s) IN
         /\ t \in Local
         /\ t.pc \in {"idle", "pass"} /\ t.ino = s.ino /\ t.fresh = s.fresh
         /\ t.at \in {0, s.at} /\ Kept(s, t)
<1>1. CASE s.todo = {}
  BY <1>1, RestsFacts DEF Over
<1>2. CASE s.todo # {}
  <2>1. "pass" \in Steps
    BY DEF Steps
  <2>2. Over(s) = [s EXCEPT !.pc = "pass", !.snap = NoMap, !.cur = SomeItem]
    BY <1>2 DEF Over
  <2> QED
    BY <2>1, <2>2, SomeItemIs, OffIsLocal DEF Local, Kept
<1> QED
  BY <1>1, <1>2

\* What is due is claimed: cur keeps its place, and its record is the claim.
LEMMA OnwardFacts ==
  ASSUME NEW s \in Local
  PROVE  LET t == Onward(s)
             c == Claimed(s.cur, s.mem[s.cur], s.at) IN
         /\ t \in Local
         /\ t.ino = s.ino /\ t.fresh = s.fresh /\ t.at \in {0, s.at}
         /\ \/ t.pc \in {"idle", "pass"} /\ Kept(s, t)
            \/ /\ t.pc = "save" /\ t.cur = s.cur
               /\ IsDue(s.mem[s.cur], s.at)
               /\ t.mem = [s.mem EXCEPT ![s.cur] = c]
<1>1. CASE ~IsDue(s.mem[s.cur], s.at)
  BY <1>1, OverFacts DEF Onward
<1>2. CASE IsDue(s.mem[s.cur], s.at)
  <2>1. "save" \in Steps
    BY DEF Steps
  <2>2. PICK c : c = Claimed(s.cur, s.mem[s.cur], s.at)
    OBVIOUS
  <2>3. c \in Records
    BY <1>2, <2>2, LocalFields, ClaimedFacts
  <2>4. PICK m \in [Items -> Records] : m = [s.mem EXCEPT ![s.cur] = c]
    BY <2>3, LocalFields
  <2>5. Onward(s) = [s EXCEPT !.pc = "save", !.snap = NoMap, !.mem = m]
    BY <1>2, <2>2, <2>4 DEF Onward, Local
  <2>6. LET t == [s EXCEPT !.pc = "save", !.snap = NoMap, !.mem = m] IN
        /\ t \in Local /\ t.ino = s.ino /\ t.fresh = s.fresh /\ t.at = s.at
        /\ t.pc = "save" /\ t.cur = s.cur /\ t.mem = m
    BY <2>1, OffIsLocal DEF Local
  <2> QED
    BY <1>2, <2>2, <2>4, <2>5, <2>6
<1> QED
  BY <1>1, <1>2


\* After an attempt: the lock is gone, or nothing is said of another failure and
\* what is due may be claimed, or the result is to be saved.
Ends(s, answer, a, y, r, j) ==
    \/ /\ ~StillOurs(s) /\ a.ino = 0 /\ a.pc = "idle" /\ Kept(s, a)
       /\ a.fresh = FALSE
    \/ /\ StillOurs(s) /\ Quiet(r, answer, s.at)
       /\ a.pc \in {"idle", "pass"}
       /\ \A z \in Items \ {y} : \/ a.mem[z] = s.mem[z]
                                 \/ a.mem[z] = Absent /\ ~s.mem[z].there
       /\ a.mem[y] = j \/ (a.mem[y] = Absent /\ ~r.there)
    \/ /\ StillOurs(s) /\ Quiet(r, answer, s.at)
       /\ a.pc = "save" /\ a.cur = y /\ IsDue(j, s.at)
       /\ a.mem = [s.mem EXCEPT ![y] = Claimed(y, j, s.at)]
    \/ /\ StillOurs(s) /\ ~Quiet(r, answer, s.at)
       /\ a.pc = "save" /\ a.cur = y
       /\ a.mem = [s.mem EXCEPT ![y] = j]

LEMMA AttemptedFacts ==
  ASSUME NEW s \in Local, NEW answer, NEW a, NEW y, NEW r, NEW j,
         y = s.cur, r = s.mem[y], j = Judged(r, answer, s.at),
         a = Attempted(s, answer)
  PROVE  /\ a \in Local
         /\ a.ino \in {0, s.ino} /\ a.fresh \in {FALSE, s.fresh}
         /\ a.at \in {0, s.at} /\ a.pc \in {"idle", "pass", "save"}
         /\ Ends(s, answer, a, y, r, j)
<1> USE LocalFields
<1>0. y \in Items /\ r \in Records /\ s.at \in Times
  OBVIOUS
<1>1. j \in Records /\ j.there = r.there
  BY <1>0, JudgedFacts
<1>2. PICK m \in [Items -> Records] : m = [s.mem EXCEPT ![y] = j]
  BY <1>0, <1>1
<1>3. PICK t \in Local : t = [s EXCEPT !.mem = m]
  BY DEF Local
<1>4. t = [s EXCEPT !.mem[s.cur] = Judged(s.mem[s.cur], answer, s.at)]
  BY <1>2, <1>3 DEF Local
<1>5. /\ t.ino = s.ino /\ t.fresh = s.fresh /\ t.at = s.at /\ t.cur = y
      /\ t.mem = m /\ t.mem[y] = j
  BY <1>0, <1>2, <1>3 DEF Local
<1>6. CASE ~StillOurs(s)
  BY <1>6, LostFacts DEF Attempted, Ends
<1>7. CASE StillOurs(s) /\ Quiet(r, answer, s.at)
  <2>1. a = Onward(t)
    BY <1>4, <1>7 DEF Attempted
  <2>3. /\ a \in Local
        /\ a.ino = t.ino /\ a.fresh = t.fresh /\ a.at \in {0, t.at}
        /\ \/ a.pc \in {"idle", "pass"} /\ Kept(t, a)
           \/ /\ a.pc = "save" /\ a.cur = t.cur
              /\ IsDue(t.mem[t.cur], t.at)
              /\ a.mem = [t.mem EXCEPT ![t.cur] =
                                Claimed(t.cur, t.mem[t.cur], t.at)]
    BY <2>1, OnwardFacts
  <2>4. CASE a.pc \in {"idle", "pass"} /\ Kept(t, a)
    <3>1. \A z \in Items : \/ a.mem[z] = m[z]
                           \/ a.mem[z] = Absent /\ ~m[z].there
      BY <1>5, <2>4 DEF Kept
    <3> QED
      BY <1>0, <1>1, <1>2, <1>5, <1>7, <2>3, <2>4, <3>1 DEF Ends
  <2>5. CASE /\ a.pc = "save" /\ a.cur = t.cur
             /\ IsDue(t.mem[t.cur], t.at)
             /\ a.mem = [t.mem EXCEPT ![t.cur] =
                                Claimed(t.cur, t.mem[t.cur], t.at)]
    <3>1. a.mem = [s.mem EXCEPT ![y] = Claimed(y, j, s.at)]
      BY <1>2, <1>5, <2>5
    <3> QED
      BY <1>5, <1>7, <2>3, <2>5, <3>1 DEF Ends
  <2> QED
    BY <2>3, <2>4, <2>5
<1>8. CASE StillOurs(s) /\ ~Quiet(r, answer, s.at)
  <2>1. a = [t EXCEPT !.pc = "save"]
    BY <1>4, <1>8 DEF Attempted
  <2>2. "save" \in Steps
    BY DEF Steps
  <2>3. /\ a \in Local /\ a.ino = t.ino /\ a.fresh = t.fresh /\ a.at = t.at
        /\ a.pc = "save" /\ a.cur = t.cur /\ a.mem = t.mem
    BY <2>1, <2>2 DEF Local
  <2> QED
    BY <1>2, <1>5, <1>8, <2>3 DEF Ends
<1> QED
  BY <1>6, <1>7, <1>8

LEMMA AttemptedType ==
  ASSUME NEW s \in Local, NEW answer
  PROVE  Attempted(s, answer) \in Local
<1>1. PICK a : a = Attempted(s, answer)
  OBVIOUS
<1>2. PICK y : y = s.cur
  OBVIOUS
<1>3. PICK r : r = s.mem[y]
  OBVIOUS
<1>4. PICK j : j = Judged(r, answer, s.at)
  OBVIOUS
<1>5. a \in Local
  BY <1>1, <1>2, <1>3, <1>4, AttemptedFacts
<1> QED
  BY <1>1, <1>5


-----------------------------------------------------------------------------
(* Types. *)

LEMMA LockFields ==
  ASSUME lock \in Locks
  PROVE  /\ lock.ino \in 0 .. Inodes
         /\ lock = NoLock <=> lock.ino = 0
         /\ lock.ino # 0 => /\ lock.ino \in 1 .. Inodes
                            /\ lock.by \in Engines \cup {"gone", "other"}
                            /\ lock.age \in 0 .. LOCK_STALE + 1
         /\ lock = NoLock => lock.by \notin Engines
BY SchedulesAssumption DEF Locks, NoLock

LEMMA StampsType ==
  ASSUME NEW e \in Engines, TypeOK, Stamps(e)
  PROVE  /\ lock' \in Locks
         /\ lock'.ino = lock.ino
         /\ \/ lock'.by = lock.by
            \/ lock'.by = e /\ StillOurs(engine[e])
<1>1. CASE BeatIsDue(engine[e]) /\ StillOurs(engine[e])
  <2>1. lock.ino # 0
    BY <1>1 DEF StillOurs
  <2>2. lock \in [ino : 1 .. Inodes, by : Engines \cup {"gone", "other"},
                  age : 0 .. LOCK_STALE + 1]
    BY <2>1 DEF TypeOK, Locks, NoLock
  <2>3. 0 \in 0 .. LOCK_STALE + 1
    BY SchedulesAssumption
  <2>4. lock' = [lock EXCEPT !.by = e, !.age = 0]
    BY <1>1 DEF Stamps
  <2> QED
    BY <1>1, <2>2, <2>3, <2>4 DEF Locks
<1>2. CASE ~(BeatIsDue(engine[e]) /\ StillOurs(engine[e]))
  BY <1>2 DEF Stamps, TypeOK
<1> QED
  BY <1>1, <1>2

LEMMA TypeInit == Init => TypeOK
<1> SUFFICES ASSUME Init PROVE TypeOK
  OBVIOUS
<1> USE SchedulesAssumption
<1>1. file \in [Items -> Records]
  <2>1. \A y \in Items : [there |-> TRUE, on |-> TRUE, next |-> NextAfter(y, 0),
                          last |-> NoFire] \in Records
    <3> TAKE y \in Items
    <3>1. PICK n \in Times : n = NextAfter(y, 0)
      BY NextAfterFacts
    <3> QED
      BY <3>1, AbsentIsRecord DEF Records
  <2> QED
    BY <2>1 DEF Init
<1>2. engine \in [Engines -> Local]
  BY OffIsLocal DEF Init
<1>3. now \in Times /\ lock \in Locks
  BY TimesAreNat DEF Init, Locks
<1>4. sent \in [Items -> [Times -> Nat]]
  BY DEF Init
<1>5. waiting \in [Items -> Nat] /\ overlooked \in [Items -> Nat]
  BY DEF Init
<1>6. faults \in 0 .. MaxFaults /\ edits \in 0 .. MaxEdits
  BY DEF Init
<1> QED
  BY <1>1, <1>2, <1>3, <1>4, <1>5, <1>6 DEF Init, TypeOK

LEMMA TypeStep == TypeOK /\ [Next]_vars => TypeOK'
<1> SUFFICES ASSUME TypeOK, [Next]_vars PROVE TypeOK'
  OBVIOUS
<1> USE SchedulesAssumption
<1>t. \A e \in Engines : engine[e] \in Local
  BY DEF TypeOK
<1>g. ASSUME NEW e \in Engines, NEW t \in Local, Goes(e, t)
      PROVE  engine' \in [Engines -> Local]
  BY <1>g DEF Goes, TypeOK
<1>s. Steps = {"idle", "link", "open", "look", "unlink", "read", "pass", "save",
               "rename", "deliver", "typed"}
  BY DEF Steps
<1>z. 0 \in 0 .. Inodes /\ 0 \in 0 .. LOCK_BEAT /\ 0 \in 0 .. 1 /\ 1 \in 0 .. 1
  OBVIOUS
<1>1. ASSUME NEW e \in Engines, Wake(e) PROVE TypeOK'
  <2>1. PICK s \in Local : s = [engine[e] EXCEPT !.ticked = TRUE]
    BY <1>t DEF Local
  <2>2. PICK l \in Local : l = Lost(s)
    BY LostFacts
  <2>3. [l EXCEPT !.pc = "link"] \in Local /\ [s EXCEPT !.pc = "read"] \in Local
    BY <1>s DEF Local
  <2>4. Passes(s) \in Local
    BY PassesFacts DEF TypeOK
  <2>5. PICK t \in Local : Goes(e, t)
    BY <1>1, <2>1, <2>2, <2>3, <2>4 DEF Wake
  <2>6. engine' \in [Engines -> Local]
    BY <1>g, <2>5
  <2> QED
    BY <1>1, <2>6 DEF Wake, TypeOK, history
<1>2. ASSUME NEW e \in Engines, Link(e) PROVE TypeOK'
  <2>0. PICK b \in BOOLEAN :
          b = (engine[e].pc = "idle" \/ engine[e].ticked)
    BY <1>t, LocalFields
  <2>1. CASE lock = NoLock
    <3>1. PICK i : i = Least((1 .. Inodes) \ InUse)
      OBVIOUS
    <3>2. i \in 1 .. Inodes
      <4>1. (1 .. Inodes) \ InUse # {}
        BY <1>2, <2>1 DEF Link
      <4> QED
        BY <3>1, <4>1, LeastIsThere
    <3>3. lock' = [ino |-> i, by |-> e, age |-> 0]
      BY <1>2, <2>1, <3>1 DEF Link
    <3>4. lock' \in Locks
      BY <3>2, <3>3 DEF Locks
    <3>4a. [engine[e] EXCEPT !.pc = "open", !.file = i, !.ticked = b] \in Local
      <4>1. i \in 0 .. Inodes /\ "open" \in Steps
        BY <1>s, <3>2
      <4> QED
        BY <1>t, <4>1 DEF Local
    <3>5. [engine[e] EXCEPT !.pc = "open", !.file = i,
                            !.ticked = engine[e].pc = "idle" \/ engine[e].ticked]
             \in Local
      BY <2>0, <3>4a
    <3>6. engine' \in [Engines -> Local]
      BY <1>2, <1>g, <2>1, <3>1, <3>5 DEF Link
    <3> QED
      BY <1>2, <3>4, <3>6 DEF Link, TypeOK, history
  <2>2. CASE lock # NoLock
    <3>4. [engine[e] EXCEPT !.pc = "look", !.ticked = b] \in Local
      <4>1. "look" \in Steps
        BY <1>s
      <4> QED
        BY <1>t, <4>1 DEF Local
    <3>5. [engine[e] EXCEPT !.pc = "look",
                            !.ticked = engine[e].pc = "idle" \/ engine[e].ticked]
             \in Local
      BY <2>0, <3>4
    <3>6. engine' \in [Engines -> Local]
      BY <1>2, <1>g, <2>2, <3>5 DEF Link
    <3> QED
      BY <1>2, <2>2, <3>6 DEF Link, TypeOK, history
  <2> QED
    BY <2>1, <2>2
<1>l. lock.ino \in 0 .. Inodes
  BY LockFields DEF TypeOK
<1>3. ASSUME NEW e \in Engines, Open(e) PROVE TypeOK'
  <2>0. "look" \in Steps
    BY <1>s
  <2>1. [engine[e] EXCEPT !.pc = "look", !.file = 0] \in Local
    BY <1>t, <1>z, <2>0 DEF Local
  <2>2. Owns(engine[e], lock.ino) \in Local
    BY <1>t, <1>l, OwnsFacts
  <2>3. PICK t \in Local : Goes(e, t)
    BY <1>3, <2>1, <2>2 DEF Open
  <2>4. engine' \in [Engines -> Local]
    BY <1>g, <2>3
  <2>5. overtaken' \in BOOLEAN
    BY <1>3 DEF Open, TypeOK
  <2> QED
    BY <1>3, <2>4, <2>5 DEF Open, TypeOK
<1>4. ASSUME NEW e \in Engines, Look(e) PROVE TypeOK'
  <2>0. "unlink" \in Steps
    BY <1>s
  <2>0a. PICK i \in 0 .. Inodes : i = lock.ino
    BY <1>l
  <2>0b. [engine[e] EXCEPT !.pc = "unlink", !.file = i] \in Local
    <3>1. PICK s \in Local : s = engine[e]
      BY <1>t
    <3>2. [s EXCEPT !.pc = "unlink", !.file = i] \in Local
      BY <2>0 DEF Local
    <3> QED
      BY <3>1, <3>2
  <2>1. [engine[e] EXCEPT !.pc = "unlink", !.file = lock.ino] \in Local
    BY <2>0a, <2>0b
  <2>2. Owns(engine[e], lock.ino) \in Local
    BY <1>t, <1>l, OwnsFacts
  <2>3. Waived(engine[e]) \in Local
    BY <1>t, WaivedFacts
  <2>4. PICK t \in Local : Goes(e, t)
    BY <1>4, <2>1, <2>2, <2>3 DEF Look
  <2>5. engine' \in [Engines -> Local]
    BY <1>g, <2>4
  <2> QED
    BY <1>4, <2>5 DEF Look, TypeOK, history
<1>5. ASSUME NEW e \in Engines, Unlink(e) PROVE TypeOK'
  <2>0. PICK s \in Local : s = engine[e]
    BY <1>t
  <2>0a. "link" \in Steps
    BY <1>s
  <2>0b. [s EXCEPT !.pc = "link", !.attempt = 1, !.file = 0] \in Local
    BY <1>z, <2>0a DEF Local
  <2>1. [engine[e] EXCEPT !.pc = "link", !.attempt = 1, !.file = 0] \in Local
    BY <2>0, <2>0b
  <2>2. Waived(engine[e]) \in Local
    BY <1>t, WaivedFacts
  <2>3. PICK t \in Local : Goes(e, t)
    BY <1>5, <2>1, <2>2 DEF Unlink
  <2>4. engine' \in [Engines -> Local]
    BY <1>g, <2>3
  <2>5. overtaken' \in BOOLEAN /\ lock' \in Locks
    BY <1>5 DEF Unlink, TypeOK, Locks
  <2> QED
    BY <1>5, <2>4, <2>5 DEF Unlink, TypeOK
<1>6. ASSUME NEW e \in Engines, Read(e) PROVE TypeOK'
  <2>0. PICK f \in [Items -> Records] : f = file
    BY DEF TypeOK
  <2>0a. PICK u \in Local : u = [engine[e] EXCEPT !.mem = f]
    BY <1>t, <2>0 DEF Local
  <2>0b. PICK s \in Local : s = [u EXCEPT !.fresh = FALSE]
    BY <2>0a DEF Local
  <2>1. s = [engine[e] EXCEPT !.mem = file, !.fresh = FALSE]
    BY <2>0, <2>0a, <2>0b
  <2>2. Passes(s) \in Local /\ Rests(s) \in Local
    BY PassesFacts, RestsFacts DEF TypeOK
  <2>3. PICK t \in Local : Goes(e, t)
    BY <1>6, <2>1, <2>2 DEF Read
  <2>4. engine' \in [Engines -> Local]
    BY <1>g, <2>3
  <2> QED
    BY <1>6, <2>4 DEF Read, TypeOK, history
<1>7. ASSUME NEW e \in Engines, Turn(e) PROVE TypeOK'
  <2>0. Stamps(e)
    BY <1>7 DEF Turn
  <2>1. lock' \in Locks
    BY <2>0, StampsType
  <2>2. PICK s \in Local : s = Stamped(engine[e]) /\ s.todo = engine[e].todo
    BY <1>t, StampedFacts
  <2>3. Lost(engine[e]) \in Local /\ Rests(s) \in Local
    BY <1>t, LostFacts, RestsFacts
  <2>4. \A x \in engine[e].todo :
          LET t == [s EXCEPT !.todo = @ \ {x}, !.cur = x] IN
          [t EXCEPT !.pc = "deliver"] \in Local /\ Onward(t) \in Local
    <3> TAKE x \in engine[e].todo
    <3>1. x \in Items /\ s.todo \ {x} \in SUBSET Items
      BY <1>t, <2>2, LocalFields
    <3>2. PICK t \in Local : t = [s EXCEPT !.todo = @ \ {x}, !.cur = x]
      BY <3>1 DEF Local
    <3>3. [t EXCEPT !.pc = "deliver"] \in Local
      BY <1>s DEF Local
    <3> QED
      BY <3>2, <3>3, OnwardFacts
  <2>5. PICK t \in Local : Goes(e, t)
    BY <1>7, <2>2, <2>3, <2>4 DEF Turn
  <2>6. engine' \in [Engines -> Local]
    BY <1>g, <2>5
  <2> QED
    BY <1>7, <2>1, <2>6 DEF Turn, TypeOK, history
<1>8. ASSUME NEW e \in Engines, Save(e) PROVE TypeOK'
  <2>1. PICK m \in [Items -> Records] : m = Written(engine[e].mem)
    BY <1>t, LocalFields, WrittenFacts
  <2>2. [engine[e] EXCEPT !.pc = "rename", !.snap = m] \in Local
    BY <1>t, <1>s DEF Local
  <2>3. PICK t \in Local : Goes(e, t)
    BY <1>8, <1>t, <2>1, <2>2, LostFacts DEF Save
  <2>4. engine' \in [Engines -> Local]
    BY <1>g, <2>3
  <2> QED
    BY <1>8, <2>4 DEF Save, TypeOK, history
<1>9. ASSUME NEW e \in Engines, SaveFails(e) PROVE TypeOK'
  <2>1. PICK t \in Local : Goes(e, t)
    BY <1>9, <1>t, OverFacts DEF SaveFails
  <2>2. engine' \in [Engines -> Local]
    BY <1>g, <2>1
  <2>3. faults' \in 0 .. MaxFaults
    BY <1>9 DEF SaveFails, TypeOK
  <2>4. failed' \subseteq Items
    BY <1>9, <1>t, LocalFields DEF SaveFails, TypeOK
  <2> QED
    BY <1>9, <2>2, <2>3, <2>4 DEF SaveFails, TypeOK
<1>10. ASSUME NEW e \in Engines, Rename(e) PROVE TypeOK'
  <2>1. [engine[e] EXCEPT !.pc = "deliver", !.snap = NoMap] \in Local
    BY <1>t, <1>s, OffIsLocal DEF Local
  <2>2. PICK t \in Local : Goes(e, t)
    BY <1>10, <1>t, <2>1, OnwardFacts DEF Rename
  <2>3. engine' \in [Engines -> Local]
    BY <1>g, <2>2
  <2>4. file' \in [Items -> Records]
    BY <1>10, <1>t, LocalFields DEF Rename
  <2>5. overtaken' \in BOOLEAN /\ unwritten' \subseteq Items \X Times
    BY <1>10 DEF Rename, TypeOK
  <2> QED
    BY <1>10, <2>3, <2>4, <2>5 DEF Rename, TypeOK
<1>11. ASSUME NEW e \in Engines, DeliverNothing(e) PROVE TypeOK'
  <2>1. PICK t \in Local : Goes(e, t)
    BY <1>11, <1>t, AttemptedType DEF DeliverNothing
  <2>2. engine' \in [Engines -> Local]
    BY <1>g, <2>1
  <2>3. faults' \in 0 .. MaxFaults
    BY <1>11 DEF DeliverNothing, TypeOK
  <2> QED
    BY <1>11, <2>2, <2>3 DEF DeliverNothing, TypeOK, history
<1>12. ASSUME NEW e \in Engines, Deliver(e) PROVE TypeOK'
  <2>1. [engine[e] EXCEPT !.pc = "typed"] \in Local
    BY <1>t, <1>s DEF Local
  <2>2. engine' \in [Engines -> Local]
    BY <1>12, <1>g, <2>1 DEF Deliver
  <2>3. PICK y \in Items, d \in Times : Occurrence(engine[e]) = <<y, d>>
    BY <1>t, LocalFields, RecordFields DEF Occurrence
  <2>4. loose' \subseteq Items \X Times /\ unwritten' \subseteq Items \X Times
    BY <1>12, <2>3 DEF Deliver, TypeOK
  <2>5. sent' = [sent EXCEPT ![y][d] = @ + 1]
    BY <1>12, <2>3 DEF Deliver
  <2>6. sent' \in [Items -> [Times -> Nat]]
    BY <2>5 DEF TypeOK
  <2> QED
    BY <1>12, <2>2, <2>4, <2>6 DEF Deliver, TypeOK
<1>13. ASSUME NEW e \in Engines, Answer(e) PROVE TypeOK'
  <2>1. PICK t \in Local : Goes(e, t)
    BY <1>13, <1>t, AttemptedType DEF Answer
  <2>2. engine' \in [Engines -> Local]
    BY <1>g, <2>1
  <2> QED
    BY <1>13, <2>2 DEF Answer, TypeOK, history
<1>14. ASSUME NEW e \in Engines, Boot(e) PROVE TypeOK'
  <2>1. [Off EXCEPT !.up = "running", !.pc = "link"] \in Local
    BY <1>s, OffIsLocal DEF Local
  <2>2. engine' \in [Engines -> Local]
    BY <1>14, <1>g, <2>1 DEF Boot
  <2> QED
    BY <1>14, <2>2 DEF Boot, TypeOK, history
<1>15. ASSUME NEW e \in Engines, Die(e) PROVE TypeOK'
  <2>1. engine' \in [Engines -> Local]
    BY <1>15, <1>g, OffIsLocal DEF Die
  <2>2. PICK by \in {"gone", "other"} :
          lock' = IF lock.by = e THEN [lock EXCEPT !.by = by] ELSE lock
    BY <1>15 DEF Die
  <2>3. lock' \in Locks
    <3>1. CASE lock.by = e
      <4>1. lock # NoLock
        BY <3>1, LockFields DEF TypeOK
      <4>2. lock \in [ino : 1 .. Inodes, by : Engines \cup {"gone", "other"},
                      age : 0 .. LOCK_STALE + 1]
        BY <4>1 DEF TypeOK, Locks
      <4> QED
        BY <2>2, <3>1, <4>2 DEF Locks
    <3>2. CASE lock.by # e
      BY <2>2, <3>2 DEF TypeOK
    <3> QED
      BY <3>1, <3>2
  <2>4. faults' \in 0 .. MaxFaults
    BY <1>15 DEF Die, TypeOK
  <2> QED
    BY <1>15, <2>1, <2>3, <2>4 DEF Die, TypeOK, history
<1>16. ASSUME NEW e \in Engines, Exit(e) PROVE TypeOK'
  <2>1. engine' \in [Engines -> Local]
    BY <1>16, <1>g, OffIsLocal DEF Exit
  <2>2. lock' \in Locks /\ faults' \in 0 .. MaxFaults
    BY <1>16 DEF Exit, TypeOK, Locks
  <2> QED
    BY <1>16, <2>1, <2>2 DEF Exit, TypeOK, history
<1>17. ASSUME NEW e \in Engines, Hold(e) \/ Resume(e) PROVE TypeOK'
  <2>1. /\ [engine[e] EXCEPT !.up = "held"] \in Local
        /\ [engine[e] EXCEPT !.up = "running"] \in Local
    BY <1>t DEF Local
  <2>2. engine' \in [Engines -> Local]
    BY <1>17, <1>g, <2>1 DEF Hold, Resume
  <2>3. faults' \in 0 .. MaxFaults
    BY <1>17 DEF Hold, Resume, TypeOK
  <2> QED
    BY <1>17, <2>2, <2>3 DEF Hold, Resume, TypeOK, history
<1>18. ASSUME NEW y \in Items, PaneCloses(y) \/ PaneOpens(y) PROVE TypeOK'
  <2>1. pane' \in [Items -> BOOLEAN]
    BY <1>18 DEF PaneCloses, PaneOpens, TypeOK
  <2>2. faults' \in 0 .. MaxFaults
    BY <1>18 DEF PaneCloses, PaneOpens, TypeOK
  <2>3. waiting' \in [Items -> Nat]
    BY <1>18 DEF PaneCloses, PaneOpens, TypeOK, history
  <2> QED
    BY <1>18, <2>1, <2>2, <2>3 DEF PaneCloses, PaneOpens, TypeOK, history
<1>19. ASSUME NEW e \in Engines, NEW y \in Items,
              NEW op \in {"remove", "pause", "resume"}, Edit(e, y, op)
       PROVE  TypeOK'
  <2>1. PICK n \in Records : n = Edited(y, engine[e].mem[y], op)
    BY <1>t, LocalFields, EditedFacts DEF TypeOK
  <2>2. PICK m \in [Items -> Records] : m = [engine[e].mem EXCEPT ![y] = n]
    BY <1>t, LocalFields
  <2>3. PICK t \in Local : t = [engine[e] EXCEPT !.mem = m]
    BY <1>t DEF Local
  <2>4. t = [engine[e] EXCEPT !.mem[y] = Edited(y, engine[e].mem[y], op)]
    BY <1>t, <2>1, <2>2, <2>3 DEF Local
  <2>5. PICK u \in Local : u = [(IF op = "remove" THEN engine[e] ELSE t)
                                   EXCEPT !.ino = 0, !.fresh = FALSE]
    BY <1>t, <1>z DEF Local
  <2>6. Goes(e, t) \/ Goes(e, u)
    BY <1>19, <2>4, <2>5 DEF Edit
  <2>7. engine' \in [Engines -> Local]
    BY <1>g, <2>6
  <2>8. Written(t.mem) \in [Items -> Records]
    BY LocalFields, WrittenFacts
  <2>9. file' \in [Items -> Records]
    BY <1>19, <2>4, <2>8 DEF Edit, TypeOK
  <2>10. edits' \in 0 .. MaxEdits /\ removed' \subseteq Items
    BY <1>19 DEF Edit, TypeOK
  <2> QED
    BY <1>19, <2>7, <2>9, <2>10 DEF Edit, TypeOK
<1>20. ASSUME Tick PROVE TypeOK'
  <2>1. now' \in Times
    <3>1. now \in 0 .. Horizon /\ now' = Lesser(now + 1, Horizon)
      BY <1>20 DEF Tick, TypeOK, Times
    <3>2. CASE now + 1 < Horizon
      BY <3>1, <3>2 DEF Lesser, Times
    <3>3. CASE ~(now + 1 < Horizon)
      <4>1. now' = Horizon
        BY <3>1, <3>3 DEF Lesser
      <4> QED
        BY <4>1 DEF Times
    <3> QED
      BY <3>2, <3>3
  <2>2. lock' \in Locks
    <3>1. CASE lock = NoLock
      BY <1>20, <3>1 DEF Tick, Locks
    <3>2. CASE lock # NoLock
      <4>1. PICK a \in 0 .. LOCK_STALE + 1 : a = Lesser(lock.age + 1, LOCK_STALE + 1)
        BY <3>2, LockFields DEF TypeOK, Lesser
      <4>2. lock \in [ino : 1 .. Inodes, by : Engines \cup {"gone", "other"},
                      age : 0 .. LOCK_STALE + 1]
        BY <3>2 DEF TypeOK, Locks
      <4>3. lock' = [lock EXCEPT !.age = a]
        BY <1>20, <3>2, <4>1 DEF Tick
      <4> QED
        BY <4>2, <4>3 DEF Locks
    <3> QED
      BY <3>1, <3>2
  <2>3. engine' \in [Engines -> Local]
    <3>1. \A e \in Engines :
            [engine[e] EXCEPT !.ticked = FALSE,
                !.beat = IF engine[e].ino = 0 THEN 0
                         ELSE Lesser(@ + 1, LOCK_BEAT)] \in Local
      <4> TAKE e \in Engines
      <4>1. PICK b \in 0 .. LOCK_BEAT :
              b = IF engine[e].ino = 0 THEN 0 ELSE Lesser(engine[e].beat + 1, LOCK_BEAT)
        BY <1>t, <1>z, LocalFields DEF Lesser
      <4>2. [engine[e] EXCEPT !.ticked = FALSE, !.beat = b] \in Local
        BY <1>t DEF Local
      <4> QED
        BY <4>1, <4>2
    <3> QED
      BY <1>20, <3>1 DEF Tick
  <2>4. waiting' \in [Items -> Nat] /\ overlooked' \in [Items -> Nat]
    <3>1. \A y \in Items : Lesser(overlooked[y] + 1, Horizon) \in Nat
      BY DEF TypeOK, Lesser
    <3>2. now \in Nat /\ now' \in Nat /\ now <= now'
      <4>1. now \in 0 .. Horizon /\ now' = Lesser(now + 1, Horizon)
        BY <1>20 DEF Tick, TypeOK, Times
      <4> QED
        BY <4>1 DEF Lesser
    <3>3. \A y \in Items : waiting[y] + (now' - now) \in Nat
      BY <3>2 DEF TypeOK
    <3>4. overlooked' \in [Items -> Nat]
      BY <1>20, <3>1 DEF Tick
    <3>5. waiting' \in [Items -> Nat]
      <4>1. waiting' = [y \in Items |-> IF Waits(y) THEN waiting[y] + (now' - now)
                                                    ELSE 0]
        BY <1>20, Zenon DEF Tick
      <4> QED
        BY <3>3, <4>1
    <3> QED
      BY <3>4, <3>5
  <2> QED
    BY <1>20, <2>1, <2>2, <2>3, <2>4 DEF Tick, TypeOK
<1>21. CASE UNCHANGED vars
  BY <1>21 DEF vars, history, TypeOK
<1> QED
  BY <1>1, <1>2, <1>3, <1>4, <1>5, <1>6, <1>7, <1>8, <1>9, <1>10, <1>11, <1>12,
     <1>13, <1>14, <1>15, <1>16, <1>17, <1>18, <1>19, <1>20, <1>21
     DEF Next, Moves


-----------------------------------------------------------------------------
(* The invariant.  The part of it that speaks of the lock holds until        *)
(* another engine's call comes between two that belong together.             *)

\* The engine may yet send an occurrence of y: it is at it, or may try again.
Pending(s, y) == \/ s.mem[y].last.out = "undelivered"
                 \/ s.pc \in {"deliver", "typed"} /\ s.cur = y

\* The cursor is past the last fire, which is past.
InOrder(r) == /\ r.next # 0 => r.last.due < r.next
              /\ r.last.due <= now
              /\ r.last.retry => r.last.out = "undelivered"

Sane(s) == /\ s.at <= now
           /\ s.fresh => s.pc = "read"
           /\ s.pc = "rename" => s.snap = Written(s.mem)
           /\ s.pc \in {"deliver", "typed"} =>
                \/ s.mem[s.cur].last.out = "unknown"
                \/ /\ s.mem[s.cur].last.out = "undelivered"
                   /\ s.mem[s.cur].last.retry
           /\ \A y \in Items : InOrder(s.mem[y])

Steady == /\ \A y \in Items : InOrder(file[y]) /\ (file[y].there \/ file[y] = Absent)
          /\ \A e \in Engines : Sane(engine[e])
          /\ \A y \in Items : \A t \in Times : sent[y][t] # 0 => t <= now

\* The number by which an engine knows the lock, or has just given to it.
Claims(s, i) == s.ino = i \/ (s.pc = "open" /\ s.file = i)

\* No two engines go by one number, and the name in the lock is of the one that
\* does.
Apart ==
    \A e, f \in Engines : e # f =>
       /\ \A i \in 1 .. Inodes : ~(Claims(engine[e], i) /\ Claims(engine[f], i))
       /\ lock.by = e => ~Claims(engine[f], lock.ino)

\* Nothing later than the record's last fire was sent, or will be.
Covers(y, r) ==
    r # Absent =>
      /\ \A t \in Times : sent[y][t] # 0 => t <= r.last.due
      /\ \A f \in Engines : Pending(engine[f], y) =>
                              engine[f].mem[y].last.due <= r.last.due

Unsent(y, d) == sent[y][d] = 0 \/ <<y, d>> \in loose

\* What the record would have sent again did not go out.
Owed(y, r) ==
    r.last.retry => Unsent(y, r.last.due) \/ <<y, r.last.due>> \in unwritten

FileHolds ==
    \A y \in Items :
       /\ y \in removed => file[y] = Absent
       /\ Covers(y, file[y])
       /\ Owed(y, file[y])
       /\ \A t \in Times : sent[y][t] <= 1 \/ <<y, t>> \in loose

\* The holder's record is the file's, or a later one.
Abreast(y, r) ==
    /\ Covers(y, r)
    /\ Owed(y, r)
    /\ r.there = file[y].there
    /\ file[y] = Absent \/ file[y].last.due <= r.last.due

\* What the holder claims, and what it says may be tried again, is not out; and
\* when it sends what it claimed, the file promises no other attempt.
AtWork(s) ==
    LET r == s.mem[s.cur]  d == s.mem[s.cur].last.due IN
    /\ s.pc \in {"save", "rename"} /\ (r.last.out = "unknown" \/ r.last.retry)
         => Unsent(s.cur, d)
    /\ s.pc = "deliver" /\ r.last.out = "unknown"
         => Unsent(s.cur, d) /\ ~file[s.cur].last.retry

Knows(s) == StillOurs(s) /\ ~s.fresh

HolderHolds ==
    \A e \in Engines : Knows(engine[e]) =>
       /\ \A y \in Items : Abreast(y, engine[e].mem[y])
       /\ AtWork(engine[e])

Serial == Apart /\ FileHolds /\ HolderHolds
SchedInv == Steady /\ (overtaken \/ Serial)

-----------------------------------------------------------------------------
(* Steps of an engine that leave the file, and what was sent, alone. *)

\* A record that takes the place of another in a holder's memory.
Grows(y, r, n) ==
    \/ n = r
    \/ n = Absent /\ ~r.there
    \/ /\ r # Absent
       /\ n.there = r.there
       /\ r.last.due <= n.last.due
       /\ n.last.retry => /\ n.last.due = r.last.due
                          /\ r.last.retry \/ Unsent(y, r.last.due)

\* Nothing is pending that was not.
NoneNew(s, t) ==
    \A y \in Items : Pending(t, y) => /\ Pending(s, y)
                                      /\ t.mem[y].last.due = s.mem[y].last.due

Carries(e, t) ==
    LET s == engine[e] IN
    /\ ~overtaken' => \A i \in 1 .. Inodes :
                        Claims(t, i) => Claims(s, i) \/ (lock.by = e /\ lock.ino = i)
    /\ t.ino # 0 /\ ~t.fresh => t.ino = s.ino /\ ~s.fresh
    /\ NoneNew(s, t)
    /\ Sane(t)
    /\ Serial /\ StillOurs(s) /\ t.ino # 0 /\ ~t.fresh =>
         /\ \A y \in Items : Grows(y, s.mem[y], t.mem[y])
         /\ AtWork(t)

Tables == <<file, removed, sent, loose, unwritten>>

LEMMA AbreastGrows ==
  ASSUME NEW y \in Items, NEW r \in Records, NEW n \in Records, TypeOK,
         Steady, Abreast(y, r), Grows(y, r, n)
  PROVE  Abreast(y, n)
<1> USE RecordFields, TimesAreNat
<1>0. Absent.there = FALSE /\ ~Absent.last.retry
  BY DEF Absent, NoFire
<1>1. CASE n = r
  BY <1>1
<1>2. CASE n = Absent /\ ~r.there
  BY <1>0, <1>2 DEF Abreast, Covers, Owed, Steady
<1>3. CASE /\ r # Absent
           /\ n.there = r.there
           /\ r.last.due <= n.last.due
           /\ n.last.retry => /\ n.last.due = r.last.due
                              /\ r.last.retry \/ Unsent(y, r.last.due)
  <2>1. Covers(y, n)
    <3>1. \A t \in Times : sent[y][t] # 0 => t <= n.last.due
      BY <1>3 DEF Abreast, Covers
    <3>2. \A f \in Engines : engine[f].mem[y].last.due \in Nat
      BY LocalFields DEF TypeOK
    <3>3. \A f \in Engines : Pending(engine[f], y) =>
                               engine[f].mem[y].last.due <= n.last.due
      BY <1>3, <3>2 DEF Abreast, Covers
    <3> QED
      BY <3>1, <3>3 DEF Covers
  <2>2. Owed(y, n)
    BY <1>3 DEF Abreast, Owed
  <2>3. file[y] = Absent \/ file[y].last.due <= n.last.due
    <3>1. file[y].last.due \in Nat
      BY DEF TypeOK
    <3> QED
      BY <1>3, <3>1 DEF Abreast
  <2> QED
    BY <1>3, <2>1, <2>2, <2>3 DEF Abreast
<1> QED
  BY <1>1, <1>2, <1>3 DEF Grows

\* What holds of a record goes on holding while nothing is sent or written.
LEMMA StaysAbreast ==
  ASSUME NEW y \in Items, NEW r, UNCHANGED Tables,
         \A f \in Engines : NoneNew(engine[f], engine'[f])
  PROVE  /\ Covers(y, r) => Covers(y, r)'
         /\ Owed(y, r) => Owed(y, r)'
         /\ Abreast(y, r) => Abreast(y, r)'
<1>1. ASSUME Covers(y, r) PROVE Covers(y, r)'
  BY <1>1 DEF Covers, NoneNew, Tables
<1>2. ASSUME Owed(y, r) PROVE Owed(y, r)'
  BY <1>2 DEF Owed, Unsent, Tables
<1> QED
  BY <1>1, <1>2 DEF Abreast, Tables

LEMMA FileStays ==
  ASSUME FileHolds, UNCHANGED Tables,
         \A f \in Engines : NoneNew(engine[f], engine'[f])
  PROVE  FileHolds'
<1> SUFFICES ASSUME NEW y \in Items
             PROVE  /\ y \in removed' => file'[y] = Absent
                    /\ Covers(y, file[y])'
                    /\ Owed(y, file[y])'
                    /\ \A t \in Times : sent'[y][t] <= 1 \/ <<y, t>> \in loose'
  BY DEF FileHolds
<1>1. PICK r : r = file[y]
  OBVIOUS
<1>2. Covers(y, r) /\ Owed(y, r)
  BY <1>1 DEF FileHolds
<1>3. Covers(y, r)' /\ Owed(y, r)'
  BY <1>2, StaysAbreast
<1>4. file'[y] = r
  BY <1>1 DEF Tables
<1> QED
  BY <1>3, <1>4 DEF FileHolds, Tables


\* What the lock may become meanwhile: it stays, it is stamped by an engine that
\* goes by its number, it goes, or its holder dies.
LockStays(e) ==
    /\ lock'.ino \in {0, lock.ino}
    /\ \/ lock'.by = lock.by
       \/ lock'.by = e /\ StillOurs(engine[e])
       \/ lock'.by \notin Engines

LEMMA CarriedStep ==
  ASSUME TypeOK, TypeOK', Steady, NEW e \in Engines, NEW t \in Local,
         Goes(e, t), Carries(e, t), LockStays(e), UNCHANGED <<now, Tables>>
  PROVE  Steady' /\ (Serial /\ ~overtaken' => Serial')
<1>1. engine'[e] = t /\ \A f \in Engines \ {e} : engine'[f] = engine[f]
  BY DEF Goes, TypeOK
<1>2. Steady'
  <2>1. \A f \in Engines : Sane(engine[f])'
    <3> TAKE f \in Engines
    <3>1. PICK u : u = engine'[f]
      OBVIOUS
    <3>2. Sane(u)
      BY <1>1, <3>1 DEF Carries, Steady
    <3>3. Sane(u)'
      BY <3>2 DEF Sane, InOrder
    <3> QED
      BY <3>1, <3>3 DEF Sane, InOrder
  <2> QED
    BY <2>1 DEF Steady, InOrder, Tables
<1>3. \A f \in Engines : NoneNew(engine[f], engine'[f])
  BY <1>1 DEF Carries, NoneNew
<1>4. ASSUME Serial, ~overtaken' PROVE Serial'
  <2>1. Apart'
    <3>1. \A f \in Engines : \A i \in 1 .. Inodes :
             Claims(engine'[f], i) => \/ Claims(engine[f], i)
                                      \/ f = e /\ lock.by = e /\ lock.ino = i
      BY <1>1, <1>4 DEF Carries
    <3>2. ASSUME NEW f \in Engines, NEW g \in Engines, f # g,
                 NEW i \in 1 .. Inodes
          PROVE  ~(Claims(engine'[f], i) /\ Claims(engine'[g], i))
      BY <1>4, <3>1, <3>2 DEF Serial, Apart
    <3>3. ASSUME NEW f \in Engines, NEW g \in Engines, f # g, lock'.by = f
          PROVE  ~Claims(engine'[g], lock'.ino)
      <4>1. lock'.ino # 0 /\ lock'.ino \in 1 .. Inodes
        <5>1. lock' = NoLock => lock'.by \notin Engines
          BY SchedulesAssumption DEF NoLock
        <5>2. lock' # NoLock
          BY <3>3, <5>1
        <5> QED
          BY <5>2, SchedulesAssumption DEF TypeOK, Locks
      <4>2. lock'.ino = lock.ino
        BY <4>1 DEF LockStays
      <4>3. CASE lock.by = f
        BY <1>4, <3>1, <3>3, <4>1, <4>2, <4>3 DEF Serial, Apart
      <4>4. CASE lock.by # f /\ f = e /\ StillOurs(engine[e])
        <5>1. Claims(engine[e], lock.ino)
          BY <4>4 DEF Claims, StillOurs
        <5> QED
          BY <1>4, <3>1, <3>3, <4>1, <4>2, <4>4, <5>1 DEF Serial, Apart
      <4> QED
        BY <3>3, <4>3, <4>4 DEF LockStays
    <3> QED
      BY <3>2, <3>3 DEF Apart
  <2>2. FileHolds'
    BY <1>3, <1>4, FileStays DEF Serial
  <2>3. ASSUME NEW f \in Engines, Knows(engine[f])'
        PROVE  /\ \A y \in Items : Abreast(y, engine[f].mem[y])'
               /\ AtWork(engine[f])'
    <3>1. PICK u : u = engine'[f]
      OBVIOUS
    <3>2. u.ino # 0 /\ lock'.ino = u.ino /\ ~u.fresh
      BY <2>3, <3>1 DEF Knows, StillOurs
    <3>3. lock'.ino = lock.ino
      BY <3>2 DEF LockStays
    <3>4. Knows(engine[f])
      <4>1. engine[f].ino = u.ino /\ ~engine[f].fresh
        BY <1>1, <3>1, <3>2 DEF Carries
      <4> QED
        BY <3>2, <3>3, <4>1 DEF Knows, StillOurs
    <3>5. /\ \A y \in Items : Abreast(y, engine[f].mem[y])
          /\ AtWork(engine[f])
      BY <1>4, <3>4 DEF Serial, HolderHolds
    <3>6. /\ \A y \in Items : Abreast(y, u.mem[y])
          /\ AtWork(u)
      <4>1. CASE f = e
        <5>1. u = t /\ t.ino # 0 /\ ~t.fresh /\ StillOurs(engine[e])
          BY <1>1, <3>1, <3>2, <3>4, <4>1 DEF Knows
        <5>2. /\ \A y \in Items : Grows(y, engine[e].mem[y], t.mem[y])
              /\ AtWork(t)
          BY <1>4, <5>1 DEF Carries
        <5>3. \A y \in Items : engine[e].mem[y] \in Records /\ t.mem[y] \in Records
          BY LocalFields DEF TypeOK
        <5> QED
          BY <3>5, <4>1, <5>1, <5>2, <5>3, AbreastGrows
      <4>2. CASE f # e
        BY <1>1, <3>1, <3>5, <4>2
      <4> QED
        BY <4>1, <4>2
    <3>7. \A y \in Items : Abreast(y, u.mem[y])'
      <4> TAKE y \in Items
      <4>1. PICK r : r = u.mem[y]
        OBVIOUS
      <4>2. Abreast(y, r)
        BY <3>6, <4>1
      <4>3. Abreast(y, r)'
        BY <1>3, <4>2, StaysAbreast
      <4> QED
        BY <4>1, <4>3
    <3>8. AtWork(u)'
      BY <3>6 DEF AtWork, Unsent, Tables
    <3> QED
      BY <3>1, <3>7, <3>8
  <2> QED
    BY <2>1, <2>2, <2>3 DEF Serial, HolderHolds
<1> QED
  BY <1>2, <1>4


LEMMA AbsentIsQuiet ==
  /\ Absent.last.out = "none" /\ Absent.last.retry = FALSE
  /\ Absent.next = 0 /\ Absent.last.due = 0 /\ Absent.there = FALSE
  /\ (TypeOK => InOrder(Absent))
BY TimesAreNat DEF Absent, NoFire, InOrder, TypeOK, Times

LEMMA IdleCarries ==
  ASSUME TypeOK, Steady, NEW e \in Engines, NEW t \in Local,
         Kept(engine[e], t) \/ (t.ino = 0 /\ \A y \in Items : t.mem[y] = Absent),
         t.pc \in {"idle", "link", "look", "unlink", "read", "pass"},
         t.ino \in {0, engine[e].ino}, t.ino # 0 => t.fresh = engine[e].fresh,
         t.fresh => t.pc = "read", t.at \in {0, engine[e].at, now}
  PROVE  Carries(e, t)
<1>1. PICK s \in Local : s = engine[e]
  BY DEF TypeOK
<1>2. Sane(s) /\ s.at \in Nat /\ now \in Nat
  BY <1>1, LocalFields, TimesAreNat DEF Steady, TypeOK
<1>3. \A y \in Items : t.mem[y] = s.mem[y] \/ t.mem[y] = Absent
  BY <1>1 DEF Kept
<1>4. NoneNew(s, t)
  BY <1>3, AbsentIsQuiet DEF NoneNew, Pending
<1>5. Sane(t)
  <2>1. \A y \in Items : InOrder(t.mem[y])
    BY <1>2, <1>3, AbsentIsQuiet DEF Sane
  <2>2. t.at <= now
    BY <1>1, <1>2 DEF Sane
  <2> QED
    BY <2>1, <2>2 DEF Sane
<1>6. t.ino # 0 => \A y \in Items : Grows(y, s.mem[y], t.mem[y])
  BY <1>1 DEF Kept, Grows
<1>7. AtWork(t)
  BY DEF AtWork
<1> QED
  BY <1>1, <1>4, <1>5, <1>6, <1>7 DEF Carries, Claims

\* A claim: nothing at or after the cursor was sent.
LEMMA ClaimGrows ==
  ASSUME TypeOK, NEW y \in Items, NEW r \in Records, NEW t \in Times, t <= now,
         InOrder(r), IsDue(r, t)
  PROVE  LET c == Claimed(y, r, t) IN
         /\ c \in Records /\ InOrder(c) /\ c.last.out = "unknown"
         /\ ~c.last.retry
         /\ Grows(y, r, c)
         /\ Covers(y, r) => Unsent(y, c.last.due)
<1>1. PICK c \in Records : c = Claimed(y, r, t)
  BY ClaimedFacts
<1>2. /\ c.there = r.there /\ (c.next # 0 => t < c.next)
      /\ r.next <= c.last.due /\ c.last.due <= t
      /\ c.last.out = "unknown" /\ c.last.retry = FALSE
  BY <1>1, ClaimedFacts
<1>3. /\ r.next # 0 /\ r.last.due < r.next
      /\ r.next \in Nat /\ r.last.due \in Nat
      /\ c.next \in Nat /\ c.last.due \in Nat /\ c.last.due \in Times
      /\ t \in Nat /\ now \in Nat
  BY RecordFields, TimesAreNat DEF InOrder, IsDue, TypeOK
<1>4. InOrder(c)
  BY <1>2, <1>3 DEF InOrder
<1>5. r # Absent
  BY <1>3, AbsentIsQuiet
<1>6. Grows(y, r, c)
  BY <1>2, <1>3, <1>5 DEF Grows
<1>7. ASSUME Covers(y, r) PROVE Unsent(y, c.last.due)
  <2>1. ~(c.last.due <= r.last.due)
    BY <1>2, <1>3
  <2> QED
    BY <1>3, <1>5, <1>7, <2>1 DEF Covers, Unsent
<1> QED
  BY <1>1, <1>2, <1>4, <1>6, <1>7

LEMMA OnwardCarries ==
  ASSUME TypeOK, Steady, NEW e \in Engines, NEW u \in Local,
         u.mem = engine[e].mem, u.ino = engine[e].ino, u.at = engine[e].at,
         u.fresh = engine[e].fresh, ~u.fresh
  PROVE  Carries(e, Onward(u))
<1>1. PICK s \in Local : s = engine[e]
  BY DEF TypeOK
<1>2. Sane(s) /\ s.at \in Times /\ now \in Nat
  BY <1>1, LocalFields, TimesAreNat DEF Steady, TypeOK
<1>3. PICK t : t = Onward(u)
  OBVIOUS
<1>4. PICK y \in Items : y = u.cur
  BY LocalFields
<1>5. PICK r \in Records : r = s.mem[y]
  BY LocalFields
<1>6. /\ t \in Local /\ t.ino = s.ino /\ t.at \in {0, s.at}
      /\ t.fresh = s.fresh /\ ~t.fresh
      /\ \/ t.pc \in {"idle", "pass"} /\ Kept(s, t)
         \/ /\ t.pc = "save" /\ t.cur = y
            /\ IsDue(r, s.at)
            /\ t.mem = [s.mem EXCEPT ![y] = Claimed(y, r, s.at)]
  <2>1. Kept(u, t) => Kept(s, t)
    BY <1>1 DEF Kept
  <2> QED
    BY <1>1, <1>3, <1>4, <1>5, <2>1, OnwardFacts
<1>7. CASE t.pc \in {"idle", "pass"} /\ Kept(s, t)
  BY <1>1, <1>3, <1>6, <1>7, IdleCarries
<1>8. CASE /\ t.pc = "save" /\ t.cur = y
           /\ IsDue(r, s.at)
           /\ t.mem = [s.mem EXCEPT ![y] = Claimed(y, r, s.at)]
  <2>1. PICK c \in Records :
          /\ c = Claimed(y, r, s.at)
          /\ InOrder(c) /\ c.last.out = "unknown" /\ ~c.last.retry
          /\ Grows(y, r, c)
          /\ Covers(y, r) => Unsent(y, c.last.due)
    <3>1. InOrder(r) /\ s.at <= now
      BY <1>2, <1>5 DEF Sane
    <3> QED
      BY <1>2, <1>8, <3>1, ClaimGrows
  <2>2. t.mem[y] = c /\ \A z \in Items \ {y} : t.mem[z] = s.mem[z]
    BY <1>8, <2>1, LocalFields
  <2>3. NoneNew(s, t)
    BY <1>8, <2>1, <2>2 DEF NoneNew, Pending
  <2>4. Sane(t)
    <3>1. \A z \in Items : InOrder(t.mem[z])
      BY <1>2, <2>1, <2>2 DEF Sane
    <3>2. t.at <= now
      BY <1>2, <1>6 DEF Sane
    <3> QED
      BY <1>6, <1>8, <3>1, <3>2 DEF Sane
  <2>5. \A z \in Items : Grows(z, s.mem[z], t.mem[z])
    <3> TAKE z \in Items
    <3>1. CASE z = y
      BY <1>5, <2>1, <2>2, <3>1
    <3>2. CASE z # y
      BY <2>2, <3>2 DEF Grows
    <3> QED
      BY <3>1, <3>2
  <2>6. ASSUME Serial, StillOurs(s) PROVE AtWork(t)
    <3>1. Covers(y, r)
      BY <1>1, <1>5, <1>6, <2>6 DEF Serial, HolderHolds, Knows, Abreast
    <3> QED
      BY <1>8, <2>1, <2>2, <3>1 DEF AtWork
  <2> QED
    BY <1>1, <1>3, <1>6, <1>8, <2>3, <2>4, <2>5, <2>6 DEF Carries, Claims
<1> QED
  BY <1>6, <1>7, <1>8


LEMMA AttemptedCarries ==
  ASSUME TypeOK, Steady, NEW e \in Engines, NEW answer,
         engine[e].pc \in {"deliver", "typed"},
         answer = "later" => engine[e].pc = "deliver"
  PROVE  Carries(e, Attempted(engine[e], answer))
<1>1. PICK s \in Local : s = engine[e]
  BY DEF TypeOK
<1>2. /\ Sane(s) /\ s.at \in Times /\ s.at \in Nat /\ now \in Nat
      /\ s.fresh = FALSE
  BY <1>1, LocalFields, TimesAreNat DEF Steady, TypeOK, Sane
<1>3. PICK t : t = Attempted(s, answer)
  OBVIOUS
<1> SUFFICES Carries(e, t)
  BY <1>1, <1>3
<1>4. PICK y \in Items : y = s.cur
  BY LocalFields
<1>5. PICK r \in Records : r = s.mem[y]
  BY LocalFields
<1>6. PICK j \in Records : j = Judged(r, answer, s.at)
  BY <1>2, JudgedFacts
<1>7. /\ j.there = r.there /\ j.next = r.next /\ j.last.due = r.last.due
      /\ j.last.out \in {"delivered", "undelivered"}
      /\ j.last.retry => j.last.out = "undelivered" /\ answer = "later"
      /\ j.last.retry = KeepsTrying(r, answer, s.at)
  BY <1>2, <1>6, JudgedFacts
<1>8. /\ t \in Local
      /\ t.ino \in {0, s.ino} /\ t.fresh = FALSE
      /\ t.at \in {0, s.at} /\ t.pc \in {"idle", "pass", "save"}
      /\ \/ t.ino = 0 /\ t.pc = "idle" /\ Kept(s, t)
         \/ /\ Quiet(r, answer, s.at)
            /\ t.pc \in {"idle", "pass"}
            /\ \A z \in Items \ {y} : \/ t.mem[z] = s.mem[z]
                                      \/ t.mem[z] = Absent /\ ~s.mem[z].there
            /\ t.mem[y] = j \/ (t.mem[y] = Absent /\ ~r.there)
         \/ /\ Quiet(r, answer, s.at)
            /\ t.pc = "save" /\ t.cur = y /\ IsDue(j, s.at)
            /\ t.mem = [s.mem EXCEPT ![y] = Claimed(y, j, s.at)]
         \/ /\ ~Quiet(r, answer, s.at)
            /\ t.pc = "save" /\ t.cur = y
            /\ t.mem = [s.mem EXCEPT ![y] = j]
  <2>1. /\ t \in Local
        /\ t.ino \in {0, s.ino} /\ t.fresh \in {FALSE, s.fresh}
        /\ t.at \in {0, s.at} /\ t.pc \in {"idle", "pass", "save"}
        /\ Ends(s, answer, t, y, r, j)
    BY <1>3, <1>4, <1>5, <1>6, AttemptedFacts
  <2> QED
    BY <1>2, <2>1 DEF Ends
<1>9. InOrder(r) /\ InOrder(j)
  <2>1. InOrder(r)
    BY <1>2, <1>5 DEF Sane
  <2> QED
    BY <1>7, <2>1 DEF InOrder
<1>10. /\ r # Absent
       /\ r.last.out = "unknown" \/ (r.last.out = "undelivered" /\ r.last.retry)
  BY <1>1, <1>2, <1>4, <1>5, AbsentIsQuiet DEF Sane
<1>11. Pending(s, y)
  BY <1>1, <1>4 DEF Pending
<1>12. ASSUME Serial, StillOurs(s)
       PROVE  /\ Covers(y, r)
              /\ j.last.retry => r.last.retry \/ Unsent(y, r.last.due)
              /\ j.last.retry /\ ~Quiet(r, answer, s.at) => Unsent(y, j.last.due)
              /\ Grows(y, r, j)
  <2>1. Abreast(y, r) /\ AtWork(s)
    BY <1>1, <1>2, <1>5, <1>12 DEF Serial, HolderHolds, Knows
  <2>2. j.last.retry /\ r.last.out = "unknown" => Unsent(y, r.last.due)
    BY <1>1, <1>4, <1>5, <1>7, <2>1 DEF AtWork
  <2>3. j.last.retry => r.last.retry \/ Unsent(y, r.last.due)
    BY <1>10, <2>2
  <2>4. j.last.retry /\ ~Quiet(r, answer, s.at) => r.last.out = "unknown"
    BY <1>7, <1>10 DEF Quiet
  <2>5. Grows(y, r, j)
    <3>1. r.last.due <= j.last.due
      BY <1>7, RecordFields
    <3> QED
      BY <1>7, <1>10, <2>3, <3>1 DEF Grows
  <2> QED
    BY <1>7, <2>1, <2>2, <2>3, <2>4, <2>5 DEF Abreast
<1>13. CASE t.ino = 0 /\ t.pc = "idle" /\ Kept(s, t)
  BY <1>1, <1>3, <1>8, <1>13, IdleCarries
<1>14. CASE /\ Quiet(r, answer, s.at)
            /\ t.pc \in {"idle", "pass"}
            /\ \A z \in Items \ {y} : \/ t.mem[z] = s.mem[z]
                                      \/ t.mem[z] = Absent /\ ~s.mem[z].there
            /\ t.mem[y] = j \/ (t.mem[y] = Absent /\ ~r.there)
  <2>1. NoneNew(s, t)
    BY <1>5, <1>7, <1>11, <1>14, AbsentIsQuiet DEF NoneNew, Pending
  <2>2. Sane(t)
    <3>1. \A z \in Items : InOrder(t.mem[z])
      BY <1>2, <1>9, <1>14, AbsentIsQuiet DEF Sane
    <3>2. t.at <= now
      BY <1>2, <1>8 DEF Sane
    <3> QED
      BY <1>8, <1>14, <3>1, <3>2 DEF Sane
  <2>3. ASSUME Serial, StillOurs(s)
        PROVE  \A z \in Items : Grows(z, s.mem[z], t.mem[z])
    <3> TAKE z \in Items
    <3>1. CASE z = y
      BY <1>5, <1>12, <1>14, <2>3, <3>1 DEF Grows
    <3>2. CASE z # y
      BY <1>14, <3>2 DEF Grows
    <3> QED
      BY <3>1, <3>2
  <2>4. AtWork(t)
    BY <1>14 DEF AtWork
  <2> QED
    BY <1>1, <1>2, <1>3, <1>8, <1>14, <2>1, <2>2, <2>3, <2>4 DEF Carries, Claims
<1>15. ASSUME NEW c \in Records, t.pc = "save", t.cur = y,
              t.mem = [s.mem EXCEPT ![y] = c], InOrder(c),
              c.last.out = "undelivered" => c.last.due = r.last.due,
              Serial /\ StillOurs(s) => Grows(y, r, c),
              Serial /\ StillOurs(s) /\ (c.last.out = "unknown" \/ c.last.retry)
                => Unsent(y, c.last.due)
       PROVE  Carries(e, t)
  <2>1. t.mem[y] = c /\ \A z \in Items \ {y} : t.mem[z] = s.mem[z]
    BY <1>15, LocalFields
  <2>2. NoneNew(s, t)
    BY <1>5, <1>11, <1>15, <2>1 DEF NoneNew, Pending
  <2>3. Sane(t)
    <3>1. \A z \in Items : InOrder(t.mem[z])
      BY <1>2, <1>15, <2>1 DEF Sane
    <3>2. t.at <= now
      BY <1>2, <1>8 DEF Sane
    <3> QED
      BY <1>8, <1>15, <3>1, <3>2 DEF Sane
  <2>4. ASSUME Serial, StillOurs(s)
        PROVE  \A z \in Items : Grows(z, s.mem[z], t.mem[z])
    <3> TAKE z \in Items
    <3>1. CASE z = y
      BY <1>5, <1>15, <2>1, <2>4, <3>1
    <3>2. CASE z # y
      BY <2>1, <3>2 DEF Grows
    <3> QED
      BY <3>1, <3>2
  <2>5. ASSUME Serial, StillOurs(s) PROVE AtWork(t)
    BY <1>15, <2>1, <2>5 DEF AtWork
  <2> QED
    BY <1>1, <1>2, <1>3, <1>8, <1>15, <2>2, <2>3, <2>4, <2>5 DEF Carries, Claims
<1>16. CASE /\ Quiet(r, answer, s.at)
            /\ t.pc = "save" /\ t.cur = y /\ IsDue(j, s.at)
            /\ t.mem = [s.mem EXCEPT ![y] = Claimed(y, j, s.at)]
  <2>1. PICK c \in Records :
          /\ c = Claimed(y, j, s.at)
          /\ InOrder(c) /\ c.last.out = "unknown" /\ ~c.last.retry
          /\ Grows(y, j, c)
    <3>1. s.at <= now
      BY <1>2 DEF Sane
    <3> QED
      BY <1>2, <1>9, <1>16, <3>1, ClaimGrows
  <2>2. j.next # 0
    BY <1>16 DEF IsDue
  <2>3. c.there = j.there /\ j.next <= c.last.due /\ j.next # 0
    BY <1>2, <1>16, <2>1, <2>2, ClaimedFacts
  <2>4. /\ r.last.due < c.last.due /\ c.last.due \in Times
        /\ r.last.due \in Nat /\ c.last.due \in Nat
    <3>1. r.last.due < r.next
      BY <1>7, <1>9, <2>3 DEF InOrder
    <3>2. r.last.due \in Nat /\ r.next \in Nat /\ c.last.due \in Nat /\ c.last.due \in Times
      BY RecordFields
    <3> QED
      BY <1>7, <2>3, <3>1, <3>2
  <2>5. Grows(y, r, c)
    BY <1>7, <1>10, <2>1, <2>3, <2>4 DEF Grows
  <2>6. ASSUME Covers(y, r) PROVE Unsent(y, c.last.due)
    <3>1. ~(c.last.due <= r.last.due)
      BY <2>4
    <3> QED
      BY <1>10, <2>4, <2>6, <3>1 DEF Covers, Unsent
  <2>7. Serial /\ StillOurs(s) => Unsent(y, c.last.due)
    BY <1>12, <2>6
  <2>8. /\ t.pc = "save" /\ t.cur = y /\ t.mem = [s.mem EXCEPT ![y] = c]
        /\ c.last.out = "undelivered" => c.last.due = r.last.due
    BY <1>16, <2>1
  <2>9. /\ Serial /\ StillOurs(s) => Grows(y, r, c)
        /\ Serial /\ StillOurs(s) /\ (c.last.out = "unknown" \/ c.last.retry)
             => Unsent(y, c.last.due)
    BY <2>5, <2>7
  <2>10. InOrder(c)
    BY <2>1
  <2> QED
    BY <1>15, <2>8, <2>9, <2>10
<1>17. CASE /\ ~Quiet(r, answer, s.at)
            /\ t.pc = "save" /\ t.cur = y
            /\ t.mem = [s.mem EXCEPT ![y] = j]
  <2>1. Serial /\ StillOurs(s) => Grows(y, r, j)
    BY <1>12
  <2>2. j.last.out # "unknown"
    BY <1>7
  <2>3. Serial /\ StillOurs(s) /\ j.last.retry => Unsent(y, j.last.due)
    BY <1>12, <1>17
  <2>4. Serial /\ StillOurs(s) /\ (j.last.out = "unknown" \/ j.last.retry)
             => Unsent(y, j.last.due)
    BY <2>2, <2>3
  <2>5. /\ t.pc = "save" /\ t.cur = y /\ t.mem = [s.mem EXCEPT ![y] = j]
        /\ j.last.out = "undelivered" => j.last.due = r.last.due
    BY <1>7, <1>17
  <2> QED
    BY <1>9, <1>15, <2>1, <2>4, <2>5
<1> QED
  BY <1>8, <1>13, <1>14, <1>16, <1>17


-----------------------------------------------------------------------------
(* Each step keeps the invariant.  First the ones that are carried. *)

LEMMA CarriedKeeps ==
  ASSUME TypeOK, TypeOK', SchedInv, NEW e \in Engines, NEW t \in Local,
         Goes(e, t), Carries(e, t), LockStays(e), UNCHANGED <<now, Tables>>,
         overtaken => overtaken'
  PROVE  SchedInv'
BY CarriedStep DEF SchedInv

LEMMA WakeKeeps ==
  ASSUME TypeOK, TypeOK', SchedInv, NEW e \in Engines, Wake(e)
  PROVE  SchedInv'
<1>0. engine[e] \in Local
  BY DEF TypeOK
<1>1. PICK s \in Local : s = [engine[e] EXCEPT !.ticked = TRUE]
  BY <1>0 DEF Local
<1>2. /\ s.mem = engine[e].mem /\ s.ino = engine[e].ino
      /\ s.fresh = engine[e].fresh /\ s.at = engine[e].at
  BY <1>0, <1>1 DEF Local
<1>3. PICK t \in Local :
        /\ Goes(e, t) /\ Kept(s, t) /\ t.pc \in {"link", "read", "pass"}
        /\ t.ino \in {0, s.ino} /\ (t.ino # 0 => t.fresh = s.fresh)
        /\ (t.fresh => t.pc = "read") /\ t.at \in {0, s.at, now}
  <2>1. CASE ~StillOurs(s)
    <3>1. PICK l \in Local : l = Lost(s) /\ l.ino = 0 /\ l.fresh = FALSE
                             /\ l.at = 0 /\ Kept(s, l)
      BY LostFacts
    <3>2. "link" \in Steps
      BY DEF Steps
    <3>3. PICK t : t = [l EXCEPT !.pc = "link"]
      OBVIOUS
    <3>4. /\ t \in Local /\ t.pc = "link" /\ t.ino = 0 /\ t.fresh = FALSE
          /\ t.at = 0 /\ t.mem = l.mem
      BY <3>1, <3>2, <3>3 DEF Local
    <3>5. Goes(e, t)
      BY <1>1, <2>1, <3>1, <3>3 DEF Wake
    <3> QED
      BY <3>1, <3>4, <3>5 DEF Kept
  <2>2. CASE StillOurs(s) /\ s.fresh
    <3>1. "read" \in Steps
      BY DEF Steps
    <3>2. PICK t : t = [s EXCEPT !.pc = "read"]
      OBVIOUS
    <3>3. /\ t \in Local /\ t.pc = "read" /\ t.ino = s.ino /\ t.fresh = s.fresh
          /\ t.at = s.at /\ t.mem = s.mem
      BY <3>1, <3>2 DEF Local
    <3>4. Goes(e, t)
      BY <1>1, <2>2, <3>2 DEF Wake
    <3> QED
      BY <3>3, <3>4 DEF Kept
  <2>3. CASE StillOurs(s) /\ ~s.fresh
    <3>1. PICK t : t = Passes(s)
      OBVIOUS
    <3>2. /\ t \in Local /\ t.pc = "pass" /\ t.ino = s.ino /\ t.fresh = s.fresh
          /\ t.at = now /\ t.mem = s.mem
      BY <3>1, PassesFacts DEF TypeOK
    <3>3. Goes(e, t)
      BY <1>1, <2>3, <3>1 DEF Wake
    <3> QED
      BY <2>3, <3>2, <3>3 DEF Kept
  <2> QED
    BY <2>1, <2>2, <2>3
<1>4. Carries(e, t)
  <2>1. Kept(engine[e], t)
    BY <1>2, <1>3 DEF Kept
  <2> QED
    BY <1>2, <1>3, <2>1, IdleCarries DEF SchedInv
<1>5. LockStays(e)
  BY DEF Wake, LockStays
<1>6. UNCHANGED <<now, Tables>> /\ overtaken' = overtaken
  BY DEF Wake, history, Tables
<1> QED
  BY <1>3, <1>4, <1>5, <1>6, CarriedKeeps

\* Steps of an engine that is not at the reading have memory that is not old.
LEMMA NotFresh ==
  ASSUME TypeOK, SchedInv, NEW e \in Engines, engine[e].pc # "read"
  PROVE  engine[e] \in Local /\ engine[e].fresh = FALSE
BY LocalFields DEF TypeOK, SchedInv, Steady, Sane

LEMMA LookElsewhereKeeps ==
  ASSUME TypeOK, TypeOK', SchedInv, NEW e \in Engines, Look(e), lock.by # e
  PROVE  SchedInv'
<1>1. PICK s \in Local : s = engine[e] /\ s.fresh = FALSE
  BY NotFresh DEF Look, At
<1>2. PICK t \in Local :
        /\ Goes(e, t) /\ Kept(s, t) /\ t.pc \in {"unlink", "idle", "read"}
        /\ t.ino = s.ino /\ t.fresh = FALSE /\ t.at \in {0, s.at}
  <2>1. CASE Dead(lock)
    <3>1. "unlink" \in Steps /\ lock.ino \in 0 .. Inodes
      BY LockFields DEF Steps, TypeOK
    <3>2. PICK t : t = [s EXCEPT !.pc = "unlink", !.file = lock.ino]
      OBVIOUS
    <3>3. /\ t \in Local /\ t.pc = "unlink" /\ t.ino = s.ino
          /\ t.fresh = s.fresh /\ t.at = s.at /\ t.mem = s.mem
      BY <3>1, <3>2 DEF Local
    <3>4. Goes(e, t)
      BY <1>1, <2>1, <3>2 DEF Look
    <3> QED
      BY <1>1, <3>3, <3>4 DEF Kept
  <2>2. CASE ~Dead(lock)
    <3>1. PICK t : t = Waived(s)
      OBVIOUS
    <3>2. Goes(e, t)
      BY <1>1, <2>2, <3>1 DEF Look
    <3> QED
      BY <1>1, <3>1, <3>2, WaivedFacts
  <2> QED
    BY <2>1, <2>2
<1>3. Carries(e, t)
  BY <1>1, <1>2, IdleCarries DEF SchedInv
<1>4. LockStays(e)
  BY DEF Look, LockStays
<1>5. UNCHANGED <<now, Tables>> /\ overtaken' = overtaken
  BY DEF Look, history, Tables
<1> QED
  BY <1>2, <1>3, <1>4, <1>5, CarriedKeeps

LEMMA UnlinkKeeps ==
  ASSUME TypeOK, TypeOK', SchedInv, NEW e \in Engines, Unlink(e)
  PROVE  SchedInv'
<1>1. PICK s \in Local : s = engine[e] /\ s.fresh = FALSE
  BY NotFresh DEF Unlink, At
<1>2. PICK t \in Local :
        /\ Goes(e, t) /\ Kept(s, t) /\ t.pc \in {"link", "idle", "read"}
        /\ t.ino = s.ino /\ t.fresh = FALSE /\ t.at \in {0, s.at}
  <2>1. CASE s.attempt = 0
    <3>1. "link" \in Steps /\ 0 \in 0 .. Inodes /\ 1 \in 0 .. 1
      BY SchedulesAssumption DEF Steps
    <3>2. PICK t : t = [s EXCEPT !.pc = "link", !.attempt = 1, !.file = 0]
      OBVIOUS
    <3>3. /\ t \in Local /\ t.pc = "link" /\ t.ino = s.ino
          /\ t.fresh = s.fresh /\ t.at = s.at /\ t.mem = s.mem
      BY <3>1, <3>2 DEF Local
    <3>4. Goes(e, t)
      BY <1>1, <2>1, <3>2 DEF Unlink
    <3> QED
      BY <1>1, <3>3, <3>4 DEF Kept
  <2>2. CASE s.attempt # 0
    <3>1. PICK t : t = Waived(s)
      OBVIOUS
    <3>2. Goes(e, t)
      BY <1>1, <2>2, <3>1 DEF Unlink
    <3> QED
      BY <1>1, <3>1, <3>2, WaivedFacts
  <2> QED
    BY <2>1, <2>2
<1>3. Carries(e, t)
  BY <1>1, <1>2, IdleCarries DEF SchedInv
<1>4. LockStays(e)
  BY SchedulesAssumption DEF Unlink, LockStays, NoLock
<1>5. UNCHANGED <<now, Tables>> /\ (overtaken => overtaken')
  BY DEF Unlink, Tables
<1> QED
  BY <1>2, <1>3, <1>4, <1>5, CarriedKeeps


LEMMA TurnKeeps ==
  ASSUME TypeOK, TypeOK', SchedInv, NEW e \in Engines, Turn(e)
  PROVE  SchedInv'
<1>1. PICK s \in Local : s = engine[e] /\ s.fresh = FALSE
  BY NotFresh DEF Turn, At
<1>2. LockStays(e)
  <2>1. Stamps(e)
    BY DEF Turn
  <2> QED
    BY <2>1, StampsType DEF LockStays
<1>3. UNCHANGED <<now, Tables>> /\ overtaken' = overtaken
  BY DEF Turn, history, Tables
<1>4. PICK t \in Local : Goes(e, t) /\ Carries(e, t)
  <2>1. PICK b \in Local : b = Stamped(s)
    BY StampedFacts
  <2>2. /\ b.ino = s.ino /\ b.fresh = s.fresh /\ b.at = s.at /\ b.mem = s.mem
        /\ b.todo = s.todo
    BY <2>1, StampedFacts
  <2>3. CASE FoundOut(s)
    <3>1. PICK t : t = Lost(s)
      OBVIOUS
    <3>2. /\ t \in Local /\ t.pc = "idle" /\ t.ino = 0 /\ t.fresh = FALSE
          /\ t.at = 0 /\ Kept(s, t)
      BY <3>1, LostFacts
    <3>3. Goes(e, t)
      BY <1>1, <2>3, <3>1 DEF Turn
    <3>4. Carries(e, t)
      BY <1>1, <3>2, IdleCarries DEF SchedInv
    <3> QED
      BY <3>2, <3>3, <3>4
  <2>4. CASE ~FoundOut(s) /\ s.todo = {}
    <3>1. PICK t : t = Rests(b)
      OBVIOUS
    <3>2. /\ t \in Local /\ t.pc = "idle" /\ t.ino = b.ino /\ t.fresh = b.fresh
          /\ t.at = 0 /\ Kept(b, t)
      BY <3>1, RestsFacts
    <3>3. Goes(e, t)
      BY <1>1, <2>1, <2>4, <3>1 DEF Turn
    <3>4. Kept(s, t)
      BY <2>2, <3>2 DEF Kept
    <3>5. Carries(e, t)
      BY <1>1, <2>2, <3>2, <3>4, IdleCarries DEF SchedInv
    <3> QED
      BY <3>2, <3>3, <3>5
  <2>5. ASSUME ~FoundOut(s), NEW x \in s.todo,
               Goes(e, IF IsRetried(s.mem[x], s.at)
                       THEN [[b EXCEPT !.todo = @ \ {x}, !.cur = x]
                                EXCEPT !.pc = "deliver"]
                       ELSE Onward([b EXCEPT !.todo = @ \ {x}, !.cur = x]))
        PROVE  \E t \in Local : Goes(e, t) /\ Carries(e, t)
    <3>1. x \in Items /\ s.todo \ {x} \in SUBSET Items
      BY LocalFields
    <3>2. PICK u : u = [b EXCEPT !.todo = @ \ {x}, !.cur = x]
      OBVIOUS
    <3>3. /\ u \in Local /\ u.ino = s.ino /\ u.fresh = FALSE /\ u.at = s.at
          /\ u.mem = s.mem /\ u.cur = x
      BY <1>1, <2>2, <3>1, <3>2 DEF Local
    <3>4. CASE ~IsRetried(s.mem[x], s.at)
      <4>1. PICK t : t = Onward(u)
        OBVIOUS
      <4>2. t \in Local
        BY <3>3, <4>1, OnwardFacts
      <4>3. Goes(e, t)
        BY <2>5, <3>2, <3>4, <4>1
      <4>4. Carries(e, t)
        BY <1>1, <3>3, <4>1, OnwardCarries DEF SchedInv
      <4> QED
        BY <4>2, <4>3, <4>4
    <3>5. CASE IsRetried(s.mem[x], s.at)
      <4>1. PICK t : t = [u EXCEPT !.pc = "deliver"]
        OBVIOUS
      <4>2. /\ t \in Local /\ t.ino = s.ino /\ t.fresh = FALSE /\ t.at = s.at
            /\ t.mem = s.mem /\ t.cur = x /\ t.pc = "deliver"
        <5>1. "deliver" \in Steps
          BY DEF Steps
        <5> QED
          BY <3>3, <4>1, <5>1 DEF Local
      <4>3. Goes(e, t)
        BY <2>5, <3>2, <3>5, <4>1
      <4>4. s.mem[x].last.out = "undelivered" /\ s.mem[x].last.retry
        BY <3>5 DEF IsRetried
      <4>5. NoneNew(s, t)
        BY <4>2, <4>4 DEF NoneNew, Pending
      <4>6. Sane(t)
        <5>1. Sane(s)
          BY <1>1 DEF SchedInv, Steady
        <5> QED
          BY <4>2, <4>4, <5>1 DEF Sane
      <4>7. AtWork(t)
        BY <4>2, <4>4 DEF AtWork
      <4>8. Carries(e, t)
        BY <1>1, <4>2, <4>5, <4>6, <4>7 DEF Carries, Claims, Grows
      <4> QED
        BY <4>2, <4>3, <4>8
    <3> QED
      BY <3>4, <3>5
  <2> QED
    BY <1>1, <2>1, <2>3, <2>4, <2>5 DEF Turn
<1> QED
  BY <1>2, <1>3, <1>4, CarriedKeeps

LEMMA SaveKeeps ==
  ASSUME TypeOK, TypeOK', SchedInv, NEW e \in Engines, Save(e)
  PROVE  SchedInv'
<1>1. PICK s \in Local : s = engine[e] /\ s.fresh = FALSE /\ s.pc = "save"
  BY NotFresh DEF Save, At
<1>2. PICK t \in Local : Goes(e, t) /\ Carries(e, t)
  <2>1. CASE ~StillOurs(s)
    <3>1. PICK t : t = Lost(s)
      OBVIOUS
    <3>2. /\ t \in Local /\ t.pc = "idle" /\ t.ino = 0 /\ t.fresh = FALSE
          /\ t.at = 0 /\ Kept(s, t)
      BY <3>1, LostFacts
    <3>3. Goes(e, t)
      BY <1>1, <2>1, <3>1 DEF Save
    <3>4. Carries(e, t)
      BY <1>1, <3>2, IdleCarries DEF SchedInv
    <3> QED
      BY <3>2, <3>3, <3>4
  <2>2. CASE StillOurs(s)
    <3>1. PICK m \in [Items -> Records] : m = Written(s.mem)
      BY LocalFields, WrittenFacts
    <3>2. PICK t : t = [s EXCEPT !.pc = "rename", !.snap = m]
      OBVIOUS
    <3>3. /\ t \in Local /\ t.pc = "rename" /\ t.ino = s.ino /\ t.at = s.at
          /\ t.fresh = s.fresh /\ t.mem = s.mem /\ t.cur = s.cur /\ t.snap = m
      <4>1. "rename" \in Steps
        BY DEF Steps
      <4> QED
        BY <3>1, <3>2, <4>1 DEF Local
    <3>4. Goes(e, t)
      BY <1>1, <2>2, <3>1, <3>2 DEF Save
    <3>5. Sane(t)
      <4>1. Sane(s)
        BY <1>1 DEF SchedInv, Steady
      <4> QED
        BY <1>1, <3>1, <3>3, <4>1 DEF Sane
    <3>6. NoneNew(s, t)
      BY <3>3 DEF NoneNew, Pending
    <3>7. Serial => AtWork(t)
      <4>1. Serial => AtWork(s)
        BY <1>1, <2>2 DEF Serial, HolderHolds, Knows
      <4> QED
        BY <1>1, <3>3, <4>1 DEF AtWork
    <3>8. Carries(e, t)
      BY <1>1, <3>3, <3>5, <3>6, <3>7 DEF Carries, Claims, Grows
    <3> QED
      BY <3>3, <3>4, <3>8
  <2> QED
    BY <2>1, <2>2
<1>3. LockStays(e)
  BY DEF Save, LockStays
<1>4. UNCHANGED <<now, Tables>> /\ overtaken' = overtaken
  BY DEF Save, history, Tables
<1> QED
  BY <1>2, <1>3, <1>4, CarriedKeeps

LEMMA SaveFailsKeeps ==
  ASSUME TypeOK, TypeOK', SchedInv, NEW e \in Engines, SaveFails(e)
  PROVE  SchedInv'
<1>1. PICK s \in Local : s = engine[e] /\ s.fresh = FALSE
  BY NotFresh DEF SaveFails, At
<1>2. PICK t : t = Over(s)
  OBVIOUS
<1>3. /\ t \in Local /\ t.pc \in {"idle", "pass"} /\ t.ino = s.ino
      /\ t.fresh = s.fresh /\ t.at \in {0, s.at} /\ Kept(s, t)
  BY <1>2, OverFacts
<1>4. Goes(e, t)
  BY <1>1, <1>2 DEF SaveFails
<1>5. Carries(e, t)
  BY <1>1, <1>3, IdleCarries DEF SchedInv
<1>6. LockStays(e)
  BY DEF SaveFails, LockStays
<1>7. UNCHANGED <<now, Tables>> /\ overtaken' = overtaken
  BY DEF SaveFails, Tables
<1> QED
  BY <1>3, <1>4, <1>5, <1>6, <1>7, CarriedKeeps

LEMMA AnswerKeeps ==
  ASSUME TypeOK, TypeOK', SchedInv, NEW e \in Engines,
         DeliverNothing(e) \/ Answer(e)
  PROVE  SchedInv'
<1>1. PICK answer : /\ Goes(e, Attempted(engine[e], answer))
                    /\ engine[e].pc \in {"deliver", "typed"}
                    /\ answer = "later" => engine[e].pc = "deliver"
  BY DEF DeliverNothing, Answer, At
<1>2. engine[e] \in Local
  BY DEF TypeOK
<1>3. PICK t : t = Attempted(engine[e], answer)
  OBVIOUS
<1>4. t \in Local /\ Carries(e, t)
  BY <1>1, <1>2, <1>3, AttemptedType, AttemptedCarries DEF SchedInv
<1>5. LockStays(e)
  BY DEF DeliverNothing, Answer, LockStays
<1>6. UNCHANGED <<now, Tables>> /\ overtaken' = overtaken
  BY DEF DeliverNothing, Answer, history, Tables
<1> QED
  BY <1>1, <1>3, <1>4, <1>5, <1>6, CarriedKeeps

LEMMA HoldKeeps ==
  ASSUME TypeOK, TypeOK', SchedInv, NEW e \in Engines, Hold(e) \/ Resume(e)
  PROVE  SchedInv'
<1>1. PICK s \in Local : s = engine[e]
  BY DEF TypeOK
<1>2. PICK up \in {"held", "running"} : Goes(e, [s EXCEPT !.up = up])
  BY <1>1 DEF Hold, Resume
<1>3. PICK t : t = [s EXCEPT !.up = up]
  OBVIOUS
<1>4. /\ t \in Local /\ t.pc = s.pc /\ t.ino = s.ino /\ t.at = s.at
      /\ t.fresh = s.fresh /\ t.mem = s.mem /\ t.cur = s.cur
      /\ t.snap = s.snap /\ t.file = s.file
  BY <1>3 DEF Local
<1>5. NoneNew(s, t)
  BY <1>4 DEF NoneNew, Pending
<1>6. Sane(t)
  <2>1. Sane(s)
    BY <1>1 DEF SchedInv, Steady
  <2> QED
    BY <1>4, <2>1 DEF Sane
<1>7. Serial /\ StillOurs(s) /\ ~t.fresh => AtWork(t)
  <2>1. Serial /\ StillOurs(s) /\ ~t.fresh => AtWork(s)
    BY <1>1, <1>4 DEF Serial, HolderHolds, Knows
  <2> QED
    BY <1>4, <2>1 DEF AtWork
<1>8. Carries(e, t)
  BY <1>1, <1>4, <1>5, <1>6, <1>7 DEF Carries, Claims, Grows
<1>9. LockStays(e)
  BY DEF Hold, Resume, LockStays
<1>10. UNCHANGED <<now, Tables>> /\ overtaken' = overtaken
  BY DEF Hold, Resume, history, Tables
<1> QED
  BY <1>2, <1>3, <1>4, <1>8, <1>9, <1>10, CarriedKeeps

LEMMA OffKeeps ==
  ASSUME TypeOK, TypeOK', SchedInv, NEW e \in Engines,
         Boot(e) \/ Die(e) \/ Exit(e)
  PROVE  SchedInv'
<1>1. PICK t : /\ t \in {Off, [Off EXCEPT !.up = "running", !.pc = "link"]}
               /\ Goes(e, t)
  BY DEF Boot, Die, Exit
<1>2. /\ t \in Local /\ t.pc \in {"idle", "link"} /\ t.ino = 0
      /\ t.fresh = FALSE /\ t.at = 0 /\ t.mem = NoMap
  <2>1. "link" \in Steps
    BY DEF Steps
  <2>2. /\ Off.pc = "idle" /\ Off.ino = 0 /\ Off.fresh = FALSE /\ Off.at = 0
        /\ Off.mem = NoMap
    BY DEF Off
  <2>3. Off \in Local
    BY OffIsLocal
  <2> QED
    BY <1>1, <2>1, <2>2, <2>3 DEF Local
<1>3. \A y \in Items : t.mem[y] = Absent
  BY <1>2 DEF NoMap
<1>4. Carries(e, t)
  BY <1>2, <1>3, IdleCarries DEF SchedInv
<1>5. LockStays(e)
  <2>1. CASE Boot(e)
    BY <2>1 DEF Boot, LockStays
  <2>2. CASE Exit(e)
    BY <2>2, SchedulesAssumption DEF Exit, LockStays, NoLock
  <2>3. CASE Die(e)
    <3>1. PICK by \in {"gone", "other"} :
            lock' = IF lock.by = e THEN [lock EXCEPT !.by = by] ELSE lock
      BY <2>3 DEF Die
    <3>2. CASE lock.by # e
      BY <3>1, <3>2 DEF LockStays
    <3>3. CASE lock.by = e
      <4>1. lock \in [ino : 1 .. Inodes, by : Engines \cup {"gone", "other"},
                      age : 0 .. LOCK_STALE + 1]
        BY <3>3, LockFields DEF TypeOK, Locks
      <4>2. lock' = [lock EXCEPT !.by = by]
        BY <3>1, <3>3
      <4>3. lock'.ino = lock.ino /\ lock'.by = by
        BY <4>1, <4>2
      <4>4. by \notin Engines
        BY SchedulesAssumption
      <4> QED
        BY <4>3, <4>4 DEF LockStays
    <3> QED
      BY <3>2, <3>3
  <2> QED
    BY <2>1, <2>2, <2>3
<1>6. UNCHANGED <<now, Tables>> /\ overtaken' = overtaken
  BY DEF Boot, Die, Exit, history, Tables
<1> QED
  BY <1>1, <1>2, <1>4, <1>5, <1>6, CarriedKeeps


\* A change that is refused: the lock is somebody else's.
LEMMA RefusedKeeps ==
  ASSUME TypeOK, TypeOK', SchedInv, NEW e \in Engines, NEW x \in Items,
         NEW op \in {"remove", "pause", "resume"}, Edit(e, x, op),
         ~StillOurs(engine[e])
  PROVE  SchedInv'
<1>1. PICK s \in Local : s = engine[e]
  BY DEF TypeOK
<1>2. PICK n \in Records : n = Edited(x, s.mem[x], op)
  BY LocalFields, EditedFacts DEF TypeOK
<1>3. /\ n.last = s.mem[x].last
      /\ n.next # 0 => n.next = s.mem[x].next \/ now < n.next
  <2>1. s.mem[x] \in Records
    BY LocalFields
  <2>2. /\ n.last = s.mem[x].last
        /\ op = "remove" => n.next = s.mem[x].next
        /\ op # "remove" /\ n.next # 0 => now < n.next
    BY <1>2, <2>1, EditedFacts DEF TypeOK
  <2> QED
    BY <2>2
<1>4. PICK m \in [Items -> Records] :
        /\ m = IF op = "remove" THEN s.mem ELSE [s.mem EXCEPT ![x] = n]
        /\ \A y \in Items : m[y] = s.mem[y] \/ (y = x /\ m[y] = n)
  <2>1. s.mem \in [Items -> Records]
    BY LocalFields
  <2>2. CASE op = "remove"
    BY <2>1, <2>2
  <2>3. CASE op # "remove"
    <3>1. PICK m : m = [s.mem EXCEPT ![x] = n]
      OBVIOUS
    <3>2. /\ m \in [Items -> Records]
          /\ \A y \in Items : m[y] = s.mem[y] \/ (y = x /\ m[y] = n)
      BY <2>1, <3>1
    <3> QED
      BY <2>3, <3>1, <3>2
  <2> QED
    BY <2>2, <2>3
<1>5. PICK t : t = [s EXCEPT !.mem = m, !.ino = 0, !.fresh = FALSE]
  OBVIOUS
<1>6. /\ t \in Local /\ t.ino = 0 /\ t.fresh = FALSE /\ t.mem = m
      /\ t.pc = s.pc /\ t.at = s.at /\ t.cur = s.cur /\ t.file = s.file
  <2>1. 0 \in 0 .. Inodes
    BY SchedulesAssumption
  <2> QED
    BY <1>4, <1>5, <2>1 DEF Local
<1>7. Goes(e, t)
  <2>1. Goes(e, [(IF op = "remove" THEN s
                  ELSE [s EXCEPT !.mem[x] = Edited(x, @, op)])
                    EXCEPT !.ino = 0, !.fresh = FALSE])
    BY <1>1 DEF Edit
  <2>2. t = [(IF op = "remove" THEN s ELSE [s EXCEPT !.mem[x] = Edited(x, @, op)])
                EXCEPT !.ino = 0, !.fresh = FALSE]
    BY <1>2, <1>4, <1>5 DEF Local
  <2> QED
    BY <2>1, <2>2
<1>8. \A y \in Items : m[y].last = s.mem[y].last
  BY <1>3, <1>4
<1>9. NoneNew(s, t)
  BY <1>6, <1>8 DEF NoneNew, Pending
<1>10. Sane(t)
  <2>1. Sane(s)
    BY <1>1 DEF SchedInv, Steady
  <2>2. \A y \in Items : InOrder(m[y])
    <3> TAKE y \in Items
    <3>1. InOrder(s.mem[y])
      BY <2>1 DEF Sane
    <3>2. CASE m[y] = s.mem[y]
      BY <3>1, <3>2
    <3>3. CASE y = x /\ m[y] = n
      <4>1. /\ s.mem[y].last.due \in Nat /\ s.mem[y].next \in Nat
            /\ n.next \in Nat /\ now \in Nat
        BY LocalFields, RecordFields, TimesAreNat DEF TypeOK
      <4> QED
        BY <1>3, <3>1, <3>3, <4>1 DEF InOrder
    <3> QED
      BY <1>4, <3>2, <3>3
  <2>3. s.pc # "rename"
    BY <1>1 DEF Edit
  <2> QED
    BY <1>6, <1>8, <2>1, <2>2, <2>3, LocalFields DEF Sane
<1>11. Carries(e, t)
  BY <1>1, <1>6, <1>9, <1>10, SchedulesAssumption DEF Carries, Claims
<1>12. LockStays(e)
  BY DEF Edit, LockStays
<1>13. UNCHANGED <<now, Tables>> /\ overtaken' = overtaken
  BY DEF Edit, Tables
<1> QED
  BY <1>6, <1>7, <1>11, <1>12, <1>13, CarriedKeeps

LEMMA OpenKeeps ==
  ASSUME TypeOK, TypeOK', SchedInv, NEW e \in Engines, Open(e)
  PROVE  SchedInv'
<1>1. PICK s \in Local : s = engine[e] /\ s.fresh = FALSE /\ s.pc = "open"
  BY NotFresh DEF Open, At
<1>2. LockStays(e)
  BY DEF Open, LockStays
<1>3. UNCHANGED <<now, Tables>> /\ (overtaken => overtaken')
  BY DEF Open, Tables
<1>4. PICK t \in Local : Goes(e, t) /\ Carries(e, t)
  <2>1. CASE lock = NoLock
    <3>1. "look" \in Steps /\ 0 \in 0 .. Inodes
      BY SchedulesAssumption DEF Steps
    <3>2. PICK t : t = [s EXCEPT !.pc = "look", !.file = 0]
      OBVIOUS
    <3>3. /\ t \in Local /\ t.pc = "look" /\ t.ino = s.ino
          /\ t.fresh = s.fresh /\ t.at = s.at /\ t.mem = s.mem
      BY <3>1, <3>2 DEF Local
    <3>4. Goes(e, t)
      BY <1>1, <2>1, <3>2 DEF Open
    <3>5. Carries(e, t)
      BY <1>1, <3>3, IdleCarries DEF SchedInv, Kept
    <3> QED
      BY <3>3, <3>4, <3>5
  <2>2. CASE lock # NoLock
    <3>1. lock.ino \in 0 .. Inodes
      BY LockFields DEF TypeOK
    <3>2. PICK t : t = Owns(s, lock.ino)
      OBVIOUS
    <3>3. /\ t \in Local /\ t.pc = "read" /\ t.ino = lock.ino /\ t.fresh = TRUE
          /\ t.mem = s.mem /\ t.at = s.at
      BY <3>1, <3>2, OwnsFacts
    <3>4. Goes(e, t)
      BY <1>1, <2>2, <3>2 DEF Open
    <3>5. NoneNew(s, t)
      BY <3>3 DEF NoneNew, Pending
    <3>6. Sane(t)
      <4>1. Sane(s)
        BY <1>1 DEF SchedInv, Steady
      <4> QED
        BY <3>3, <4>1 DEF Sane
    <3>7. ~overtaken' => lock.ino = s.file
      BY <1>1 DEF Open
    <3>8. Carries(e, t)
      BY <1>1, <3>3, <3>5, <3>6, <3>7 DEF Carries, Claims
    <3> QED
      BY <3>3, <3>4, <3>8
  <2> QED
    BY <2>1, <2>2
<1> QED
  BY <1>2, <1>3, <1>4, CarriedKeeps

LEMMA LookKeeps ==
  ASSUME TypeOK, TypeOK', SchedInv, NEW e \in Engines, Look(e)
  PROVE  SchedInv'
<1>1. CASE lock.by # e
  BY <1>1, LookElsewhereKeeps
<1>2. CASE lock.by = e
  <2>1. PICK s \in Local : s = engine[e] /\ s.fresh = FALSE /\ s.pc = "look"
    BY NotFresh DEF Look, At
  <2>2. lock.ino \in 0 .. Inodes
    BY LockFields DEF TypeOK
  <2>3. PICK t : t = Owns(s, lock.ino)
    OBVIOUS
  <2>4. /\ t \in Local /\ t.pc = "read" /\ t.ino = lock.ino /\ t.fresh = TRUE
        /\ t.mem = s.mem /\ t.at = s.at
    BY <2>2, <2>3, OwnsFacts
  <2>5. Goes(e, t)
    BY <1>2, <2>1, <2>3 DEF Look
  <2>6. NoneNew(s, t)
    BY <2>4 DEF NoneNew, Pending
  <2>7. Sane(t)
    <3>1. Sane(s)
      BY <2>1 DEF SchedInv, Steady
    <3> QED
      BY <2>4, <3>1 DEF Sane
  <2>8. Carries(e, t)
    BY <1>2, <2>1, <2>4, <2>6, <2>7 DEF Carries, Claims
  <2>9. LockStays(e)
    BY DEF Look, LockStays
  <2>10. UNCHANGED <<now, Tables>> /\ overtaken' = overtaken
    BY DEF Look, history, Tables
  <2> QED
    BY <2>4, <2>5, <2>8, <2>9, <2>10, CarriedKeeps
<1> QED
  BY <1>1, <1>2

LEMMA LinkKeeps ==
  ASSUME TypeOK, TypeOK', SchedInv, NEW e \in Engines, Link(e)
  PROVE  SchedInv'
<1>1. PICK s \in Local : s = engine[e] /\ s.fresh = FALSE
                         /\ s.pc \in {"link", "idle"}
  BY NotFresh DEF Link, At
<1>2. PICK ticked \in BOOLEAN : ticked = (s.pc = "idle" \/ s.ticked)
  BY LocalFields
<1>3. UNCHANGED <<now, Tables>> /\ overtaken' = overtaken
  BY DEF Link, history, Tables
<1>4. CASE lock # NoLock
  <2>1. PICK t : t = [s EXCEPT !.pc = "look", !.ticked = ticked]
    OBVIOUS
  <2>2. /\ t \in Local /\ t.pc = "look" /\ t.ino = s.ino
        /\ t.fresh = s.fresh /\ t.at = s.at /\ t.mem = s.mem
    <3>1. "look" \in Steps
      BY DEF Steps
    <3> QED
      BY <2>1, <3>1 DEF Local
  <2>3. Goes(e, t) /\ UNCHANGED lock
    BY <1>1, <1>2, <1>4, <2>1 DEF Link
  <2>4. Carries(e, t)
    BY <1>1, <2>2, IdleCarries DEF SchedInv, Kept
  <2>5. LockStays(e)
    BY <2>3 DEF LockStays
  <2> QED
    BY <1>3, <2>2, <2>3, <2>4, <2>5, CarriedKeeps
<1>5. CASE lock = NoLock
  <2>1. PICK i : i = Least((1 .. Inodes) \ InUse)
    OBVIOUS
  <2>2. i \in 1 .. Inodes /\ i \notin InUse
    <3>1. (1 .. Inodes) \ InUse # {}
      BY <1>5 DEF Link
    <3>2. (1 .. Inodes) \ InUse \in SUBSET Nat
      OBVIOUS
    <3> QED
      BY <2>1, <3>1, <3>2, LeastIsThere
  <2>3. \A f \in Engines : engine[f].ino # i /\ engine[f].file # i
    BY <2>2 DEF InUse
  <2>4. PICK t : t = [s EXCEPT !.pc = "open", !.file = i, !.ticked = ticked]
    OBVIOUS
  <2>5. /\ t \in Local /\ t.pc = "open" /\ t.ino = s.ino /\ t.file = i
        /\ t.fresh = s.fresh /\ t.at = s.at /\ t.mem = s.mem
    <3>1. "open" \in Steps /\ i \in 0 .. Inodes
      BY <2>2 DEF Steps
    <3> QED
      BY <2>4, <3>1 DEF Local
  <2>6. Goes(e, t) /\ lock' = [ino |-> i, by |-> e, age |-> 0]
    BY <1>1, <1>2, <1>5, <2>1, <2>4 DEF Link
  <2>7. engine'[e] = t /\ \A f \in Engines \ {e} : engine'[f] = engine[f]
    BY <2>6 DEF Goes, TypeOK
  <2>8. NoneNew(s, t)
    BY <2>5 DEF NoneNew, Pending
  <2>9. Steady'
    <3>1. Sane(t)
      <4>1. Sane(s)
        BY <1>1 DEF SchedInv, Steady
      <4> QED
        BY <1>1, <2>5, <4>1 DEF Sane
    <3>2. \A f \in Engines : Sane(engine[f])'
      <4> TAKE f \in Engines
      <4>1. PICK u : u = engine'[f]
        OBVIOUS
      <4>2. Sane(u)
        BY <2>7, <3>1, <4>1 DEF SchedInv, Steady
      <4>3. Sane(u)'
        BY <1>3, <4>2 DEF Sane, InOrder
      <4> QED
        BY <4>1, <4>3 DEF Sane, InOrder
    <3> QED
      BY <1>3, <3>2 DEF SchedInv, Steady, InOrder, Tables
  <2>10. ASSUME Serial PROVE Serial'
    <3>1. Apart'
      <4>1. \A f \in Engines : \A k \in 1 .. Inodes :
              Claims(engine'[f], k) => \/ k # i /\ Claims(engine[f], k)
                                       \/ f = e /\ k = i
        BY <1>1, <2>3, <2>5, <2>7 DEF Claims
      <4>2. lock'.by = e /\ lock'.ino = i
        BY <2>6
      <4>3. ASSUME NEW f \in Engines, NEW g \in Engines, f # g,
                   NEW k \in 1 .. Inodes
            PROVE  ~(Claims(engine'[f], k) /\ Claims(engine'[g], k))
        BY <2>10, <4>1, <4>3 DEF Serial, Apart
      <4>4. ASSUME NEW f \in Engines, NEW g \in Engines, f # g, lock'.by = f
            PROVE  ~Claims(engine'[g], lock'.ino)
        BY <2>2, <4>1, <4>2, <4>4
      <4> QED
        BY <4>3, <4>4 DEF Apart
    <3>2. FileHolds'
      <4>1. \A f \in Engines : NoneNew(engine[f], engine'[f])
        BY <1>1, <2>7, <2>8 DEF NoneNew
      <4> QED
        BY <1>3, <2>10, <4>1, FileStays DEF Serial
    <3>3. HolderHolds'
      <4>1. \A f \in Engines : engine'[f].ino # i
        BY <1>1, <2>3, <2>5, <2>7
      <4> QED
        BY <2>6, <4>1 DEF HolderHolds, Knows, StillOurs
    <3> QED
      BY <3>1, <3>2, <3>3 DEF Serial
  <2> QED
    BY <1>3, <2>9, <2>10 DEF SchedInv
<1> QED
  BY <1>4, <1>5



-----------------------------------------------------------------------------
(* The steps that write the file, read it, or send. *)

\* Nothing of it changes but what the invariant does not look at.
LEMMA AlikeKeeps ==
  ASSUME TypeOK, TypeOK', SchedInv,
         \A f \in Engines :
            /\ engine'[f].mem = engine[f].mem /\ engine'[f].pc = engine[f].pc
            /\ engine'[f].ino = engine[f].ino /\ engine'[f].at = engine[f].at
            /\ engine'[f].fresh = engine[f].fresh
            /\ engine'[f].file = engine[f].file
            /\ engine'[f].cur = engine[f].cur /\ engine'[f].snap = engine[f].snap,
         lock'.ino = lock.ino, lock'.by = lock.by, now <= now',
         UNCHANGED <<Tables, overtaken>>
  PROVE  SchedInv'
<1>1. now \in Nat /\ now' \in Nat
  BY TimesAreNat DEF TypeOK
<1>2. ASSUME NEW r \in Records, InOrder(r) PROVE InOrder(r)'
  BY <1>1, <1>2, RecordFields DEF InOrder
<1>3. Steady'
  <2>1. \A y \in Items : InOrder(file[y])'
    <3> TAKE y \in Items
    <3>1. PICK r \in Records : r = file[y]
      BY DEF TypeOK
    <3>2. InOrder(r)'
      BY <1>2, <3>1 DEF SchedInv, Steady
    <3> QED
      BY <3>1, <3>2 DEF InOrder, Tables
  <2>2. \A f \in Engines : Sane(engine[f])'
    <3> TAKE f \in Engines
    <3>1. PICK s \in Local : s = engine[f]
      BY DEF TypeOK
    <3>2. Sane(s)
      BY <3>1 DEF SchedInv, Steady
    <3>3. \A y \in Items : InOrder(engine[f].mem[y])'
      <4> TAKE y \in Items
      <4>1. PICK r \in Records : r = s.mem[y]
        BY LocalFields
      <4>2. InOrder(r)'
        BY <1>2, <3>2, <4>1 DEF Sane
      <4> QED
        BY <3>1, <4>1, <4>2 DEF InOrder
    <3>4. s.at <= now'
      <4>1. s.at \in Nat
        BY LocalFields, TimesAreNat
      <4>2. s.at <= now
        BY <3>2 DEF Sane
      <4> QED
        BY <1>1, <4>1, <4>2
    <3> QED
      BY <3>1, <3>2, <3>3, <3>4 DEF Sane
  <2>3. \A y \in Items : \A t \in Times : sent'[y][t] # 0 => t <= now'
    BY <1>1, TimesAreNat DEF SchedInv, Steady, Tables
  <2> QED
    BY <2>1, <2>2, <2>3 DEF SchedInv, Steady, Tables
<1>4. ASSUME Serial PROVE Serial'
  <2>1. Apart'
    BY <1>4 DEF Serial, Apart, Claims
  <2>2. \A f \in Engines : NoneNew(engine[f], engine'[f])
    BY DEF NoneNew, Pending
  <2>3. FileHolds'
    BY <1>4, <2>2, FileStays DEF Serial
  <2>4. ASSUME NEW f \in Engines, Knows(engine[f])'
        PROVE  /\ \A y \in Items : Abreast(y, engine[f].mem[y])'
               /\ AtWork(engine[f])'
    <3>1. PICK s \in Local : s = engine[f]
      BY DEF TypeOK
    <3>2. Knows(s)
      BY <2>4, <3>1 DEF Knows, StillOurs
    <3>3. (\A y \in Items : Abreast(y, s.mem[y])) /\ AtWork(s)
      BY <1>4, <3>1, <3>2 DEF Serial, HolderHolds
    <3>4. AtWork(engine[f])'
      BY <3>1, <3>3 DEF AtWork, Unsent, Tables
    <3>5. \A y \in Items : Abreast(y, engine[f].mem[y])'
      <4> TAKE y \in Items
      <4>1. PICK r : r = s.mem[y]
        OBVIOUS
      <4>2. Abreast(y, r)
        BY <3>3, <4>1
      <4>3. Abreast(y, r)'
        BY <2>2, <4>2, StaysAbreast
      <4> QED
        BY <3>1, <4>1, <4>3
    <3> QED
      BY <3>4, <3>5
  <2> QED
    BY <2>1, <2>3, <2>4 DEF Serial, HolderHolds
<1> QED
  BY <1>3, <1>4 DEF SchedInv

LEMMA TickKeeps ==
  ASSUME TypeOK, TypeOK', SchedInv, Tick
  PROVE  SchedInv'
<1>1. \A f \in Engines :
            /\ engine'[f].mem = engine[f].mem /\ engine'[f].pc = engine[f].pc
            /\ engine'[f].ino = engine[f].ino /\ engine'[f].at = engine[f].at
            /\ engine'[f].fresh = engine[f].fresh
            /\ engine'[f].file = engine[f].file
            /\ engine'[f].cur = engine[f].cur /\ engine'[f].snap = engine[f].snap
  <2> TAKE f \in Engines
  <2>1. PICK s \in Local : s = engine[f]
    BY DEF TypeOK
  <2>2. PICK b : engine'[f] = [s EXCEPT !.ticked = FALSE, !.beat = b]
    BY <2>1 DEF Tick
  <2> QED
    BY <2>1, <2>2 DEF Local
<1>2. lock'.ino = lock.ino /\ lock'.by = lock.by
  <2>1. CASE lock = NoLock
    BY <2>1 DEF Tick
  <2>2. CASE lock # NoLock
    <3>1. lock \in [ino : 1 .. Inodes, by : Engines \cup {"gone", "other"},
                    age : 0 .. LOCK_STALE + 1]
      BY <2>2 DEF TypeOK, Locks
    <3>2. PICK a : lock' = [lock EXCEPT !.age = a]
      BY <2>2 DEF Tick
    <3> QED
      BY <3>1, <3>2
  <2> QED
    BY <2>1, <2>2
<1>3. now <= now'
  <2>1. now \in Nat /\ now <= Horizon /\ Horizon \in Nat
    BY SchedulesAssumption DEF TypeOK, Times
  <2>2. now' = IF now + 1 < Horizon THEN now + 1 ELSE Horizon
    BY DEF Tick, Lesser
  <2> QED
    BY <2>1, <2>2
<1>4. UNCHANGED <<Tables, overtaken>>
  BY DEF Tick, Tables
<1> QED
  BY <1>1, <1>2, <1>3, <1>4, AlikeKeeps

LEMMA PaneKeeps ==
  ASSUME TypeOK, TypeOK', SchedInv,
         UNCHANGED vars \/ \E y \in Items : PaneCloses(y) \/ PaneOpens(y)
  PROVE  SchedInv'
<1>1. UNCHANGED <<engine, lock, now, Tables, overtaken>>
  BY DEF vars, history, PaneCloses, PaneOpens, Tables
<1>2. now <= now'
  BY <1>1, TimesAreNat DEF TypeOK
<1> QED
  BY <1>1, <1>2, AlikeKeeps

LEMMA ReadKeeps ==
  ASSUME TypeOK, TypeOK', SchedInv, NEW e \in Engines, Read(e)
  PROVE  SchedInv'
<1>1. PICK s \in Local : s = engine[e]
  BY DEF TypeOK
<1>2. PICK u : u = [s EXCEPT !.mem = file, !.fresh = FALSE]
  OBVIOUS
<1>3. /\ u \in Local /\ u.mem = file /\ u.fresh = FALSE /\ u.ino = s.ino
  BY <1>2 DEF Local, TypeOK
<1>4. PICK t \in Local :
        /\ Goes(e, t) /\ t.pc \in {"pass", "idle"} /\ t.ino = s.ino
        /\ t.fresh = FALSE /\ t.at \in {0, now} /\ Kept(u, t)
  <2>1. CASE s.ticked
    <3>1. PICK t : t = Passes(u)
      OBVIOUS
    <3>2. Goes(e, t)
      BY <1>1, <1>2, <2>1, <3>1 DEF Read, Local
    <3>3. /\ t \in Local /\ t.pc = "pass" /\ t.ino = u.ino
          /\ t.fresh = u.fresh /\ t.at = now /\ t.mem = u.mem
      BY <1>3, <3>1, PassesFacts DEF TypeOK
    <3> QED
      BY <1>3, <3>2, <3>3 DEF Kept
  <2>2. CASE ~s.ticked
    <3>1. PICK t : t = Rests(u)
      OBVIOUS
    <3>2. Goes(e, t)
      BY <1>1, <1>2, <2>2, <3>1 DEF Read, Local
    <3>3. /\ t \in Local /\ t.pc = "idle" /\ t.ino = u.ino
          /\ t.fresh = u.fresh /\ t.at = 0 /\ Kept(u, t)
      BY <1>3, <3>1, RestsFacts
    <3> QED
      BY <1>3, <3>2, <3>3
  <2> QED
    BY <2>1, <2>2
<1>5. \A y \in Items : t.mem[y] = file[y]
  BY <1>3, <1>4 DEF Kept, SchedInv, Steady
<1>6. engine'[e] = t /\ \A f \in Engines \ {e} : engine'[f] = engine[f]
  BY <1>4 DEF Goes, TypeOK
<1>7. UNCHANGED <<now, lock, Tables, overtaken>>
  BY DEF Read, history, Tables
<1>8. \A y \in Items : Pending(t, y) =>
         /\ t.mem[y].last.due = file[y].last.due
         /\ file[y] # Absent
  BY <1>4, <1>5, AbsentIsQuiet DEF Pending
<1>9. Steady'
  <2>1. Sane(t)
    <3>1. t.at <= now
      BY <1>4, TimesAreNat DEF TypeOK
    <3> QED
      BY <1>4, <1>5, <3>1 DEF Sane, SchedInv, Steady
  <2>2. \A f \in Engines : Sane(engine[f])'
    <3> TAKE f \in Engines
    <3>1. PICK v : v = engine'[f]
      OBVIOUS
    <3>2. Sane(v)
      BY <1>6, <2>1, <3>1 DEF SchedInv, Steady
    <3>3. Sane(v)'
      BY <1>7, <3>2 DEF Sane, InOrder
    <3> QED
      BY <3>1, <3>3 DEF Sane, InOrder
  <2> QED
    BY <1>7, <2>2 DEF SchedInv, Steady, InOrder, Tables
<1>10. ASSUME Serial PROVE Serial'
  <2>1. Apart'
    <3>1. \A f \in Engines : \A i \in 1 .. Inodes :
            Claims(engine'[f], i) => Claims(engine[f], i)
      BY <1>1, <1>4, <1>6 DEF Claims
    <3>2. ASSUME NEW f \in Engines, lock.by = f PROVE lock.ino \in 1 .. Inodes
      BY <3>2, LockFields DEF TypeOK
    <3> QED
      BY <1>7, <1>10, <3>1, <3>2 DEF Serial, Apart
  <2>2. ASSUME NEW y \in Items, NEW r, Covers(y, r),
               file[y] = Absent \/ file[y].last.due <= r.last.due
        PROVE  Covers(y, r)'
    <3> SUFFICES ASSUME r # Absent, NEW f \in Engines, Pending(engine[f], y)'
                 PROVE  engine'[f].mem[y].last.due <= r.last.due
      BY <1>7, <2>2 DEF Covers, Tables
    <3>1. CASE f = e
      BY <1>6, <1>8, <2>2, <3>1 DEF Pending
    <3>2. CASE f # e
      BY <1>6, <2>2, <3>2 DEF Covers, Pending
    <3> QED
      BY <3>1, <3>2
  <2>3. ASSUME NEW y \in Items, NEW r, Owed(y, r) PROVE Owed(y, r)'
    BY <1>7, <2>3 DEF Owed, Unsent, Tables
  <2>4. \A y \in Items : Covers(y, file[y])' /\ Owed(y, file[y])'
    <3> TAKE y \in Items
    <3>1. PICK r \in Records : r = file[y] /\ file'[y] = r
      BY <1>7 DEF TypeOK, Tables
    <3>2. Covers(y, r) /\ Owed(y, r) /\ r.last.due <= r.last.due
      BY <1>10, <3>1, RecordFields DEF Serial, FileHolds
    <3>3. Covers(y, r)' /\ Owed(y, r)'
      BY <2>2, <2>3, <3>1, <3>2
    <3> QED
      BY <3>1, <3>3
  <2>5. FileHolds'
    BY <1>7, <1>10, <2>4 DEF Serial, FileHolds, Tables
  <2>6. ASSUME NEW f \in Engines, Knows(engine[f])'
        PROVE  /\ \A y \in Items : Abreast(y, engine[f].mem[y])'
               /\ AtWork(engine[f])'
    <3>1. CASE f = e
      <4>1. AtWork(engine[f])'
        BY <1>4, <1>6, <3>1 DEF AtWork
      <4>2. \A y \in Items : Abreast(y, engine[f].mem[y])'
        <5> TAKE y \in Items
        <5>1. PICK r \in Records : r = file[y] /\ file'[y] = r
          BY <1>7 DEF TypeOK, Tables
        <5>2. engine'[f].mem[y] = r
          BY <1>5, <1>6, <3>1, <5>1
        <5>3. r.last.due <= r.last.due
          BY RecordFields
        <5>4. Covers(y, r)' /\ Owed(y, r)'
          BY <2>4, <5>1
        <5> QED
          BY <5>1, <5>2, <5>3, <5>4 DEF Abreast
      <4> QED
        BY <4>1, <4>2
    <3>2. CASE f # e
      <4>1. PICK v : v = engine[f] /\ engine'[f] = v
        BY <1>6, <3>2
      <4>2. Knows(v)
        BY <1>7, <2>6, <4>1 DEF Knows, StillOurs
      <4>3. (\A y \in Items : Abreast(y, v.mem[y])) /\ AtWork(v)
        BY <1>10, <4>1, <4>2 DEF Serial, HolderHolds
      <4>4. AtWork(v)'
        BY <1>7, <4>3 DEF AtWork, Unsent, Tables
      <4>5. \A y \in Items : Abreast(y, v.mem[y])'
        <5> TAKE y \in Items
        <5>1. PICK r : r = v.mem[y]
          OBVIOUS
        <5>2. Abreast(y, r)
          BY <4>3, <5>1
        <5>3. Covers(y, r)' /\ Owed(y, r)'
          BY <2>2, <2>3, <5>2 DEF Abreast
        <5>4. Abreast(y, r)'
          BY <1>7, <5>2, <5>3 DEF Abreast, Tables
        <5> QED
          BY <5>1, <5>4
      <4> QED
        BY <4>1, <4>4, <4>5
    <3> QED
      BY <3>1, <3>2
  <2> QED
    BY <2>1, <2>5, <2>6 DEF Serial, HolderHolds
<1> QED
  BY <1>7, <1>9, <1>10 DEF SchedInv


\* What is out of the holder's hands is nobody else's.
LEMMA OneHolder ==
  ASSUME TypeOK, Serial, NEW e \in Engines, NEW f \in Engines,
         StillOurs(engine[e]), StillOurs(engine[f])
  PROVE  e = f
<1>1. lock.ino \in 1 .. Inodes
  BY LockFields DEF TypeOK, StillOurs
<1> QED
  BY <1>1 DEF Serial, Apart, Claims, StillOurs

LEMMA RenameKeeps ==
  ASSUME TypeOK, TypeOK', SchedInv, NEW e \in Engines, Rename(e)
  PROVE  SchedInv'
<1>1. PICK s \in Local : s = engine[e] /\ s.fresh = FALSE /\ s.pc = "rename"
  BY NotFresh DEF Rename, At
<1>2. Sane(s) /\ s.snap = Written(s.mem)
  BY <1>1 DEF SchedInv, Steady, Sane
<1>3. \A y \in Items : /\ s.mem[y] \in Records
                       /\ s.mem[y].there => file'[y] = s.mem[y]
                       /\ ~s.mem[y].there => file'[y] = Absent
                       /\ file'[y].there = s.mem[y].there
                       /\ file'[y] = s.mem[y] \/ file'[y] = Absent
  <2>1. file' = Written(s.mem) /\ s.mem \in [Items -> Records]
    BY <1>1, <1>2, LocalFields DEF Rename
  <2> QED
    BY <2>1, RecordFields, WrittenFacts
<1>4. PICK y0 \in Items, d0 \in Times : y0 = s.cur /\ d0 = s.mem[y0].last.due
  BY LocalFields, RecordFields
<1>5. /\ unwritten' = IF s.mem[y0].last.out = "unknown" THEN unwritten
                      ELSE unwritten \ {<<y0, d0>>}
      /\ UNCHANGED <<now, lock, removed, sent, loose>>
      /\ ~overtaken' => ~overtaken /\ StillOurs(s)
  BY <1>1, <1>4 DEF Rename, Occurrence
<1>6. PICK t \in Local :
        /\ Goes(e, t) /\ t.ino = s.ino /\ t.fresh = FALSE /\ Sane(t)
        /\ t.pc # "open"
        /\ \A y \in Items : Pending(t, y) =>
              t.mem[y].last.due = s.mem[y].last.due
        /\ Serial /\ StillOurs(s) =>
              \A y \in Items : Grows(y, s.mem[y], t.mem[y])
        /\ \/ t.pc = "deliver" /\ t.cur = y0 /\ t.mem = s.mem
              /\ s.mem[y0].last.out = "unknown"
           \/ /\ t.pc \in {"idle", "pass", "save"}
              /\ Serial /\ StillOurs(s) => AtWork(t)
  <2>1. CASE s.mem[y0].last.out = "unknown"
    <3>1. PICK t : t = [s EXCEPT !.pc = "deliver", !.snap = NoMap]
      OBVIOUS
    <3>2. "deliver" \in Steps
      BY DEF Steps
    <3>3. /\ t \in Local /\ t.pc = "deliver" /\ t.ino = s.ino /\ t.at = s.at
          /\ t.fresh = s.fresh /\ t.mem = s.mem /\ t.cur = s.cur
      BY <3>1, <3>2, OffIsLocal DEF Local
    <3>4. Goes(e, t)
      BY <1>1, <1>4, <2>1, <3>1 DEF Rename
    <3>5. Sane(t)
      BY <1>1, <1>2, <1>4, <2>1, <3>3 DEF Sane
    <3>6. \A y \in Items : Grows(y, s.mem[y], t.mem[y])
      BY <3>3 DEF Grows
    <3> QED
      BY <1>1, <1>4, <2>1, <3>3, <3>4, <3>5, <3>6
  <2>2. CASE s.mem[y0].last.out # "unknown"
    <3>1. PICK t : t = Onward(s)
      OBVIOUS
    <3>2. Carries(e, t)
      BY <1>1, <3>1, OnwardCarries DEF SchedInv
    <3>3. /\ t \in Local /\ t.ino = s.ino /\ t.fresh = s.fresh
          /\ t.pc \in {"idle", "pass", "save"}
      BY <3>1, OnwardFacts
    <3>4. Goes(e, t)
      BY <1>1, <1>4, <2>2, <3>1 DEF Rename
    <3>5. Serial /\ StillOurs(s) =>
              (\A y \in Items : Grows(y, s.mem[y], t.mem[y])) /\ AtWork(t)
      <4>1. ASSUME Serial, StillOurs(s) PROVE t.ino # 0 /\ ~t.fresh
        BY <1>1, <3>3, <4>1 DEF StillOurs
      <4> QED
        BY <1>1, <3>2, <4>1 DEF Carries
    <3>6. NoneNew(s, t) /\ Sane(t)
      BY <1>1, <3>2 DEF Carries
    <3> QED
      BY <1>1, <3>3, <3>4, <3>5, <3>6 DEF NoneNew
  <2> QED
    BY <2>1, <2>2
<1>7. engine'[e] = t /\ \A f \in Engines \ {e} : engine'[f] = engine[f]
  BY <1>6 DEF Goes, TypeOK
<1>8. Steady'
  <2>1. \A y \in Items : InOrder(file'[y]) /\ (file'[y].there \/ file'[y] = Absent)
    BY <1>2, <1>3, AbsentIsQuiet DEF Sane
  <2>2. \A f \in Engines : Sane(engine'[f])
    BY <1>6, <1>7 DEF SchedInv, Steady
  <2>3. \A y \in Items : InOrder(file[y])' /\ (file[y].there \/ file[y] = Absent)'
    BY <1>5, <2>1 DEF InOrder
  <2>4. \A f \in Engines : Sane(engine[f])'
    BY <1>5, <2>2 DEF Sane, InOrder
  <2> QED
    BY <1>5, <2>3, <2>4 DEF SchedInv, Steady
<1>9. ASSUME ~overtaken' PROVE Serial'
  <2>1. Serial /\ StillOurs(s)
    BY <1>5, <1>9 DEF SchedInv
  <2>2. (\A y \in Items : Abreast(y, s.mem[y])) /\ AtWork(s)
    BY <1>1, <2>1 DEF Serial, HolderHolds, Knows
  <2>3. \A y \in Items : Grows(y, s.mem[y], t.mem[y])
    BY <1>6, <2>1
  <2>4. Apart'
    <3>1. \A f \in Engines : \A i \in 1 .. Inodes :
            Claims(engine'[f], i) => Claims(engine[f], i)
      BY <1>1, <1>6, <1>7 DEF Claims
    <3>2. ASSUME NEW f \in Engines, lock.by = f PROVE lock.ino \in 1 .. Inodes
      BY <3>2, LockFields DEF TypeOK
    <3> QED
      BY <1>5, <2>1, <3>1, <3>2 DEF Serial, Apart
  <2>5. ASSUME NEW y \in Items, NEW n \in Records, Covers(y, n),
               s.mem[y].last.due <= n.last.due \/ n = Absent
        PROVE  Covers(y, n)'
    <3> SUFFICES ASSUME n # Absent, NEW f \in Engines, Pending(engine[f], y)'
                 PROVE  engine'[f].mem[y].last.due <= n.last.due
      BY <1>5, <2>5 DEF Covers
    <3>1. CASE f = e
      BY <1>6, <1>7, <2>5, <3>1 DEF Pending
    <3>2. CASE f # e
      BY <1>7, <2>5, <3>2 DEF Covers, Pending
    <3> QED
      BY <3>1, <3>2
  <2>6. ASSUME NEW y \in Items, NEW n \in Records, Owed(y, n),
               n.last.retry => \/ n.last.due = s.mem[y].last.due
                                  /\ (s.mem[y].last.retry \/ Unsent(y, n.last.due))
        PROVE  Owed(y, n)'
    <3> SUFFICES ASSUME n.last.retry
                 PROVE  Unsent(y, n.last.due)' \/ <<y, n.last.due>> \in unwritten'
      BY DEF Owed
    <3>1. CASE Unsent(y, n.last.due)
      BY <1>5, <3>1 DEF Unsent
    <3>2. CASE ~Unsent(y, n.last.due)
      <4>1. <<y, n.last.due>> \in unwritten /\ s.mem[y].last.retry
            /\ n.last.due = s.mem[y].last.due
        BY <2>6, <3>2 DEF Owed
      <4>2. y # y0
        BY <1>1, <1>4, <2>2, <3>2, <4>1 DEF AtWork
      <4> QED
        BY <1>5, <4>1, <4>2
    <3> QED
      BY <3>1, <3>2
  <2>7. \A y \in Items : s.mem[y].last.due \in Nat /\ t.mem[y] \in Records
    BY LocalFields, RecordFields
  <2>8. \A y \in Items : Covers(y, s.mem[y])' /\ Owed(y, s.mem[y])'
    <3> TAKE y \in Items
    <3>1. PICK n \in Records : n = s.mem[y]
      BY <1>3
    <3>2. Covers(y, n) /\ Owed(y, n)
      BY <2>2, <3>1 DEF Abreast
    <3>3. Covers(y, n)' /\ Owed(y, n)'
      BY <2>5, <2>6, <2>7, <3>1, <3>2
    <3> QED
      BY <3>1, <3>3
  <2>9. Covers(y0, Absent)' /\ \A y \in Items : Covers(y, Absent)' /\ Owed(y, Absent)'
    BY AbsentIsQuiet DEF Covers, Owed
  <2>10. \A y \in Items : Covers(y, file[y])' /\ Owed(y, file[y])'
    <3> TAKE y \in Items
    <3>1. PICK n : n = file'[y] /\ (n = s.mem[y] \/ n = Absent)
      BY <1>3
    <3>2. Covers(y, n)' /\ Owed(y, n)'
      BY <2>8, <2>9, <3>1
    <3> QED
      BY <3>1, <3>2
  <2>11. FileHolds'
    <3>1. \A y \in Items : y \in removed' => file'[y] = Absent
      <4> TAKE y \in Items
      <4>1. y \in removed => file[y] = Absent
        BY <2>1 DEF Serial, FileHolds
      <4>2. file[y] = Absent => ~s.mem[y].there
        BY <2>2, AbsentIsQuiet DEF Abreast
      <4> QED
        BY <1>3, <1>5, <4>1, <4>2
    <3> QED
      BY <1>5, <2>1, <2>10, <3>1 DEF Serial, FileHolds
  <2>12. ASSUME NEW f \in Engines, Knows(engine[f])'
         PROVE  /\ \A y \in Items : Abreast(y, engine[f].mem[y])'
                /\ AtWork(engine[f])'
    <3>1. f = e
      <4>1. StillOurs(engine[f])
        <5>1. engine'[f].ino = engine[f].ino
          BY <1>1, <1>6, <1>7
        <5> QED
          BY <1>5, <2>12, <5>1 DEF Knows, StillOurs
      <4> QED
        BY <1>1, <2>1, <4>1, OneHolder
    <3>2. \A y \in Items : Abreast(y, t.mem[y])'
      <4> TAKE y \in Items
      <4>1. PICK n \in Records : n = t.mem[y]
        BY <2>7
      <4>2. PICK r \in Records : r = s.mem[y]
        BY <1>3
      <4>3. Grows(y, r, n) /\ Abreast(y, r)
        BY <2>2, <2>3, <4>1, <4>2
      <4>4. Abreast(y, n)
        BY <4>3, AbreastGrows DEF SchedInv
      <4>5. r.last.due <= n.last.due \/ (n = Absent /\ ~r.there)
        BY <4>3, RecordFields DEF Grows
      <4>6. Covers(y, n)'
        BY <2>5, <4>2, <4>4, <4>5 DEF Abreast
      <4>7. Owed(y, n)'
        <5>1. n.last.retry => /\ n.last.due = r.last.due
                              /\ r.last.retry \/ Unsent(y, n.last.due)
          BY <4>3, AbsentIsQuiet DEF Grows
        <5> QED
          BY <2>6, <4>2, <4>4, <5>1 DEF Abreast
      <4>8. n.there = r.there
        BY <4>3, AbsentIsQuiet, RecordFields DEF Grows
      <4>9. file'[y] = Absent \/ file'[y].last.due <= n.last.due
        BY <1>3, <4>2, <4>5
      <4> QED
        BY <1>3, <4>1, <4>2, <4>6, <4>7, <4>8, <4>9 DEF Abreast
    <3>3. AtWork(t)'
      <4>1. CASE t.pc \in {"idle", "pass", "save"}
        BY <1>5, <1>6, <2>1, <4>1 DEF AtWork, Unsent
      <4>2. CASE /\ t.pc = "deliver" /\ t.cur = y0 /\ t.mem = s.mem
                 /\ s.mem[y0].last.out = "unknown"
        <5>1. Unsent(y0, d0)
          BY <1>1, <1>4, <2>2, <4>2 DEF AtWork
        <5>2. ~file'[y0].last.retry
          BY <1>2, <1>3, <4>2, AbsentIsQuiet DEF Sane, InOrder
        <5> QED
          BY <1>4, <1>5, <4>2, <5>1, <5>2 DEF AtWork, Unsent
      <4> QED
        BY <1>6, <4>1, <4>2
    <3> QED
      BY <1>7, <3>1, <3>2, <3>3
  <2> QED
    BY <2>4, <2>11, <2>12 DEF Serial, HolderHolds
<1> QED
  BY <1>8, <1>9 DEF SchedInv


LEMMA DeliverKeeps ==
  ASSUME TypeOK, TypeOK', SchedInv, NEW e \in Engines, Deliver(e)
  PROVE  SchedInv'
<1>1. PICK s \in Local : s = engine[e] /\ s.fresh = FALSE /\ s.pc = "deliver"
  BY NotFresh DEF Deliver, At
<1>2. PICK y0 \in Items, d0 \in Times : y0 = s.cur /\ d0 = s.mem[y0].last.due
  BY LocalFields, RecordFields
<1>3. PICK r0 \in Records : r0 = s.mem[y0] /\ r0.last.due = d0
  BY <1>2, LocalFields
<1>4. /\ sent' = [sent EXCEPT ![y0][d0] = @ + 1]
      /\ loose' = IF StillOurs(s) /\ <<y0, d0>> \notin unwritten THEN loose
                  ELSE loose \cup {<<y0, d0>>}
      /\ unwritten' = IF r0.last.out = "undelivered"
                      THEN unwritten \cup {<<y0, d0>>} ELSE unwritten
      /\ UNCHANGED <<now, lock, file, removed, overtaken>>
  BY <1>1, <1>2, <1>3 DEF Deliver, Occurrence
<1>5. PICK t : t = [s EXCEPT !.pc = "typed"]
  OBVIOUS
<1>6. /\ t \in Local /\ t.pc = "typed" /\ t.ino = s.ino /\ t.at = s.at
      /\ t.fresh = s.fresh /\ t.mem = s.mem /\ t.cur = s.cur
  BY <1>5 DEF Local, Steps
<1>7. engine'[e] = t /\ \A f \in Engines \ {e} : engine'[f] = engine[f]
  BY <1>1, <1>5 DEF Deliver, Goes, TypeOK
<1>8. Sane(s)
  BY <1>1 DEF SchedInv, Steady
<1>9. /\ d0 <= now /\ r0 # Absent
      /\ \/ r0.last.out = "unknown" /\ ~r0.last.retry
         \/ r0.last.out = "undelivered" /\ r0.last.retry
  BY <1>1, <1>2, <1>3, <1>8, AbsentIsQuiet, RecordFields DEF Sane, InOrder
<1>10. \A y \in Items : \A u \in Times :
          <<y, u>> # <<y0, d0>> => sent'[y][u] = sent[y][u]
  BY <1>4 DEF TypeOK
<1>11. sent'[y0][d0] = sent[y0][d0] + 1 /\ sent[y0][d0] \in Nat
  BY <1>4 DEF TypeOK
<1>12. Steady'
  <2>1. Sane(t)
    BY <1>1, <1>6, <1>8 DEF Sane
  <2>2. \A f \in Engines : Sane(engine'[f])
    BY <1>7, <2>1 DEF SchedInv, Steady
  <2>3. \A f \in Engines : Sane(engine[f])'
    BY <1>4, <2>2 DEF Sane, InOrder
  <2>4. \A y \in Items : \A u \in Times : sent'[y][u] # 0 => u <= now
    BY <1>9, <1>10 DEF SchedInv, Steady
  <2> QED
    BY <1>4, <2>3, <2>4 DEF SchedInv, Steady, InOrder
<1>13. ASSUME Serial PROVE Serial'
  <2>1. Apart'
    <3>1. \A f \in Engines : \A i \in 1 .. Inodes :
            Claims(engine'[f], i) => Claims(engine[f], i)
      BY <1>1, <1>6, <1>7 DEF Claims
    <3>2. ASSUME NEW f \in Engines, lock.by = f PROVE lock.ino \in 1 .. Inodes
      BY <3>2, LockFields DEF TypeOK
    <3> QED
      BY <1>4, <1>13, <3>1, <3>2 DEF Serial, Apart
  <2>2. \A f \in Engines : \A y \in Items :
           Pending(engine'[f], y) => /\ Pending(engine[f], y)
                                     /\ engine'[f].mem[y] = engine[f].mem[y]
    BY <1>1, <1>6, <1>7 DEF Pending
  <2>3. ASSUME NEW y \in Items, NEW r \in Records, Covers(y, r)
        PROVE  Covers(y, r)'
    <3> SUFFICES ASSUME r # Absent PROVE Covers(y, r)'
      BY DEF Covers
    <3>1. \A u \in Times : sent'[y][u] # 0 => u <= r.last.due
      <4>1. y = y0 => d0 <= r.last.due
        BY <1>1, <1>2, <2>3 DEF Covers, Pending
      <4> QED
        BY <1>10, <2>3, <4>1 DEF Covers
    <3> QED
      BY <2>2, <2>3, <3>1 DEF Covers
  <2>4. ASSUME NEW y \in Items, NEW r \in Records, Owed(y, r),
               y = y0 /\ r.last.due = d0 /\ r.last.retry =>
                  <<y0, d0>> \in loose' \cup unwritten'
        PROVE  Owed(y, r)'
    <3>1. r.last.due \in Times
      BY RecordFields
    <3>2. loose \subseteq loose' /\ unwritten \subseteq unwritten'
      BY <1>4
    <3>3. CASE y = y0 /\ r.last.due = d0
      BY <2>4, <3>3 DEF Owed, Unsent
    <3>4. CASE ~(y = y0 /\ r.last.due = d0)
      BY <1>10, <2>4, <3>1, <3>2, <3>4 DEF Owed, Unsent
    <3> QED
      BY <3>3, <3>4
  <2>5. CASE StillOurs(s)
    <3>1. (\A y \in Items : Abreast(y, s.mem[y])) /\ AtWork(s)
      BY <1>1, <1>13, <2>5 DEF Serial, HolderHolds, Knows
    <3>2. Unsent(y0, d0) \/ <<y0, d0>> \in unwritten
      <4>1. CASE r0.last.out = "unknown"
        BY <1>1, <1>2, <1>3, <3>1, <4>1 DEF AtWork
      <4>2. CASE r0.last.retry
        BY <1>3, <3>1, <4>2 DEF Abreast, Owed
      <4> QED
        BY <1>9, <4>1, <4>2
    <3>3. r0.last.out = "unknown" => ~file[y0].last.retry
      BY <1>1, <1>2, <1>3, <3>1 DEF AtWork
    <3>4. sent'[y0][d0] <= 1 \/ <<y0, d0>> \in loose'
      BY <1>4, <1>11, <3>2 DEF Unsent
    <3>5. r0.last.out = "undelivered" => <<y0, d0>> \in unwritten'
      BY <1>4
    <3>6. FileHolds'
      <4>1. \A y \in Items : Covers(y, file[y])' /\ Owed(y, file[y])'
        <5> TAKE y \in Items
        <5>1. PICK r \in Records : r = file[y] /\ file'[y] = r
          BY <1>4 DEF TypeOK
        <5>2. Covers(y, r) /\ Owed(y, r)
          BY <1>13, <5>1 DEF Serial, FileHolds
        <5>3. Covers(y, r)' /\ Owed(y, r)'
          BY <1>9, <2>3, <2>4, <3>3, <3>5, <5>1, <5>2
        <5> QED
          BY <5>1, <5>3
      <4>2. \A y \in Items : \A u \in Times : sent'[y][u] <= 1 \/ <<y, u>> \in loose'
        BY <1>4, <1>10, <1>13, <3>4 DEF Serial, FileHolds
      <4> QED
        BY <1>4, <1>13, <4>1, <4>2 DEF Serial, FileHolds
    <3>7. ASSUME NEW f \in Engines, Knows(engine[f])'
          PROVE  /\ \A y \in Items : Abreast(y, engine[f].mem[y])'
                 /\ AtWork(engine[f])'
      <4>1. f = e
        <5>1. StillOurs(engine[f])
          BY <1>1, <1>4, <1>6, <1>7, <3>7 DEF Knows, StillOurs
        <5> QED
          BY <1>1, <1>13, <2>5, <5>1, OneHolder
      <4>2. AtWork(t)'
        BY <1>6 DEF AtWork
      <4>3. \A y \in Items : Abreast(y, t.mem[y])'
        <5> TAKE y \in Items
        <5>1. PICK r \in Records : r = s.mem[y] /\ t.mem[y] = r
          BY <1>6, LocalFields
        <5>2. Abreast(y, r)
          BY <3>1, <5>1
        <5>3. y = y0 => r = r0
          BY <1>3, <5>1
        <5>4. Covers(y, r)' /\ Owed(y, r)'
          BY <1>9, <2>3, <2>4, <3>5, <5>2, <5>3 DEF Abreast
        <5> QED
          BY <1>4, <5>1, <5>2, <5>4 DEF Abreast
      <4> QED
        BY <1>7, <4>1, <4>2, <4>3
    <3> QED
      BY <2>1, <3>6, <3>7 DEF Serial, HolderHolds
  <2>6. CASE ~StillOurs(s)
    <3>1. <<y0, d0>> \in loose'
      BY <1>4, <2>6
    <3>2. FileHolds'
      <4>1. \A y \in Items : Covers(y, file[y])' /\ Owed(y, file[y])'
        <5> TAKE y \in Items
        <5>1. PICK r \in Records : r = file[y] /\ file'[y] = r
          BY <1>4 DEF TypeOK
        <5>2. Covers(y, r) /\ Owed(y, r)
          BY <1>13, <5>1 DEF Serial, FileHolds
        <5>3. Covers(y, r)' /\ Owed(y, r)'
          BY <2>3, <2>4, <3>1, <5>2
        <5> QED
          BY <5>1, <5>3
      <4>2. \A y \in Items : \A u \in Times : sent'[y][u] <= 1 \/ <<y, u>> \in loose'
        BY <1>4, <1>10, <1>13, <3>1 DEF Serial, FileHolds
      <4> QED
        BY <1>4, <1>13, <4>1, <4>2 DEF Serial, FileHolds
    <3>3. ASSUME NEW f \in Engines, Knows(engine[f])'
          PROVE  /\ \A y \in Items : Abreast(y, engine[f].mem[y])'
                 /\ AtWork(engine[f])'
      <4>1. f # e
        BY <1>4, <1>6, <1>7, <2>6, <3>3 DEF Knows, StillOurs
      <4>2. PICK v \in Local : v = engine[f] /\ engine'[f] = v
        BY <1>7, <4>1 DEF TypeOK
      <4>3. Knows(v)
        BY <1>4, <3>3, <4>2 DEF Knows, StillOurs
      <4>4. (\A y \in Items : Abreast(y, v.mem[y])) /\ AtWork(v)
        BY <1>13, <4>2, <4>3 DEF Serial, HolderHolds
      <4>5. \A y \in Items : \A u \in Times : Unsent(y, u) => Unsent(y, u)'
        BY <1>4, <1>10, <3>1 DEF Unsent
      <4>6. AtWork(v)'
        <5>1. v.cur \in Items /\ v.mem[v.cur].last.due \in Times
          BY LocalFields, RecordFields
        <5> QED
          BY <1>4, <4>4, <4>5, <5>1 DEF AtWork
      <4>7. \A y \in Items : Abreast(y, v.mem[y])'
        <5> TAKE y \in Items
        <5>1. PICK r \in Records : r = v.mem[y]
          BY LocalFields
        <5>2. Abreast(y, r)
          BY <4>4, <5>1
        <5>3. Covers(y, r)' /\ Owed(y, r)'
          BY <2>3, <2>4, <3>1, <5>2 DEF Abreast
        <5>4. Abreast(y, r)'
          BY <1>4, <5>2, <5>3 DEF Abreast
        <5> QED
          BY <5>1, <5>4
      <4> QED
        BY <4>2, <4>6, <4>7
    <3> QED
      BY <2>1, <3>2, <3>3 DEF Serial, HolderHolds
  <2> QED
    BY <2>5, <2>6
<1> QED
  BY <1>4, <1>12, <1>13 DEF SchedInv

\* A change by the holder.  What it has in memory is what the file says, unless
\* the change comes early.
LEMMA EditKeeps ==
  ASSUME TypeOK, TypeOK', SchedInv, "early" \notin Faults,
         NEW e \in Engines, NEW x \in Items,
         NEW op \in {"remove", "pause", "resume"}, Edit(e, x, op),
         StillOurs(engine[e])
  PROVE  SchedInv'
<1>1. PICK s \in Local : s = engine[e] /\ s.fresh = FALSE /\ s.mem[x].there = TRUE
  <2>1. engine[e] \in Local
    BY DEF TypeOK
  <2> QED
    BY <2>1, LocalFields, RecordFields DEF Edit
<1>2. PICK n \in Records : n = Edited(x, s.mem[x], op)
  BY LocalFields, EditedFacts DEF TypeOK
<1>3. /\ n.last = s.mem[x].last
      /\ n.next # 0 => n.next = s.mem[x].next \/ now < n.next
      /\ n.there = (op # "remove")
  <2>1. PICK r \in Records : r = s.mem[x]
    BY LocalFields
  <2>2. n = Edited(x, r, op) /\ now \in Times
    BY <1>2, <2>1 DEF TypeOK
  <2>3. /\ n.last = r.last
        /\ op = "remove" => n.next = r.next
        /\ op # "remove" /\ n.next # 0 => now < n.next
    BY <2>2, EditedFacts
  <2>4. /\ op # "remove" => n.there = r.there
        /\ op = "remove" => n.there = FALSE
    BY <2>2, EditedFacts
  <2> QED
    BY <1>1, <2>1, <2>3, <2>4
<1>4. PICK m \in [Items -> Records] : m = [s.mem EXCEPT ![x] = n]
  BY <1>2, LocalFields
<1>5. m[x] = n /\ \A y \in Items \ {x} : m[y] = s.mem[y]
  BY <1>4, LocalFields
<1>6. PICK t : t = [s EXCEPT !.mem = m]
  OBVIOUS
<1>7. /\ t \in Local /\ t.ino = s.ino /\ t.fresh = FALSE /\ t.mem = m
      /\ t.pc = s.pc /\ t.at = s.at /\ t.cur = s.cur /\ t.file = s.file
  BY <1>1, <1>4, <1>6 DEF Local
<1>8. /\ Goes(e, t) /\ file' = Written(m)
      /\ removed' = IF op = "remove" THEN removed \cup {x} ELSE removed
      /\ UNCHANGED <<now, lock, sent, unwritten, loose, overtaken>>
  <2>1. t = [s EXCEPT !.mem[x] = Edited(x, @, op)]
    BY <1>2, <1>4, <1>6 DEF Local
  <2> QED
    BY <1>1, <1>7, <2>1 DEF Edit
<1>9. \A y \in Items : /\ m[y] \in Records /\ m[y].last = s.mem[y].last
                       /\ m[y].there => file'[y] = m[y]
                       /\ ~m[y].there => file'[y] = Absent
                       /\ file'[y].there = m[y].there
                       /\ file'[y] = m[y] \/ file'[y] = Absent
  BY <1>3, <1>5, <1>8, RecordFields, WrittenFacts
<1>10. engine'[e] = t /\ \A f \in Engines \ {e} : engine'[f] = engine[f]
  BY <1>8 DEF Goes, TypeOK
<1>11. Sane(s)
  BY <1>1 DEF SchedInv, Steady
<1>12. \A y \in Items : InOrder(m[y])
  <2> TAKE y \in Items
  <2>1. InOrder(s.mem[y])
    BY <1>11 DEF Sane
  <2>2. CASE y # x
    BY <1>5, <2>1, <2>2
  <2>3. CASE y = x
    <3>1. /\ s.mem[y].last.due \in Nat /\ s.mem[y].next \in Nat
          /\ n.next \in Nat /\ now \in Nat
      BY LocalFields, RecordFields, TimesAreNat DEF TypeOK
    <3> QED
      BY <1>3, <1>5, <2>1, <2>3, <3>1 DEF InOrder
  <2> QED
    BY <2>2, <2>3
<1>13. Steady'
  <2>1. Sane(t)
    <3>1. s.pc # "rename"
      BY <1>1 DEF Edit
    <3>2. s.cur \in Items
      BY LocalFields
    <3> QED
      BY <1>7, <1>9, <1>11, <1>12, <3>1, <3>2 DEF Sane
  <2>2. \A y \in Items : InOrder(file'[y]) /\ (file'[y].there \/ file'[y] = Absent)
    BY <1>9, <1>12, AbsentIsQuiet
  <2>3. \A f \in Engines : Sane(engine'[f])
    BY <1>10, <2>1 DEF SchedInv, Steady
  <2>4. \A y \in Items : InOrder(file[y])' /\ (file[y].there \/ file[y] = Absent)'
    BY <1>8, <2>2 DEF InOrder
  <2>5. \A f \in Engines : Sane(engine[f])'
    BY <1>8, <2>3 DEF Sane, InOrder
  <2> QED
    BY <1>8, <2>4, <2>5 DEF SchedInv, Steady
<1>14. ASSUME Serial PROVE Serial'
  <2>1. (\A y \in Items : Abreast(y, s.mem[y])) /\ AtWork(s)
    BY <1>1, <1>14 DEF Serial, HolderHolds, Knows
  <2>2. Apart'
    BY <1>1, <1>7, <1>8, <1>10, <1>14 DEF Serial, Apart, Claims
  <2>3. \A f \in Engines : \A y \in Items :
           Pending(engine'[f], y) =>
              /\ Pending(engine[f], y)
              /\ engine'[f].mem[y].last.due = engine[f].mem[y].last.due
    BY <1>1, <1>7, <1>9, <1>10 DEF Pending
  <2>4. \A y \in Items : Covers(y, m[y])' /\ Owed(y, m[y])'
    <3> TAKE y \in Items
    <3>1. PICK r \in Records : r = s.mem[y]
      BY LocalFields
    <3>2. Covers(y, r) /\ Owed(y, r)
      BY <2>1, <3>1 DEF Abreast
    <3>3. PICK k \in Records : k = m[y] /\ k.last = r.last
      BY <1>9, <3>1
    <3>4. k # Absent => r # Absent
      BY <1>1, <1>5, <3>1, <3>3, AbsentIsQuiet
    <3>5. Covers(y, k)'
      BY <1>8, <2>3, <3>2, <3>3, <3>4 DEF Covers
    <3>6. Owed(y, k)'
      BY <1>8, <3>2, <3>3 DEF Owed, Unsent
    <3> QED
      BY <3>3, <3>5, <3>6
  <2>5. \A y \in Items : Covers(y, file[y])' /\ Owed(y, file[y])'
    <3> TAKE y \in Items
    <3>1. PICK k : k = file'[y] /\ (k = m[y] \/ k = Absent)
      BY <1>9
    <3>2. Covers(y, Absent)' /\ Owed(y, Absent)'
      BY AbsentIsQuiet DEF Covers, Owed
    <3>3. Covers(y, k)' /\ Owed(y, k)'
      BY <2>4, <3>1, <3>2
    <3> QED
      BY <3>1, <3>3
  <2>6. FileHolds'
    <3>1. \A y \in Items : y \in removed' => file'[y] = Absent
      <4> TAKE y \in Items
      <4>1. CASE y # x
        <5>1. y \in removed => file[y] = Absent
          BY <1>14 DEF Serial, FileHolds
        <5>2. file[y] = Absent => ~m[y].there
          BY <1>5, <2>1, <4>1, AbsentIsQuiet DEF Abreast
        <5> QED
          BY <1>8, <1>9, <4>1, <5>1, <5>2
      <4>2. CASE y = x
        <5>1. x \notin removed
          BY <1>1, <1>14, <2>1, AbsentIsQuiet DEF Serial, FileHolds, Abreast
        <5> QED
          BY <1>3, <1>5, <1>8, <1>9, <4>2, <5>1
      <4> QED
        BY <4>1, <4>2
    <3> QED
      BY <1>8, <1>14, <2>5, <3>1 DEF Serial, FileHolds
  <2>7. ASSUME NEW f \in Engines, Knows(engine[f])'
        PROVE  /\ \A y \in Items : Abreast(y, engine[f].mem[y])'
               /\ AtWork(engine[f])'
    <3>1. f = e
      <4>1. StillOurs(engine[f])
        BY <1>1, <1>7, <1>8, <1>10, <2>7 DEF Knows, StillOurs
      <4> QED
        BY <1>14, <4>1, OneHolder
    <3>2. \A y \in Items : Abreast(y, m[y])'
      <4> TAKE y \in Items
      <4>1. PICK k \in Records : k = m[y]
        BY <1>9
      <4>2. k.last.due <= k.last.due
        BY RecordFields
      <4>3. file'[y] = k \/ file'[y] = Absent
        BY <1>9, <4>1
      <4>4. Covers(y, k)' /\ Owed(y, k)'
        BY <2>4, <4>1
      <4> QED
        BY <1>9, <4>1, <4>2, <4>3, <4>4 DEF Abreast
    <3>3. AtWork(t)'
      <4>1. PICK y \in Items : y = s.cur
        BY LocalFields
      <4>2. m[y].last = s.mem[y].last
        BY <1>9
      <4>3. m[y].last.out = "unknown" => ~file'[y].last.retry
        BY <1>9, <1>12, AbsentIsQuiet DEF InOrder
      <4> QED
        BY <1>7, <1>8, <2>1, <4>1, <4>2, <4>3 DEF AtWork, Unsent
    <3> QED
      BY <1>7, <1>10, <3>1, <3>2, <3>3
  <2> QED
    BY <2>2, <2>6, <2>7 DEF Serial, HolderHolds
<1> QED
  BY <1>8, <1>13, <1>14 DEF SchedInv

LEMMA InitHolds == Init => SchedInv
<1> SUFFICES ASSUME Init PROVE SchedInv
  OBVIOUS
<1>t. TypeOK
  BY TypeInit
<1>1. \A f \in Engines : engine[f] = Off
  BY DEF Init
<1>2. /\ Off.pc = "idle" /\ Off.ino = 0 /\ Off.at = 0 /\ Off.fresh = FALSE
      /\ \A y \in Items : Off.mem[y] = Absent
  BY OffIsLocal DEF Off
<1>3. Sane(Off)
  BY <1>t, <1>2, AbsentIsQuiet DEF Init, Sane
<1>4. \A y \in Items : /\ file[y].there = TRUE /\ InOrder(file[y])
                       /\ ~file[y].last.retry
  <2> TAKE y \in Items
  <2>1. PICK n \in Times : n = NextAfter(y, 0) /\ (n # 0 => 0 < n)
    BY NextAfterFacts
  <2>2. file[y] = [there |-> TRUE, on |-> TRUE, next |-> n, last |-> NoFire]
    BY <2>1 DEF Init
  <2> QED
    BY <2>1, <2>2 DEF InOrder, NoFire, Init
<1>5. Steady
  BY <1>1, <1>3, <1>4 DEF Init, Steady
<1>6. Apart
  BY <1>1, <1>2, SchedulesAssumption DEF Init, Apart, Claims, NoLock
<1>7. FileHolds
  <2>1. \A f \in Engines : \A y \in Items : ~Pending(engine[f], y)
    BY <1>1, <1>2, AbsentIsQuiet DEF Pending
  <2> QED
    BY <1>4, <2>1 DEF Init, FileHolds, Covers, Owed
<1>8. HolderHolds
  BY <1>1, <1>2 DEF HolderHolds, Knows, StillOurs
<1> QED
  BY <1>5, <1>6, <1>7, <1>8 DEF SchedInv, Serial

LEMMA SchedStep ==
  ASSUME TypeOK, TypeOK', SchedInv, [Next]_vars, "early" \notin Faults
  PROVE  SchedInv'
<1>1. ASSUME NEW e \in Engines, NEW x \in Items,
             NEW op \in {"remove", "pause", "resume"}, Edit(e, x, op)
      PROVE  SchedInv'
  BY <1>1, EditKeeps, RefusedKeeps
<1>2. ASSUME NEW e \in Engines, Moves(e) PROVE SchedInv'
  BY <1>2, WakeKeeps, LinkKeeps, OpenKeeps, LookKeeps, UnlinkKeeps, ReadKeeps,
     TurnKeeps, SaveKeeps, RenameKeeps, AnswerKeeps, DeliverKeeps DEF Moves
<1>3. ASSUME NEW e \in Engines,
             SaveFails(e) \/ Boot(e) \/ Die(e) \/ Exit(e) \/ Hold(e) \/ Resume(e)
      PROVE  SchedInv'
  BY <1>3, SaveFailsKeeps, OffKeeps, HoldKeeps
<1>4. ASSUME UNCHANGED vars \/ \E y \in Items : PaneCloses(y) \/ PaneOpens(y)
      PROVE  SchedInv'
  BY <1>4, PaneKeeps
<1>5. ASSUME Tick PROVE SchedInv'
  BY <1>5, TickKeeps
<1> QED
  BY <1>1, <1>2, <1>3, <1>4, <1>5 DEF Next



-----------------------------------------------------------------------------
(* Theorems. *)

\* The types of every variable hold in every reachable state.
THEOREM ScheduleTypes == Spec => []TypeOK
<1>1. Init => TypeOK
  BY TypeInit
<1>2. TypeOK /\ [Next]_vars => TypeOK'
  BY TypeStep
<1> QED
  BY <1>1, <1>2, PTL DEF Spec

LEMMA SchedAlways == ("early" \notin Faults) => (Spec => [](TypeOK /\ SchedInv))
<1> SUFFICES ASSUME "early" \notin Faults
             PROVE  Spec => [](TypeOK /\ SchedInv)
  OBVIOUS
<1>1. Init => TypeOK /\ SchedInv
  BY TypeInit, InitHolds
<1>2. TypeOK /\ SchedInv /\ [Next]_vars => (TypeOK /\ SchedInv)'
  <2> SUFFICES ASSUME TypeOK, SchedInv, [Next]_vars PROVE TypeOK' /\ SchedInv'
    OBVIOUS
  <2>1. TypeOK'
    BY TypeStep
  <2> QED
    BY <2>1, SchedStep
<1> QED
  BY <1>1, <1>2, PTL DEF Spec

\* A schedule whose removal was answered with a yes does not come back: no write
\* of an engine that holds the lock puts it in the file again (writeOnce asks for
\* the lock, and what a new holder writes from it has read after it took it).
THEOREM RemovedForGood ==
  ("early" \notin Faults) => (Spec => []RemovedStaysRemoved)
<1> SUFFICES ASSUME "early" \notin Faults PROVE Spec => []RemovedStaysRemoved
  OBVIOUS
<1>1. TypeOK /\ SchedInv => RemovedStaysRemoved
  BY AbsentIsQuiet DEF TypeOK, SchedInv, Serial, FileHolds, RemovedStaysRemoved
<1> QED
  BY <1>1, SchedAlways, PTL

\* An occurrence goes out once and is not promised again, whatever dies or is
\* held up and however the lock changes hands (the claim is on disk before
\* deliver(), and an attempt counts only if the lock is still the engine's).
THEOREM SentOnceAlways == ("early" \notin Faults) => (Spec => []SentOnce)
<1> SUFFICES ASSUME "early" \notin Faults PROVE Spec => []SentOnce
  OBVIOUS
<1>1. TypeOK /\ SchedInv => SentOnce
  <2> SUFFICES ASSUME TypeOK, Serial
               PROVE  /\ \A x \in Items : \A t \in Times :
                            sent[x][t] <= 1 \/ <<x, t>> \in loose
                      /\ \A x \in Items : file[x].last.retry =>
                            \/ sent[x][file[x].last.due] = 0
                            \/ <<x, file[x].last.due>> \in unwritten \cup loose
    BY DEF SchedInv, SentOnce, OncePerOccurrence, RetriesOnlyUnsent
  <2> QED
    BY DEF Serial, FileHolds, Owed, Unsent
<1> QED
  BY <1>1, SchedAlways, PTL

\* No occurrence is sent after a later one of its schedule, by an engine that
\* holds the lock (fire() moves the cursor past every occurrence that has come
\* round, and only the latest of them is sent).
THEOREM OrderAlways == ("early" \notin Faults) => (Spec => RunsInOrder)
<1> SUFFICES ASSUME "early" \notin Faults PROVE Spec => RunsInOrder
  OBVIOUS
<1> DEFINE Ordered ==
      \A x \in Items : \A t \in Times :
         sent'[x][t] > sent[x][t] =>
            \/ \A u \in Times : u > t => sent[x][u] = 0
            \/ overtaken \/ <<x, t>> \in loose'
<1>1. TypeOK /\ SchedInv /\ [Next]_vars => [Ordered]_vars
  <2> SUFFICES ASSUME TypeOK, SchedInv, Next, NEW x \in Items, NEW t \in Times,
                      sent'[x][t] > sent[x][t], ~overtaken, <<x, t>> \notin loose',
                      NEW u \in Times, u > t
               PROVE  sent[x][u] = 0
    OBVIOUS
  <2>1. sent[x][t] \in Nat /\ t \in Nat /\ u \in Nat
    BY TimesAreNat DEF TypeOK
  <2>2. sent' # sent
    BY <2>1
  <2>3. PICK e \in Engines : Deliver(e)
    <3>1. ASSUME NEW e \in Engines, Moves(e) PROVE Deliver(e)
      <4>1. ASSUME Wake(e) \/ Link(e) \/ Look(e) \/ Read(e) \/ Turn(e) \/ Save(e)
                     \/ DeliverNothing(e) \/ Answer(e)
            PROVE  sent' = sent
        BY <4>1 DEF Wake, Link, Look, Read, Turn, Save, DeliverNothing, Answer,
           history
      <4>2. ASSUME Open(e) \/ Unlink(e) \/ Rename(e) PROVE sent' = sent
        BY <4>2 DEF Open, Unlink, Rename
      <4> QED
        BY <2>2, <3>1, <4>1, <4>2 DEF Moves
    <3>2. ASSUME NEW e \in Engines,
                 SaveFails(e) \/ Boot(e) \/ Die(e) \/ Exit(e) \/ Hold(e) \/ Resume(e)
          PROVE  sent' = sent
      BY <3>2 DEF SaveFails, Boot, Die, Exit, Hold, Resume, history
    <3>3. ASSUME NEW y \in Items, PaneCloses(y) \/ PaneOpens(y)
          PROVE  sent' = sent
      BY <3>3 DEF PaneCloses, PaneOpens, history
    <3>4. ASSUME NEW e \in Engines, NEW y \in Items, NEW op, Edit(e, y, op)
          PROVE  sent' = sent
      BY <3>4 DEF Edit
    <3>5. Tick => sent' = sent
      BY DEF Tick
    <3> QED
      BY <2>2, <3>1, <3>2, <3>3, <3>4, <3>5 DEF Next
  <2>4. PICK s \in Local : s = engine[e] /\ s.fresh = FALSE /\ s.pc = "deliver"
    BY <2>3, NotFresh DEF Deliver, At
  <2>5. PICK y \in Items, d \in Times : y = s.cur /\ d = s.mem[y].last.due
    BY LocalFields, RecordFields
  <2>6. /\ sent' = [sent EXCEPT ![y][d] = @ + 1]
        /\ loose' = IF StillOurs(s) /\ <<y, d>> \notin unwritten THEN loose
                    ELSE loose \cup {<<y, d>>}
    BY <2>3, <2>4, <2>5 DEF Deliver, Occurrence
  <2>7. x = y /\ t = d
    BY <2>1, <2>6 DEF TypeOK
  <2>8. Knows(s)
    BY <2>4, <2>6, <2>7 DEF Knows
  <2>9. Covers(y, s.mem[y])
    BY <2>4, <2>8 DEF SchedInv, Serial, HolderHolds, Abreast
  <2>10. s.mem[y] # Absent
    BY <2>4, <2>5, AbsentIsQuiet DEF SchedInv, Steady, Sane
  <2>11. sent[y][u] # 0 => u <= d
    BY <2>5, <2>9, <2>10 DEF Covers
  <2> QED
    BY <2>1, <2>7, <2>11
<1> QED
  BY <1>1, SchedAlways, PTL DEF Spec, RunsInOrder

-----------------------------------------------------------------------------
(* A refused message goes out soon after the session opens.  The waits that  *)
(* an engine has promised end soon enough (Near), and an engine that has had *)
(* its tick has tried whatever was to be tried again by then (Punctual).     *)

Busy == {"pass", "save", "rename", "deliver", "typed"}

Near(y, r) == r.last.retry => r.last.at + waiting[y] <= now + RETRY_MAX

Later(r, t) == r.last.retry => t < r.last.at

\* The pass has nothing to do for y, or nothing any more.
Behind(s, y) == ~s.mem[y].there \/ Later(s.mem[y], s.at)

Punctual(s) ==
    /\ s.pc \in {"link", "open", "look", "unlink"} => s.ino = 0
    /\ s.pc \in Busy =>
         /\ s.ticked => s.at = now
         /\ \A y \in Items : \/ Behind(s, y) \/ y \in s.todo
                             \/ s.pc \in {"deliver", "typed"} /\ y = s.cur
    /\ s.pc = "idle" /\ s.ticked /\ s.ino # 0 =>
         \A y \in Items : Later(s.mem[y], now)

Timely(s) == Punctual(s) /\ \A y \in Items : Near(y, s.mem[y])

Soon ==
    /\ \A y \in Items : /\ waiting[y] <= RETRY_MAX
                        /\ pane[y] \/ waiting[y] = 0
                        /\ Near(y, file[y])
    /\ \A e \in Engines : Timely(engine[e])

\* A retry that an attempt promises is later, and within the longest wait.
LEMMA JudgedLater ==
  ASSUME NEW r \in Records, NEW answer, NEW t \in Times, NEW j,
         j = Judged(r, answer, t), j.last.retry
  PROVE  t < j.last.at /\ j.last.at <= t + RETRY_MAX
<1>0. PICK q \in Records :
        q = Judged(r, answer, t) /\ q.last.retry = KeepsTrying(r, answer, t)
  BY JudgedFacts
<1>1. KeepsTrying(r, answer, t)
  BY <1>0
<1>2. answer = "later" /\ t < Deadline(r)
  BY <1>1 DEF KeepsTrying
<1>3. PICK k : k = KeepsTrying(r, answer, t)
  OBVIOUS
<1>4. PICK a : a = RetryAt(r, t)
  OBVIOUS
<1>5. j.last.at = a
  <2>1. PICK out : out = IF answer = "ok" THEN "delivered" ELSE "undelivered"
    OBVIOUS
  <2>2. j = [r EXCEPT !.last = [@ EXCEPT !.out = out, !.retry = k, !.at = a]]
    BY <1>1, <1>3, <1>4, <2>1 DEF Judged
  <2> QED
    BY <2>2 DEF Records, Fires
<1>6. t < a /\ a <= t + RETRY_MAX
  <2>1. Deadline(r) \in Nat /\ t \in Nat
    BY RecordFields, TimesAreNat, SchedulesAssumption DEF Deadline
  <2>2. PICK w \in {RETRY_MIN, RETRY_MAX} :
          w = IF r.last.out = "unknown" THEN RETRY_MIN ELSE RETRY_MAX
    OBVIOUS
  <2>3. w \in Nat /\ 0 < w /\ w <= RETRY_MAX /\ RETRY_MAX \in Nat
    BY SchedulesAssumption
  <2>4. a = Lesser(t + w, Deadline(r))
    BY <1>4, <2>2 DEF RetryAt
  <2> QED
    BY <1>2, <2>1, <2>3, <2>4 DEF Lesser
<1> QED
  BY <1>5, <1>6

LEMMA AbsentIsNear ==
  \A y \in Items : Near(y, Absent) /\ Later(Absent, now) /\ ~Absent.there
BY AbsentIsQuiet DEF Near, Later

\* What stays in memory, or is dropped, is as near as it was.
LEMMA KeptIsNear ==
  ASSUME NEW s \in Local, NEW t \in Local, Kept(s, t),
         \A y \in Items : Near(y, s.mem[y])
  PROVE  \A y \in Items : Near(y, t.mem[y])
BY AbsentIsNear DEF Kept

\* To the next schedule, or to rest: the pass has left nothing behind.
LEMMA OverOnTime ==
  ASSUME NEW s \in Local, s.ticked => s.at = now,
         \A y \in Items : Behind(s, y) \/ y \in s.todo,
         \A y \in Items : Near(y, s.mem[y])
  PROVE  Timely(Over(s))
<1>1. PICK t \in Local : /\ t = Over(s) /\ Kept(s, t)
                         /\ t.pc \in {"idle", "pass"}
  BY OverFacts
<1>2. \A y \in Items : Near(y, t.mem[y])
  BY <1>1, KeptIsNear
<1>3. CASE s.todo = {}
  <2>1. t = Rests(s)
    BY <1>1, <1>3 DEF Over
  <2>2. t.pc = "idle" /\ t.ticked = s.ticked /\ t.mem = Written(s.mem)
    BY <2>1, RestsFacts
  <2>3. ASSUME s.ticked, NEW y \in Items PROVE Later(t.mem[y], now)
    <3>1. CASE s.mem[y].there
      <4>1. Later(s.mem[y], now)
        BY <1>3, <2>3, <3>1 DEF Behind
      <4>2. t.mem[y] = s.mem[y]
        BY <2>2, <3>1, LocalFields, WrittenFacts
      <4> QED
        BY <4>1, <4>2
    <3>2. CASE ~s.mem[y].there
      <4>1. t.mem[y] = Absent
        BY <2>2, <3>2, LocalFields, WrittenFacts
      <4> QED
        BY <4>1, AbsentIsNear
    <3> QED
      BY <3>1, <3>2
  <2>4. Punctual(t)
    BY <2>2, <2>3 DEF Punctual, Busy
  <2> QED
    BY <1>1, <1>2, <2>4 DEF Timely
<1>4. CASE s.todo # {}
  <2>1. t = [s EXCEPT !.pc = "pass", !.snap = NoMap, !.cur = SomeItem]
    BY <1>1, <1>4 DEF Over
  <2>2. /\ t.pc = "pass" /\ t.ticked = s.ticked /\ t.at = s.at
        /\ t.mem = s.mem /\ t.todo = s.todo
    BY <2>1 DEF Local
  <2>3. Punctual(t)
    BY <2>2 DEF Punctual, Busy, Behind
  <2> QED
    BY <1>1, <1>2, <2>3 DEF Timely
<1> QED
  BY <1>3, <1>4

LEMMA OnwardOnTime ==
  ASSUME NEW s \in Local, s.ticked => s.at = now,
         \A y \in Items : Behind(s, y) \/ y \in s.todo,
         \A y \in Items : Near(y, s.mem[y])
  PROVE  Timely(Onward(s))
<1>1. CASE ~IsDue(s.mem[s.cur], s.at)
  BY <1>1, OverOnTime DEF Onward
<1>2. CASE IsDue(s.mem[s.cur], s.at)
  <2>1. PICK x \in Items : x = s.cur
    BY LocalFields
  <2>2. PICK c \in Records : /\ c = Claimed(x, s.mem[x], s.at)
                             /\ c.there = s.mem[x].there
                             /\ c.last.retry = FALSE
    BY <1>2, <2>1, LocalFields, ClaimedFacts
  <2>3. PICK m \in [Items -> Records] : m = [s.mem EXCEPT ![x] = c]
    BY LocalFields
  <2>4. PICK t : t = Onward(s)
    OBVIOUS
  <2>5. t = [s EXCEPT !.pc = "save", !.snap = NoMap, !.mem = m]
    BY <1>2, <2>1, <2>2, <2>3, <2>4 DEF Onward, Local
  <2>6. /\ t.pc = "save" /\ t.ticked = s.ticked /\ t.at = s.at
        /\ t.mem = m /\ t.todo = s.todo
    BY <2>5 DEF Local
  <2>7. m[x] = c /\ \A y \in Items \ {x} : m[y] = s.mem[y]
    BY <2>3, LocalFields
  <2>8. \A y \in Items : Near(y, m[y])
    BY <2>2, <2>7 DEF Near
  <2>9. \A y \in Items : Behind(t, y) \/ y \in t.todo
    BY <2>2, <2>6, <2>7 DEF Behind, Later
  <2>10. Punctual(t)
    BY <2>6, <2>9 DEF Punctual, Busy
  <2> QED
    BY <2>4, <2>6, <2>8, <2>10 DEF Timely
<1> QED
  BY <1>1, <1>2

\* After an attempt.  Only one that finds the session closed promises another.
LEMMA AttemptedOnTime ==
  ASSUME TypeOK, Steady, Soon, NEW e \in Engines, NEW answer,
         engine[e].pc \in {"deliver", "typed"},
         answer = "later" => ~pane[engine[e].cur]
  PROVE  Timely(Attempted(engine[e], answer))
<1>1. PICK s \in Local : s = engine[e]
  BY DEF TypeOK
<1>2. Sane(s) /\ Timely(s) /\ s.at \in Times /\ s.at \in Nat /\ now \in Nat
  BY <1>1, LocalFields, TimesAreNat DEF Steady, Soon, TypeOK
<1>3. PICK x \in Items : x = s.cur
  BY LocalFields
<1>4. PICK r \in Records : r = s.mem[x]
  BY LocalFields
<1>5. PICK j \in Records : j = Judged(r, answer, s.at)
  BY <1>2, JudgedFacts
<1>6. PICK m \in [Items -> Records] : m = [s.mem EXCEPT ![x] = j]
  BY LocalFields
<1>7. m[x] = j /\ \A y \in Items \ {x} : m[y] = s.mem[y]
  BY <1>6, LocalFields
<1>8. PICK t \in Local : t = [s EXCEPT !.mem = m]
  BY DEF Local
<1>9. t = [s EXCEPT !.mem[s.cur] = Judged(s.mem[s.cur], answer, s.at)]
  BY <1>3, <1>4, <1>5, <1>6, <1>8 DEF Local
<1>10. /\ t.mem = m /\ t.at = s.at /\ t.todo = s.todo /\ t.ticked = s.ticked
       /\ t.ino = s.ino
  BY <1>8 DEF Local
<1>11. j.last.retry => /\ s.at < j.last.at /\ j.last.at <= s.at + RETRY_MAX
                       /\ answer = "later" /\ j.last.at \in Nat
  BY <1>2, <1>5, JudgedLater, JudgedFacts, RecordFields
<1>12. \A y \in Items : Near(y, m[y])
  <2>1. Near(x, j)
    <3>1. j.last.retry => waiting[x] = 0
      BY <1>1, <1>3, <1>11 DEF Soon
    <3>2. s.at <= now /\ RETRY_MAX \in Nat
      BY <1>2, SchedulesAssumption DEF Sane
    <3> QED
      BY <1>2, <1>11, <3>1, <3>2 DEF Near
  <2> QED
    BY <1>2, <1>7, <2>1 DEF Timely
<1>13. \A y \in Items : Behind(t, y) \/ y \in t.todo
  <2>1. Behind(t, x)
    BY <1>7, <1>10, <1>11 DEF Behind, Later
  <2>2. \A y \in Items \ {x} : Behind(s, y) \/ y \in s.todo
    BY <1>1, <1>2, <1>3 DEF Timely, Punctual, Busy
  <2> QED
    BY <1>7, <1>10, <2>1, <2>2 DEF Behind
<1>14. t.ticked => t.at = now
  BY <1>1, <1>2, <1>10 DEF Timely, Punctual, Busy
<1>15. CASE ~StillOurs(s)
  <2>1. PICK u \in Local : u = Lost(s) /\ u.pc = "idle" /\ u.ino = 0 /\ Kept(s, u)
    BY LostFacts
  <2>2. \A y \in Items : Near(y, u.mem[y])
    BY <1>2, <2>1, KeptIsNear DEF Timely
  <2>3. Punctual(u)
    BY <2>1 DEF Punctual, Busy
  <2>4. Attempted(s, answer) = u
    BY <1>15, <2>1 DEF Attempted
  <2> QED
    BY <1>1, <2>2, <2>3, <2>4 DEF Timely
<1>16. CASE StillOurs(s) /\ Quiet(r, answer, s.at)
  <2>1. Attempted(s, answer) = Onward(t)
    BY <1>3, <1>4, <1>9, <1>16 DEF Attempted
  <2>2. Timely(Onward(t))
    BY <1>10, <1>12, <1>13, <1>14, OnwardOnTime
  <2> QED
    BY <1>1, <2>1, <2>2
<1>17. CASE StillOurs(s) /\ ~Quiet(r, answer, s.at)
  <2>1. PICK u : u = [t EXCEPT !.pc = "save"]
    OBVIOUS
  <2>2. Attempted(s, answer) = u
    BY <1>3, <1>4, <1>9, <1>17, <2>1 DEF Attempted
  <2>3. /\ u.pc = "save" /\ u.mem = m /\ u.at = t.at /\ u.todo = t.todo
        /\ u.ticked = t.ticked
    BY <1>10, <2>1 DEF Local
  <2>4. \A y \in Items : Behind(u, y) \/ y \in u.todo
    BY <1>10, <1>13, <2>3 DEF Behind
  <2>5. Punctual(u)
    BY <1>14, <2>3, <2>4 DEF Punctual, Busy
  <2> QED
    BY <1>1, <1>12, <2>2, <2>3, <2>5 DEF Timely
<1> QED
  BY <1>15, <1>16, <1>17

\* Each step keeps it.  First those that move one engine, and no more than the
\* file beside it.
LEMMA EngineOnTime ==
  ASSUME TypeOK, Soon, NEW e \in Engines, NEW t \in Local, Goes(e, t), Timely(t),
         \A y \in Items : Near(y, file'[y]), UNCHANGED <<now, pane, waiting>>
  PROVE  Soon'
<1>1. engine'[e] = t /\ \A f \in Engines \ {e} : engine'[f] = engine[f]
  BY DEF Goes, TypeOK
<1>2. \A y \in Items : /\ waiting'[y] <= RETRY_MAX
                       /\ pane'[y] \/ waiting'[y] = 0
  BY DEF Soon
<1>3. \A y \in Items : Near(y, file[y])'
  BY DEF Near
<1>4. \A f \in Engines : Timely(engine'[f])
  BY <1>1 DEF Soon
<1>5. \A f \in Engines : Timely(engine[f])'
  <2> TAKE f \in Engines
  <2>1. PICK s : s = engine'[f]
    OBVIOUS
  <2>2. Timely(s)
    BY <1>4, <2>1
  <2>3. Timely(s)'
    BY <2>2 DEF Timely, Punctual, Behind, Later, Near
  <2> QED
    BY <2>1, <2>3
<1> QED
  BY <1>2, <1>3, <1>5 DEF Soon

LEMMA FileIsNear ==
  ASSUME Soon, file' = file
  PROVE  \A y \in Items : Near(y, file'[y])
BY DEF Soon

LEMMA LockCallsOnTime ==
  ASSUME TypeOK, Steady, Soon, NEW e \in Engines,
         Wake(e) \/ Link(e) \/ Open(e) \/ Look(e) \/ Unlink(e)
  PROVE  Soon'
<1>1. PICK s \in Local : s = engine[e]
  BY DEF TypeOK
<1>2. Sane(s) /\ Timely(s) /\ now \in Times
  BY <1>1 DEF Steady, Soon, TypeOK
<1>3. UNCHANGED <<now, pane, waiting, file>>
  BY DEF Wake, Link, Open, Look, Unlink, history
<1>4. SUFFICES ASSUME NEW t \in Local, Goes(e, t), Timely(t) PROVE Soon'
  <2>1. ASSUME NEW t \in Local, Kept(s, t), Goes(e, t),
               t.pc \in {"read", "link", "open", "look", "unlink", "idle"},
               t.pc = "read" \/ t.ino = 0
        PROVE  Timely(t)
    BY <1>2, <2>1, KeptIsNear DEF Timely, Punctual, Busy
  <2>2. CASE Wake(e)
    <3>1. PICK u \in Local : u = [s EXCEPT !.ticked = TRUE]
      BY DEF Local
    <3>2. /\ u.mem = s.mem /\ u.ino = s.ino /\ u.fresh = s.fresh
          /\ u.ticked = TRUE /\ s.pc = "idle" /\ s.fresh = FALSE
      BY <1>1, <1>2, <2>2, <3>1, LocalFields DEF Wake, At, Sane, Local
    <3>3. CASE ~StillOurs(u)
      <4>1. PICK l \in Local : l = Lost(u) /\ l.ino = 0 /\ Kept(u, l)
        BY LostFacts
      <4>2. PICK t : t = [l EXCEPT !.pc = "link"]
        OBVIOUS
      <4>3. t \in Local /\ t.pc = "link" /\ t.ino = 0 /\ t.mem = l.mem
        BY <4>1, <4>2 DEF Local, Steps
      <4>4. Goes(e, t) /\ Kept(s, t)
        BY <1>1, <2>2, <3>1, <3>2, <3>3, <4>1, <4>2, <4>3 DEF Wake, Kept
      <4> QED
        BY <1>4, <2>1, <4>3, <4>4
    <3>4. CASE StillOurs(u)
      <4>1. PICK t \in Local : t = Passes(u) /\ t.pc = "pass" /\ t.mem = u.mem
                               /\ t.at = now
        BY <1>2, PassesFacts
      <4>2. /\ t.todo = {y \in Items : u.mem[y].there}
        BY <4>1 DEF Passes, Local
      <4>3. Goes(e, t)
        BY <1>1, <2>2, <3>1, <3>2, <3>4, <4>1 DEF Wake
      <4>4. Punctual(t)
        BY <4>1, <4>2 DEF Punctual, Busy, Behind
      <4>5. Timely(t)
        BY <1>2, <3>2, <4>1, <4>4 DEF Timely
      <4> QED
        BY <1>4, <4>3, <4>5
    <3> QED
      BY <3>3, <3>4
  <2>3. CASE Link(e)
    <3>1. s.ino = 0
      BY <1>1, <1>2, <2>3 DEF Link, At, Timely, Punctual
    <3>2. PICK t : /\ Goes(e, t)
                   /\ \/ /\ t = [s EXCEPT !.pc = "look",
                                     !.ticked = s.pc = "idle" \/ s.ticked]
                      \/ \E i \in 1 .. Inodes :
                           t = [s EXCEPT !.pc = "open", !.file = i,
                                     !.ticked = s.pc = "idle" \/ s.ticked]
      <4>1. CASE lock = NoLock
        <5>1. PICK i : i = Least((1 .. Inodes) \ InUse)
          OBVIOUS
        <5>2. i \in 1 .. Inodes
          <6>1. (1 .. Inodes) \ InUse # {}
            BY <2>3, <4>1 DEF Link
          <6> QED
            BY <5>1, <6>1, LeastIsThere
        <5> QED
          BY <1>1, <2>3, <4>1, <5>1, <5>2 DEF Link
      <4>2. CASE lock # NoLock
        BY <1>1, <2>3, <4>2 DEF Link
      <4> QED
        BY <4>1, <4>2
    <3>3. PICK b \in BOOLEAN : b = (s.pc = "idle" \/ s.ticked)
      BY LocalFields
    <3>4. t.pc \in {"look", "open"} /\ t.ino = 0 /\ t.mem = s.mem
      BY <3>1, <3>2 DEF Local
    <3>5. t \in Local
      <4>1. "look" \in Steps /\ "open" \in Steps
        BY DEF Steps
      <4>2. CASE t = [s EXCEPT !.pc = "look", !.ticked = b]
        BY <4>1, <4>2 DEF Local
      <4>3. ASSUME NEW i \in 1 .. Inodes,
                   t = [s EXCEPT !.pc = "open", !.file = i, !.ticked = b]
            PROVE  t \in Local
        <5>1. i \in 0 .. Inodes
          BY <4>3
        <5> QED
          BY <4>1, <4>3, <5>1 DEF Local
      <4> QED
        BY <3>2, <3>3, <4>2, <4>3
    <3> QED
      BY <1>4, <2>1, <3>2, <3>4, <3>5 DEF Kept
  <2>4. lock.ino \in 0 .. Inodes
    BY LockFields DEF TypeOK
  <2>5. PICK o \in Local : o = Owns(s, lock.ino) /\ o.pc = "read" /\ o.mem = s.mem
    BY <2>4, OwnsFacts
  <2>6. Goes(e, o) => Soon'
    BY <1>4, <2>1, <2>5 DEF Kept
  <2>7. CASE Open(e)
    <3>1. s.ino = 0
      BY <1>1, <1>2, <2>7 DEF Open, At, Timely, Punctual
    <3>2. PICK t : t = [s EXCEPT !.pc = "look", !.file = 0]
      OBVIOUS
    <3>3. t \in Local /\ t.pc = "look" /\ t.ino = 0 /\ t.mem = s.mem
      <4>1. "look" \in Steps /\ 0 \in 0 .. Inodes
        BY SchedulesAssumption DEF Steps
      <4> QED
        BY <3>1, <3>2, <4>1 DEF Local
    <3>4. Goes(e, t) \/ Goes(e, o)
      BY <1>1, <2>5, <2>7, <3>2 DEF Open
    <3> QED
      BY <1>4, <2>1, <2>6, <3>3, <3>4 DEF Kept
  <2>8. PICK w \in Local : /\ w = Waived(s) /\ w.pc \in {"idle", "read"}
                           /\ w.ino = s.ino /\ Kept(s, w)
    BY WaivedFacts
  <2>9. s.ino = 0 /\ Goes(e, w) => Soon'
    BY <1>4, <2>1, <2>8
  <2>10. CASE Look(e)
    <3>1. s.ino = 0
      BY <1>1, <1>2, <2>10 DEF Look, At, Timely, Punctual
    <3>2. PICK t : t = [s EXCEPT !.pc = "unlink", !.file = lock.ino]
      OBVIOUS
    <3>3. t \in Local /\ t.pc = "unlink" /\ t.ino = 0 /\ t.mem = s.mem
      <4>1. "unlink" \in Steps
        BY DEF Steps
      <4> QED
        BY <2>4, <3>1, <3>2, <4>1 DEF Local
    <3>4. Goes(e, t) \/ Goes(e, o) \/ Goes(e, w)
      BY <1>1, <2>5, <2>8, <2>10, <3>2 DEF Look
    <3> QED
      BY <1>4, <2>1, <2>6, <2>9, <3>1, <3>3, <3>4 DEF Kept
  <2>11. CASE Unlink(e)
    <3>1. s.ino = 0
      BY <1>1, <1>2, <2>11 DEF Unlink, At, Timely, Punctual
    <3>2. PICK t : t = [s EXCEPT !.pc = "link", !.attempt = 1, !.file = 0]
      OBVIOUS
    <3>3. t \in Local /\ t.pc = "link" /\ t.ino = 0 /\ t.mem = s.mem
      <4>1. "link" \in Steps /\ 0 \in 0 .. Inodes /\ 1 \in 0 .. 1
        BY SchedulesAssumption DEF Steps
      <4> QED
        BY <3>1, <3>2, <4>1 DEF Local
    <3>4. Goes(e, t) \/ Goes(e, w)
      BY <1>1, <2>8, <2>11, <3>2 DEF Unlink
    <3> QED
      BY <1>4, <2>1, <2>9, <3>1, <3>3, <3>4 DEF Kept
  <2> QED
    BY <2>2, <2>3, <2>7, <2>10, <2>11
<1> QED
  BY <1>3, <1>4, EngineOnTime, FileIsNear

LEMMA ReadOnTime ==
  ASSUME TypeOK, Steady, Soon, NEW e \in Engines, Read(e)
  PROVE  Soon'
<1>1. PICK r \in Local : r = engine[e]
  BY DEF TypeOK
<1>2. PICK f \in [Items -> Records] : f = file
  BY DEF TypeOK
<1>3. PICK u \in Local : u = [r EXCEPT !.mem = f]
  BY DEF Local
<1>4. PICK s \in Local : s = [u EXCEPT !.fresh = FALSE]
  BY DEF Local
<1>5. s = [engine[e] EXCEPT !.mem = file, !.fresh = FALSE]
  BY <1>1, <1>2, <1>3, <1>4
<1>6. s.mem = f
  BY <1>3, <1>4 DEF Local
<1>7. \A y \in Items : Near(y, s.mem[y])
  BY <1>2, <1>6 DEF Soon
<1>8. PICK t \in Local : Goes(e, t) /\ Timely(t)
  <2>1. CASE s.ticked
    <3>1. PICK t \in Local : t = Passes(s) /\ t.pc = "pass" /\ t.mem = s.mem
                             /\ t.at = now
      BY PassesFacts DEF TypeOK
    <3>2. t.todo = {y \in Items : s.mem[y].there}
      BY <3>1 DEF Passes, Local
    <3>3. Goes(e, t)
      BY <1>5, <2>1, <3>1 DEF Read
    <3>4. Punctual(t)
      BY <3>1, <3>2 DEF Punctual, Busy, Behind
    <3> QED
      BY <1>7, <3>1, <3>3, <3>4 DEF Timely
  <2>2. CASE ~s.ticked
    <3>1. PICK t \in Local : t = Rests(s) /\ t.pc = "idle" /\ Kept(s, t)
                             /\ t.ticked = s.ticked
      BY RestsFacts
    <3>2. Goes(e, t)
      BY <1>5, <2>2, <3>1 DEF Read
    <3>3. Punctual(t)
      BY <2>2, <3>1 DEF Punctual, Busy
    <3>4. \A y \in Items : Near(y, t.mem[y])
      BY <1>7, <3>1, KeptIsNear
    <3> QED
      BY <3>2, <3>3, <3>4 DEF Timely
  <2> QED
    BY <2>1, <2>2
<1>9. UNCHANGED <<now, pane, waiting, file>>
  BY DEF Read, history
<1> QED
  BY <1>8, <1>9, EngineOnTime, FileIsNear

LEMMA TurnOnTime ==
  ASSUME TypeOK, Steady, Soon, NEW e \in Engines, Turn(e)
  PROVE  Soon'
<1>1. PICK s \in Local : s = engine[e] /\ s.pc = "pass"
  <2>1. engine[e] \in Local
    BY DEF TypeOK
  <2> QED
    BY <2>1 DEF Turn, At
<1>2. /\ Sane(s) /\ Timely(s)
      /\ s.ticked => s.at = now
      /\ \A y \in Items : Behind(s, y) \/ y \in s.todo
  <2>1. Sane(s) /\ Timely(s)
    BY <1>1 DEF Steady, Soon
  <2> QED
    BY <1>1, <2>1 DEF Timely, Punctual, Busy
<1>3. PICK b \in Local : b = Stamped(s)
  BY StampedFacts
<1>4. /\ b.mem = s.mem /\ b.at = s.at /\ b.todo = s.todo /\ b.ino = s.ino
      /\ b.ticked = s.ticked
  <2>1. b.mem = s.mem /\ b.at = s.at /\ b.todo = s.todo /\ b.ino = s.ino
    BY <1>3, StampedFacts
  <2>2. b.ticked = s.ticked
    BY <1>3 DEF Stamped, Local
  <2> QED
    BY <2>1, <2>2
<1>5. PICK t \in Local : Goes(e, t) /\ Timely(t)
  <2>1. CASE FoundOut(s)
    <3>1. PICK t \in Local : t = Lost(s) /\ t.pc = "idle" /\ t.ino = 0 /\ Kept(s, t)
      BY LostFacts
    <3>2. Goes(e, t)
      BY <1>1, <2>1, <3>1 DEF Turn
    <3>3. Timely(t)
      BY <1>2, <3>1, KeptIsNear DEF Timely, Punctual, Busy
    <3> QED
      BY <3>2, <3>3
  <2>2. CASE ~FoundOut(s) /\ s.todo = {} /\ Goes(e, Rests(b))
    <3>1. PICK t : t = Rests(b)
      OBVIOUS
    <3>2. t \in Local
      BY <3>1, RestsFacts
    <3>3. t = Over(b)
      BY <1>4, <2>2, <3>1 DEF Over
    <3>4. \A y \in Items : Behind(b, y) \/ y \in b.todo
      BY <1>2, <1>4 DEF Behind
    <3>5. Timely(t)
      BY <1>2, <1>4, <3>3, <3>4, OverOnTime DEF Timely
    <3> QED
      BY <2>2, <3>1, <3>2, <3>5
  <2>3. ASSUME ~FoundOut(s), NEW x \in s.todo,
               Goes(e, IF IsRetried(s.mem[x], s.at)
                       THEN [[b EXCEPT !.todo = @ \ {x}, !.cur = x]
                                EXCEPT !.pc = "deliver"]
                       ELSE Onward([b EXCEPT !.todo = @ \ {x}, !.cur = x]))
        PROVE  \E t \in Local : Goes(e, t) /\ Timely(t)
    <3>1. x \in Items /\ s.todo \ {x} \in SUBSET Items
      BY LocalFields
    <3>2. PICK u : u = [b EXCEPT !.todo = @ \ {x}, !.cur = x]
      OBVIOUS
    <3>3. /\ u \in Local /\ u.at = s.at /\ u.ticked = s.ticked /\ u.cur = x
          /\ u.mem = s.mem /\ u.todo = s.todo \ {x}
      BY <1>4, <3>1, <3>2 DEF Local
    <3>4. CASE ~IsRetried(s.mem[x], s.at)
      <4>1. PICK t : t = Onward(u)
        OBVIOUS
      <4>2. t \in Local
        BY <3>3, <4>1, OnwardFacts
      <4>3. Goes(e, t)
        BY <2>3, <3>2, <3>4, <4>1
      <4>4. Later(s.mem[x], s.at)
        <5>1. s.mem[x].last.at \in Nat /\ s.at \in Nat
          BY <3>1, LocalFields, RecordFields, TimesAreNat
        <5>2. InOrder(s.mem[x])
          BY <1>2, <3>1 DEF Sane
        <5> QED
          BY <3>4, <5>1, <5>2 DEF IsRetried, InOrder, Later
      <4>5. \A y \in Items : Behind(u, y) \/ y \in u.todo
        BY <1>2, <3>3, <4>4 DEF Behind
      <4>6. Timely(t)
        BY <1>2, <3>3, <4>1, <4>5, OnwardOnTime DEF Timely
      <4> QED
        BY <4>2, <4>3, <4>6
    <3>5. CASE IsRetried(s.mem[x], s.at)
      <4>1. PICK t : t = [u EXCEPT !.pc = "deliver"]
        OBVIOUS
      <4>2. /\ t \in Local /\ t.at = s.at /\ t.ticked = s.ticked /\ t.cur = x
            /\ t.mem = s.mem /\ t.todo = s.todo \ {x} /\ t.pc = "deliver"
        <5>1. "deliver" \in Steps
          BY DEF Steps
        <5> QED
          BY <3>3, <4>1, <5>1 DEF Local
      <4>3. Goes(e, t)
        BY <2>3, <3>2, <3>5, <4>1
      <4>4. Punctual(t)
        BY <1>2, <4>2 DEF Punctual, Busy, Behind
      <4>5. Timely(t)
        BY <1>2, <4>2, <4>4 DEF Timely
      <4> QED
        BY <4>2, <4>3, <4>5
    <3> QED
      BY <3>4, <3>5
  <2> QED
    BY <1>1, <1>3, <2>1, <2>2, <2>3 DEF Turn
<1>6. UNCHANGED <<now, pane, waiting, file>>
  BY DEF Turn, history
<1> QED
  BY <1>5, <1>6, EngineOnTime, FileIsNear

LEMMA SaveOnTime ==
  ASSUME TypeOK, Steady, Soon, NEW e \in Engines, Save(e) \/ SaveFails(e)
  PROVE  Soon'
<1>1. PICK s \in Local : s = engine[e] /\ s.pc = "save"
  <2>1. engine[e] \in Local
    BY DEF TypeOK
  <2> QED
    BY <2>1 DEF Save, SaveFails, At
<1>2. /\ Timely(s)
      /\ s.ticked => s.at = now
      /\ \A y \in Items : Behind(s, y) \/ y \in s.todo
  <2>1. Timely(s)
    BY <1>1 DEF Soon
  <2> QED
    BY <1>1, <2>1 DEF Timely, Punctual, Busy
<1>3. PICK t \in Local : Goes(e, t) /\ Timely(t)
  <2>1. CASE SaveFails(e)
    <3>1. Goes(e, Over(s))
      BY <1>1, <2>1 DEF SaveFails
    <3>2. Over(s) \in Local
      BY OverFacts
    <3>3. Timely(Over(s))
      BY <1>2, OverOnTime DEF Timely
    <3> QED
      BY <3>1, <3>2, <3>3
  <2>2. CASE Save(e) /\ ~StillOurs(s)
    <3>1. PICK t \in Local : t = Lost(s) /\ t.pc = "idle" /\ t.ino = 0 /\ Kept(s, t)
      BY LostFacts
    <3>2. Goes(e, t)
      BY <1>1, <2>2, <3>1 DEF Save
    <3>3. Timely(t)
      BY <1>2, <3>1, KeptIsNear DEF Timely, Punctual, Busy
    <3> QED
      BY <3>2, <3>3
  <2>3. CASE Save(e) /\ StillOurs(s)
    <3>1. PICK m \in [Items -> Records] : m = Written(s.mem)
      BY LocalFields, WrittenFacts
    <3>2. PICK t : t = [s EXCEPT !.pc = "rename", !.snap = m]
      OBVIOUS
    <3>3. /\ t \in Local /\ t.pc = "rename" /\ t.at = s.at /\ t.mem = s.mem
          /\ t.todo = s.todo /\ t.ticked = s.ticked
      <4>1. "rename" \in Steps
        BY DEF Steps
      <4> QED
        BY <3>1, <3>2, <4>1 DEF Local
    <3>4. Goes(e, t)
      BY <1>1, <2>3, <3>1, <3>2 DEF Save
    <3>5. Timely(t)
      BY <1>2, <3>3 DEF Timely, Punctual, Busy, Behind
    <3> QED
      BY <3>3, <3>4, <3>5
  <2> QED
    BY <2>1, <2>2, <2>3
<1>4. UNCHANGED <<now, pane, waiting, file>>
  BY DEF Save, SaveFails, history
<1> QED
  BY <1>3, <1>4, EngineOnTime, FileIsNear

LEMMA WrittenIsNear ==
  ASSUME NEW mem \in [Items -> Records], \A y \in Items : Near(y, mem[y])
  PROVE  \A y \in Items : Near(y, Written(mem)[y])
<1> TAKE y \in Items
<1>1. Written(mem)[y] = mem[y] \/ Written(mem)[y] = Absent
  BY RecordFields, WrittenFacts
<1> QED
  BY <1>1, AbsentIsNear

LEMMA RenameOnTime ==
  ASSUME TypeOK, Steady, Soon, NEW e \in Engines, Rename(e)
  PROVE  Soon'
<1>1. PICK s \in Local : s = engine[e] /\ s.pc = "rename"
  <2>1. engine[e] \in Local
    BY DEF TypeOK
  <2> QED
    BY <2>1 DEF Rename, At
<1>2. /\ Sane(s) /\ Timely(s)
      /\ s.ticked => s.at = now
      /\ \A y \in Items : Behind(s, y) \/ y \in s.todo
  <2>1. Sane(s) /\ Timely(s)
    BY <1>1 DEF Steady, Soon
  <2> QED
    BY <1>1, <2>1 DEF Timely, Punctual, Busy
<1>3. \A y \in Items : Near(y, file'[y])
  <2>1. file' = Written(s.mem)
    BY <1>1, <1>2 DEF Rename, Sane
  <2> QED
    BY <1>2, <2>1, LocalFields, WrittenIsNear DEF Timely
<1>4. PICK t \in Local : Goes(e, t) /\ Timely(t)
  <2>1. PICK u : u = [s EXCEPT !.pc = "deliver", !.snap = NoMap]
    OBVIOUS
  <2>2. /\ u \in Local /\ u.pc = "deliver" /\ u.at = s.at /\ u.mem = s.mem
        /\ u.todo = s.todo /\ u.ticked = s.ticked
    <3>1. "deliver" \in Steps
      BY DEF Steps
    <3> QED
      BY <2>1, <3>1, OffIsLocal DEF Local
  <2>3. Timely(u)
    BY <1>2, <2>2 DEF Timely, Punctual, Busy, Behind
  <2>4. Onward(s) \in Local
    BY OnwardFacts
  <2>5. Timely(Onward(s))
    BY <1>2, OnwardOnTime DEF Timely
  <2>6. Goes(e, u) \/ Goes(e, Onward(s))
    BY <1>1, <2>1 DEF Rename
  <2> QED
    BY <2>2, <2>3, <2>4, <2>5, <2>6
<1>5. UNCHANGED <<now, pane, waiting>>
  BY DEF Rename
<1> QED
  BY <1>3, <1>4, <1>5, EngineOnTime

LEMMA DeliveryOnTime ==
  ASSUME TypeOK, Steady, Soon, NEW e \in Engines,
         DeliverNothing(e) \/ Answer(e) \/ Deliver(e)
  PROVE  Soon'
<1>1. PICK s \in Local : s = engine[e] /\ s.pc \in {"deliver", "typed"}
  <2>1. engine[e] \in Local
    BY DEF TypeOK
  <2> QED
    BY <2>1 DEF DeliverNothing, Answer, Deliver, At
<1>2. PICK t \in Local : Goes(e, t) /\ Timely(t)
  <2>1. CASE Deliver(e)
    <3>1. PICK t : t = [s EXCEPT !.pc = "typed"]
      OBVIOUS
    <3>2. /\ t \in Local /\ t.pc = "typed" /\ t.at = s.at /\ t.mem = s.mem
          /\ t.todo = s.todo /\ t.ticked = s.ticked /\ t.cur = s.cur
      <4>1. "typed" \in Steps
        BY DEF Steps
      <4> QED
        BY <3>1, <4>1 DEF Local
    <3>3. Goes(e, t)
      BY <1>1, <2>1, <3>1 DEF Deliver
    <3>4. Timely(s)
      BY <1>1 DEF Soon
    <3>5. Timely(t)
      BY <1>1, <3>2, <3>4 DEF Timely, Punctual, Busy, Behind
    <3> QED
      BY <3>2, <3>3, <3>5
  <2>2. CASE DeliverNothing(e) \/ Answer(e)
    <3>1. PICK answer : /\ Goes(e, Attempted(s, answer))
                        /\ answer = "later" => ~pane[s.cur]
      BY <1>1, <2>2 DEF DeliverNothing, Answer
    <3>2. Attempted(s, answer) \in Local
      BY AttemptedType
    <3>3. Timely(Attempted(s, answer))
      BY <1>1, <3>1, AttemptedOnTime
    <3> QED
      BY <3>1, <3>2, <3>3
  <2> QED
    BY <2>1, <2>2
<1>3. UNCHANGED <<now, pane, waiting, file>>
  BY DEF DeliverNothing, Answer, Deliver, history
<1> QED
  BY <1>2, <1>3, EngineOnTime, FileIsNear

LEMMA ProcessOnTime ==
  ASSUME TypeOK, Steady, Soon, NEW e \in Engines,
         Boot(e) \/ Die(e) \/ Exit(e) \/ Hold(e) \/ Resume(e)
  PROVE  Soon'
<1>1. PICK s \in Local : s = engine[e]
  BY DEF TypeOK
<1>2. /\ Off \in Local /\ Off.pc = "idle" /\ Off.ino = 0 /\ Off.ticked = FALSE
      /\ \A y \in Items : Near(y, Off.mem[y])
  BY OffIsLocal, AbsentIsNear DEF Off
<1>3. PICK t \in Local : Goes(e, t) /\ Timely(t)
  <2>1. CASE Boot(e)
    <3>1. PICK t : t = [Off EXCEPT !.up = "running", !.pc = "link"]
      OBVIOUS
    <3>2. t \in Local /\ t.pc = "link" /\ t.ino = 0 /\ t.mem = Off.mem
      <4>1. "link" \in Steps
        BY DEF Steps
      <4> QED
        BY <1>2, <3>1, <4>1 DEF Local
    <3>3. Timely(t)
      BY <1>2, <3>2 DEF Timely, Punctual, Busy
    <3> QED
      BY <2>1, <3>1, <3>2, <3>3 DEF Boot
  <2>2. CASE Die(e) \/ Exit(e)
    <3>1. Timely(Off)
      BY <1>2 DEF Timely, Punctual, Busy
    <3> QED
      BY <1>2, <2>2, <3>1 DEF Die, Exit
  <2>3. CASE Hold(e) \/ Resume(e)
    <3>1. PICK up \in {"held", "running"} : Goes(e, [s EXCEPT !.up = up])
      BY <1>1, <2>3 DEF Hold, Resume
    <3>2. PICK t : t = [s EXCEPT !.up = up]
      OBVIOUS
    <3>3. /\ t \in Local /\ t.pc = s.pc /\ t.ino = s.ino /\ t.mem = s.mem
          /\ t.at = s.at /\ t.ticked = s.ticked /\ t.todo = s.todo /\ t.cur = s.cur
      BY <3>2 DEF Local
    <3>4. Timely(s)
      BY <1>1 DEF Soon
    <3>5. Timely(t)
      BY <3>3, <3>4 DEF Timely, Punctual, Behind
    <3> QED
      BY <3>1, <3>2, <3>3, <3>5
  <2> QED
    BY <2>1, <2>2, <2>3
<1>4. UNCHANGED <<now, pane, waiting, file>>
  BY DEF Boot, Die, Exit, Hold, Resume, history
<1> QED
  BY <1>3, <1>4, EngineOnTime, FileIsNear

LEMMA PaneOnTime ==
  ASSUME TypeOK, Soon,
         UNCHANGED vars \/ \E y \in Items : PaneCloses(y) \/ PaneOpens(y)
  PROVE  Soon'
<1>1. UNCHANGED <<now, file, engine>>
  BY DEF PaneCloses, PaneOpens, vars, history
<1>2. \A y \in Items : /\ waiting'[y] \in {0, waiting[y]}
                       /\ pane'[y] \/ waiting'[y] = 0
  <2>1. CASE UNCHANGED vars
    BY <2>1 DEF vars, history, Soon
  <2>2. ASSUME NEW x \in Items, PaneCloses(x) \/ PaneOpens(x), NEW y \in Items
        PROVE  /\ waiting'[y] \in {0, waiting[y]}
               /\ pane'[y] \/ waiting'[y] = 0
    BY <2>2 DEF PaneCloses, PaneOpens, history, TypeOK, Soon
  <2> QED
    BY <2>1, <2>2
<1>3. ASSUME NEW y \in Items, NEW r \in Records, Near(y, r) PROVE Near(y, r)'
  <2>1. r.last.at \in Nat /\ waiting[y] \in Nat /\ now \in Nat /\ RETRY_MAX \in Nat
    BY RecordFields, TimesAreNat, SchedulesAssumption DEF TypeOK
  <2> QED
    BY <1>1, <1>2, <1>3, <2>1 DEF Near
<1>4. ASSUME NEW e \in Engines PROVE Timely(engine[e])'
  <2>1. PICK s \in Local : s = engine[e] /\ Timely(s)
    BY DEF TypeOK, Soon
  <2>2. \A y \in Items : Near(y, s.mem[y])'
    BY <1>3, <2>1, LocalFields DEF Timely
  <2>3. Punctual(s)'
    BY <1>1, <2>1 DEF Timely, Punctual, Behind, Later
  <2>4. Timely(s)'
    BY <2>2, <2>3 DEF Timely
  <2> QED
    BY <1>1, <2>1, <2>4
<1>5. \A y \in Items : Near(y, file[y])'
  <2> TAKE y \in Items
  <2>1. PICK r \in Records : r = file[y] /\ Near(y, r)
    BY DEF TypeOK, Soon
  <2>2. Near(y, r)'
    BY <1>3, <2>1
  <2> QED
    BY <1>1, <2>1, <2>2
<1>6. \A y \in Items : waiting'[y] <= RETRY_MAX
  BY <1>2, SchedulesAssumption DEF Soon
<1> QED
  BY <1>2, <1>4, <1>5, <1>6 DEF Soon

LEMMA EditOnTime ==
  ASSUME TypeOK, Steady, Soon, NEW e \in Engines, NEW x \in Items,
         NEW op \in {"remove", "pause", "resume"}, Edit(e, x, op)
  PROVE  Soon'
<1>1. PICK s \in Local : s = engine[e]
  BY DEF TypeOK
<1>2. Timely(s)
  BY <1>1 DEF Soon
<1>3. PICK r \in Records : r = s.mem[x]
  BY LocalFields
<1>4. PICK n \in Records : n = Edited(x, r, op)
  BY EditedFacts DEF TypeOK
<1>5. n.last = r.last /\ (n.there => r.there)
  <2>1. /\ n.last = r.last
        /\ op # "remove" => n.there = r.there
    BY <1>4, EditedFacts DEF TypeOK
  <2>2. op = "remove" => n.there = FALSE
    BY <1>4, EditedFacts DEF TypeOK
  <2> QED
    BY <2>1, <2>2
<1>6. PICK m \in [Items -> Records] : m = [s.mem EXCEPT ![x] = n]
  BY LocalFields
<1>7. \A y \in Items : /\ m[y].last = s.mem[y].last
                       /\ m[y].there => s.mem[y].there
  BY <1>3, <1>5, <1>6, LocalFields
<1>8. PICK t \in Local : t = [s EXCEPT !.mem = m]
  BY DEF Local
<1>9. t = [s EXCEPT !.mem[x] = Edited(x, @, op)]
  BY <1>3, <1>4, <1>6, <1>8 DEF Local
<1>10. /\ t.mem = m /\ t.pc = s.pc /\ t.ino = s.ino /\ t.at = s.at
       /\ t.todo = s.todo /\ t.ticked = s.ticked /\ t.cur = s.cur
  BY <1>8 DEF Local
<1>11. \A y \in Items : Near(y, m[y])
  BY <1>2, <1>7 DEF Timely, Near
<1>12. Timely(t)
  <2>1. \A y \in Items : Behind(s, y) => Behind(t, y)
    BY <1>7, <1>10 DEF Behind, Later
  <2>2. \A y \in Items : Later(s.mem[y], now) => Later(m[y], now)
    BY <1>7 DEF Later
  <2>3. Punctual(t)
    BY <1>2, <1>10, <2>1, <2>2 DEF Timely, Punctual
  <2> QED
    BY <1>10, <1>11, <2>3 DEF Timely
<1>13. ASSUME NEW u \in Local, Timely(u)
       PROVE  /\ [u EXCEPT !.ino = 0, !.fresh = FALSE] \in Local
              /\ Timely([u EXCEPT !.ino = 0, !.fresh = FALSE])
  <2>1. PICK v : v = [u EXCEPT !.ino = 0, !.fresh = FALSE]
    OBVIOUS
  <2>2. /\ v \in Local /\ v.mem = u.mem /\ v.pc = u.pc /\ v.ino = 0
        /\ v.at = u.at /\ v.todo = u.todo /\ v.ticked = u.ticked /\ v.cur = u.cur
    <3>1. 0 \in 0 .. Inodes
      BY SchedulesAssumption
    <3> QED
      BY <2>1, <3>1 DEF Local
  <2>3. Timely(v)
    BY <1>13, <2>2 DEF Timely, Punctual, Behind
  <2> QED
    BY <2>1, <2>2, <2>3
<1>14. UNCHANGED <<now, pane, waiting>>
  BY DEF Edit
<1>15. CASE StillOurs(s)
  <2>1. Goes(e, t) /\ file' = Written(m)
    BY <1>1, <1>9, <1>10, <1>15 DEF Edit
  <2>2. \A y \in Items : Near(y, file'[y])
    BY <1>11, <2>1, WrittenIsNear
  <2> QED
    BY <1>12, <1>14, <2>1, <2>2, EngineOnTime
<1>16. CASE ~StillOurs(s)
  <2>1. PICK u \in Local : /\ Timely(u)
                           /\ Goes(e, [u EXCEPT !.ino = 0, !.fresh = FALSE])
    <3>1. Goes(e, [(IF op = "remove" THEN s ELSE t)
                       EXCEPT !.ino = 0, !.fresh = FALSE])
      BY <1>1, <1>9, <1>16 DEF Edit
    <3> QED
      BY <1>2, <1>12, <3>1
  <2>2. file' = file
    BY <1>1, <1>16 DEF Edit
  <2> QED
    BY <1>13, <1>14, <2>1, <2>2, EngineOnTime, FileIsNear
<1> QED
  BY <1>15, <1>16

\* The clock: what an engine could have sent by now is no longer owed.
LEMMA TickOnTime ==
  ASSUME TypeOK, Soon, Tick
  PROVE  Soon'
<1>1. now \in Nat /\ now' \in Nat /\ now <= now' /\ now' <= now + 1
  <2>1. now \in 0 .. Horizon /\ now' = Lesser(now + 1, Horizon)
    BY DEF Tick, TypeOK, Times
  <2> QED
    BY <2>1, SchedulesAssumption DEF Lesser
<1>2. waiting' = [y \in Items |-> IF Waits(y) THEN waiting[y] + (now' - now)
                                             ELSE 0]
  BY Zenon DEF Tick
<1>3. UNCHANGED <<file, pane>>
  BY DEF Tick
<1>4. \A e \in Engines :
        engine'[e] = [engine[e] EXCEPT !.ticked = FALSE,
                        !.beat = IF engine[e].ino = 0 THEN 0
                                 ELSE Lesser(@ + 1, LOCK_BEAT)]
  BY Zenon DEF Tick
<1>5. RETRY_MAX \in Nat /\ \A y \in Items : waiting[y] \in Nat
  BY SchedulesAssumption DEF TypeOK
<1>6. \A y \in Items : /\ ~Waits(y) => waiting'[y] = 0
                       /\ Waits(y) => waiting'[y] = waiting[y] + (now' - now)
  BY <1>2
<1>7. ASSUME NEW y \in Items, NEW r \in Records, Near(y, r) PROVE Near(y, r)'
  <2>1. r.last.at \in Nat
    BY RecordFields
  <2> QED
    BY <1>1, <1>5, <1>6, <1>7, <2>1 DEF Near
<1>8. ASSUME NEW e \in Engines PROVE Timely(engine[e])'
  <2>1. PICK s \in Local : s = engine[e] /\ Timely(s)
    BY DEF TypeOK, Soon
  <2>2. PICK t : t = engine'[e]
    OBVIOUS
  <2>3. PICK b : b = IF s.ino = 0 THEN 0 ELSE Lesser(s.beat + 1, LOCK_BEAT)
    OBVIOUS
  <2>4. t = [s EXCEPT !.ticked = FALSE, !.beat = b]
    BY <1>4, <2>1, <2>2, <2>3
  <2>5. /\ t.mem = s.mem /\ t.pc = s.pc /\ t.ino = s.ino /\ t.at = s.at
        /\ t.todo = s.todo /\ t.ticked = FALSE /\ t.cur = s.cur
    BY <2>4 DEF Local
  <2>6. \A y \in Items : Near(y, s.mem[y])'
    BY <1>7, <2>1, LocalFields DEF Timely
  <2>7. Punctual(t)'
    BY <2>1, <2>5 DEF Timely, Punctual, Behind, Later
  <2>8. Timely(t)'
    BY <2>5, <2>6, <2>7 DEF Timely
  <2> QED
    BY <2>2, <2>8
<1>9. \A y \in Items : Near(y, file[y])'
  <2> TAKE y \in Items
  <2>1. PICK r \in Records : r = file[y] /\ Near(y, r)
    BY DEF TypeOK, Soon
  <2>2. Near(y, r)'
    BY <1>7, <2>1
  <2> QED
    BY <1>3, <2>1, <2>2
<1>10. ASSUME NEW y \in Items, Waits(y)
       PROVE  waiting'[y] <= RETRY_MAX /\ pane[y]
  <2>1. PICK e \in Engines : /\ engine[e].up = "running" /\ StillOurs(engine[e])
                             /\ engine[e].mem[y].last.retry
    BY <1>10 DEF Waits
  <2>2. PICK s \in Local : s = engine[e] /\ Timely(s)
    BY DEF TypeOK, Soon
  <2>3. s.pc = "idle" /\ s.ticked /\ s.ino # 0 /\ s.mem[y].last.retry
    BY <2>1, <2>2 DEF Tick, StillOurs
  <2>4. PICK a \in Nat : a = s.mem[y].last.at
    BY LocalFields, RecordFields
  <2>5. now < a
    BY <2>2, <2>3, <2>4 DEF Timely, Punctual, Later
  <2>6. a + waiting[y] <= now + RETRY_MAX
    BY <2>2, <2>3, <2>4 DEF Timely, Near
  <2>7. pane[y]
    BY <1>10 DEF Waits
  <2> QED
    BY <1>1, <1>5, <1>6, <1>10, <2>5, <2>6, <2>7
<1>11. \A y \in Items : /\ waiting'[y] <= RETRY_MAX
                        /\ pane'[y] \/ waiting'[y] = 0
  BY <1>3, <1>5, <1>6, <1>10
<1> QED
  BY <1>8, <1>9, <1>11 DEF Soon

LEMMA InitOnTime == Init => Soon
<1> SUFFICES ASSUME Init PROVE Soon
  OBVIOUS
<1>1. \A y \in Items : Near(y, file[y])
  <2> TAKE y \in Items
  <2>1. PICK n : n = NextAfter(y, 0)
    OBVIOUS
  <2>2. file[y] = [there |-> TRUE, on |-> TRUE, next |-> n, last |-> NoFire]
    BY <2>1 DEF Init
  <2> QED
    BY <2>2 DEF Near, NoFire
<1>2. /\ Off.pc = "idle" /\ Off.ticked = FALSE
      /\ \A y \in Items : Near(y, Off.mem[y])
  BY OffIsLocal, AbsentIsNear DEF Off
<1>3. Timely(Off)
  BY <1>2 DEF Timely, Punctual, Busy
<1> QED
  BY <1>1, <1>3, SchedulesAssumption DEF Init, Soon

LEMMA SoonStep ==
  ASSUME TypeOK, Steady, Soon, [Next]_vars
  PROVE  Soon'
<1>1. ASSUME NEW e \in Engines, Moves(e) PROVE Soon'
  BY <1>1, LockCallsOnTime, ReadOnTime, TurnOnTime, SaveOnTime, RenameOnTime,
     DeliveryOnTime DEF Moves
<1>2. ASSUME NEW e \in Engines,
             SaveFails(e) \/ Boot(e) \/ Die(e) \/ Exit(e) \/ Hold(e) \/ Resume(e)
      PROVE  Soon'
  BY <1>2, SaveOnTime, ProcessOnTime
<1>3. ASSUME UNCHANGED vars \/ \E y \in Items : PaneCloses(y) \/ PaneOpens(y)
      PROVE  Soon'
  BY <1>3, PaneOnTime
<1>4. ASSUME NEW e \in Engines, NEW x \in Items,
             NEW op \in {"remove", "pause", "resume"}, Edit(e, x, op)
      PROVE  Soon'
  BY <1>4, EditOnTime
<1>5. ASSUME Tick PROVE Soon'
  BY <1>5, TickOnTime
<1> QED
  BY <1>1, <1>2, <1>3, <1>4, <1>5 DEF Next

\* While an engine holds the lock and the session is open, a message that could
\* not be delivered goes out within the longest wait of the ladder: nextTryAt()
\* promises no later attempt, and no pass leaves one that has come round.
THEOREM PromptRetry == ("early" \notin Faults) => (Spec => []PromptAfterFree)
<1> SUFFICES ASSUME "early" \notin Faults PROVE Spec => []PromptAfterFree
  OBVIOUS
<1>1. Init => Soon
  BY InitOnTime
<1>2. TypeOK /\ SchedInv /\ Soon /\ [Next]_vars => Soon'
  BY SoonStep DEF SchedInv
<1>3. Soon => PromptAfterFree
  BY DEF Soon, PromptAfterFree
<1> QED
  BY <1>1, <1>2, <1>3, SchedAlways, PTL DEF Spec

-----------------------------------------------------------------------------
(* What has come round is claimed in time.  A fault buys the whole stale     *)
(* window, so nothing has to be shown of the ticks that it pays for; past    *)
(* them no fault has happened for a while, and one of three things is true   *)
(* of the lock (Calm): an engine that runs has it, one that runs is about to *)
(* take it, or nobody has touched it and it has been ageing all the time.    *)

Calls == {"link", "open", "look", "unlink"}

\* The holder's cursor is the file's, but for the claim that it is saving.
Agrees(r, f) == f.there => r.on = f.on /\ r.next = f.next
Claiming(s, y) == /\ s.pc \in {"save", "rename"} /\ s.cur = y
                  /\ s.mem[y].last.out = "unknown"
InStep(s, y) == Agrees(s.mem[y], file[y]) \/ Claiming(s, y)
Synced == \A e \in Engines : Knows(engine[e]) =>
            \A y \in Items \ failed : InStep(engine[e], y)

\* The pass that began with the tick does not leave y due.
Spared(s, y) == ~s.mem[y].there \/ ~IsDue(s.mem[y], now)
Diligent(s, y) ==
    s.ticked =>
      /\ s.pc \in Busy => Spared(s, y) \/ y \in s.todo \/ (s.pc # "pass" /\ s.cur = y)
      /\ s.pc = "idle" /\ s.ino # 0 => Spared(s, y)

FirstGo(s) == /\ s.pc \notin Calls => s.attempt = 0
              /\ s.pc = "open" => s.file # 0
FirstGoes == \A e \in Engines : FirstGo(engine[e])

Runs(e) == engine[e].up = "running"

Owned == lock # NoLock /\ \E g \in Engines : Runs(g) /\ Claims(engine[g], lock.ino)

Free == lock = NoLock /\ \E h \in Engines : /\ Runs(h)
                                            /\ \/ engine[h].pc = "link"
                                               \/ ~engine[h].ticked

\* A lock that nobody takes for dead, and nobody is about to unlink.
Safe == /\ lock # NoLock /\ lock.age <= LOCK_STALE
        /\ \E g \in Engines : lock.by = g /\ Runs(g) /\ Claims(engine[g], lock.ino)
        /\ \A k \in Engines : engine[k].pc = "unlink" => engine[k].file # lock.ino

\* An engine whose first go has taken the name away finds it gone, or a lock
\* that somebody has put there since: its second go takes nothing away.
SecondGo ==
    \A h \in Engines :
       engine[h].ticked /\ engine[h].attempt = 1 =>
          /\ engine[h].pc # "unlink"
          /\ Safe \/ (lock = NoLock /\ engine[h].pc = "link")

Span == LOCK_STALE + 1

\* Nobody has touched the lock since the tick.
Left(y) ==
    /\ lock # NoLock
    /\ overlooked[y] <= Span * faults + lock.age
    /\ \A e \in Engines :
         Runs(e) /\ engine[e].ticked =>
            \/ engine[e].pc \in {"link", "look", "unlink"} /\ engine[e].attempt = 0
            \/ engine[e].pc = "idle" /\ lock.age <= LOCK_STALE

Calm(y) ==
    /\ \A e \in Engines : engine[e].ticked => Runs(e)
    /\ \A e \in Engines : Diligent(engine[e], y)
    /\ SecondGo
    /\ Owned \/ Free \/ Left(y)

InBounds == \A y \in Items \ failed :
               /\ overlooked[y] <= Span * (1 + faults)
               /\ overlooked[y] > Span * faults => Calm(y)

Watched == /\ FirstGoes
           /\ overtaken \/ (Synced /\ InBounds)

LEMMA SpanFacts ==
  ASSUME TypeOK
  PROVE  /\ Span \in Nat /\ 1 <= Span /\ faults \in Nat
         /\ Span * faults \in Nat
         /\ Span * (1 + faults) = Span * faults + Span
         /\ \A y \in Items : overlooked[y] \in Nat
<1>1. Span \in Nat /\ 1 <= Span /\ faults \in Nat
  BY SchedulesAssumption DEF Span, TypeOK
<1> QED
  BY <1>1 DEF TypeOK

\* A step that a fault pays for.
LEMMA FaultPays ==
  ASSUME TypeOK, InBounds, faults' = faults + 1, overlooked' = overlooked,
         failed \subseteq failed'
  PROVE  InBounds'
<1>1. /\ Span \in Nat /\ faults \in Nat /\ Span * faults \in Nat
      /\ Span * (1 + faults) = Span * faults + Span
      /\ \A y \in Items : overlooked[y] \in Nat
  BY SpanFacts
<1>2. Span * faults' = Span * faults + Span
  BY <1>1
<1>3. Span * (1 + faults') = Span * faults + Span + Span
  <2>1. faults' \in Nat
    BY <1>1
  <2>2. Span * (1 + faults') = Span + Span * faults'
    BY <1>1, <2>1
  <2> QED
    BY <1>1, <1>2, <2>2
<1> SUFFICES ASSUME NEW y \in Items \ failed'
             PROVE  /\ overlooked'[y] <= Span * (1 + faults')
                    /\ ~(overlooked'[y] > Span * faults')
  BY DEF InBounds, Span
<1>4. overlooked[y] <= Span * faults + Span
  BY <1>1 DEF InBounds
<1> QED
  BY <1>1, <1>2, <1>3, <1>4

\* A step that has nothing to do with what is overlooked.
LEMMA QuietPays ==
  ASSUME TypeOK, InBounds, UNCHANGED <<faults, overlooked, failed>>,
         \A y \in Items : Calm(y) => Calm(y)'
  PROVE  InBounds'
BY DEF InBounds, Span

LEMMA JudgedOn ==
  ASSUME NEW r \in Records, NEW answer, NEW t \in Times
  PROVE  /\ Judged(r, answer, t).on = r.on
         /\ Judged(r, answer, t).next = r.next
         /\ Judged(r, answer, t).there = r.there
BY DEF Judged, Records

\* Synced, after a step of one engine.
LEMMA SyncedStep ==
  ASSUME TypeOK, Synced, NEW e \in Engines, NEW t \in Local, Goes(e, t),
         failed \subseteq failed',
         \A f \in Engines \ {e} : Knows(engine[f])' => /\ Knows(engine[f])
                                                       /\ file' = file,
         Knows(t)' => \A y \in Items \ failed' : InStep(t, y)'
  PROVE  Synced'
<1>1. engine'[e] = t /\ \A f \in Engines \ {e} : engine'[f] = engine[f]
  BY DEF Goes, TypeOK
<1> SUFFICES ASSUME NEW f \in Engines, Knows(engine[f])', NEW y \in Items \ failed'
             PROVE  InStep(engine[f], y)'
  BY DEF Synced
<1>2. CASE f = e
  <2>1. Knows(t)'
    BY <1>1, <1>2 DEF Knows, StillOurs
  <2>2. InStep(t, y)'
    BY <2>1
  <2> QED
    BY <1>1, <1>2, <2>2 DEF InStep
<1>3. CASE f # e
  <2>1. Knows(engine[f]) /\ file' = file /\ engine'[f] = engine[f]
    BY <1>1, <1>3
  <2>2. InStep(engine[f], y)
    BY <2>1 DEF Synced
  <2> QED
    BY <2>1, <2>2 DEF InStep
<1> QED
  BY <1>2, <1>3

\* A holder that is not saving has what the file says, and may drop what is not
\* there.
LEMMA HolderAgrees ==
  ASSUME TypeOK, Serial, Synced, NEW e \in Engines, NEW t \in Local,
         Knows(engine[e]), Kept(engine[e], t), NEW y \in Items \ failed,
         ~Claiming(engine[e], y)
  PROVE  Agrees(t.mem[y], file[y])
<1>1. PICK s \in Local : s = engine[e]
  BY DEF TypeOK
<1>2. Agrees(s.mem[y], file[y])
  BY <1>1 DEF Synced, InStep
<1>3. s.mem[y].there = file[y].there
  BY <1>1 DEF Serial, HolderHolds, Abreast
<1>4. t.mem[y] = s.mem[y] \/ ~s.mem[y].there
  BY <1>1 DEF Kept
<1>5. CASE t.mem[y] = s.mem[y]
  BY <1>2, <1>5
<1>6. CASE ~s.mem[y].there
  BY <1>3, <1>6 DEF Agrees
<1> QED
  BY <1>4, <1>5, <1>6

\* The rest of a turn claims what is due, and leaves the others.
LEMMA OnwardInStep ==
  ASSUME TypeOK, NEW s \in Local, NEW y \in Items,
         Agrees(s.mem[y], file[y])', s.mem[y].there = file'[y].there
  PROVE  InStep(Onward(s), y)'
<1>1. PICK t \in Local : t = Onward(s)
  BY OnwardFacts
<1>2. PICK x \in Items : x = s.cur
  BY LocalFields
<1>3. \/ t.pc \in {"idle", "pass"} /\ Kept(s, t)
      \/ /\ t.pc = "save" /\ t.cur = x
         /\ IsDue(s.mem[x], s.at)
         /\ t.mem = [s.mem EXCEPT ![x] = Claimed(x, s.mem[x], s.at)]
  BY <1>1, <1>2, OnwardFacts
<1>4. CASE t.pc \in {"idle", "pass"} /\ Kept(s, t)
  <2>1. t.mem[y] = s.mem[y] \/ ~s.mem[y].there
    BY <1>4 DEF Kept
  <2>2. CASE t.mem[y] = s.mem[y]
    BY <1>1, <2>2 DEF InStep
  <2>3. CASE ~s.mem[y].there
    BY <1>1, <2>3 DEF InStep, Agrees
  <2> QED
    BY <2>1, <2>2, <2>3
<1>5. CASE /\ t.pc = "save" /\ t.cur = x
           /\ IsDue(s.mem[x], s.at)
           /\ t.mem = [s.mem EXCEPT ![x] = Claimed(x, s.mem[x], s.at)]
  <2>0. PICK r \in Records : r = s.mem[x]
    BY LocalFields
  <2>9. IsDue(r, s.at) /\ s.at \in Times
    BY <1>5, <2>0, LocalFields
  <2>1. PICK c \in Records : c = Claimed(x, r, s.at) /\ c.last.out = "unknown"
    BY <2>9, ClaimedFacts
  <2>2. t.mem[x] = c /\ (y # x => t.mem[y] = s.mem[y])
    BY <1>5, <2>0, <2>1, LocalFields
  <2>3. CASE y = x
    BY <1>1, <1>5, <2>1, <2>2, <2>3 DEF InStep, Claiming
  <2>4. CASE y # x
    BY <1>1, <2>2, <2>4 DEF InStep
  <2> QED
    BY <2>3, <2>4
<1> QED
  BY <1>3, <1>4, <1>5


\* The others know no more than they did when the name is not theirs now.
LEMMA OthersKnow ==
  ASSUME TypeOK, NEW e \in Engines, NEW t \in Local, Goes(e, t),
         lock'.ino \in {0, lock.ino}, file' = file
  PROVE  \A f \in Engines \ {e} : Knows(engine[f])' => /\ Knows(engine[f])
                                                       /\ file' = file
BY DEF Goes, TypeOK, Knows, StillOurs

\* An engine that does not believe it owns the lock, or has not read, promises
\* nothing.
LEMMA SyncedElsewhere ==
  ASSUME TypeOK, Synced, NEW e \in Engines, NEW t \in Local, Goes(e, t),
         t.ino = 0 \/ t.fresh, lock'.ino \in {0, lock.ino}, file' = file,
         failed' = failed
  PROVE  Synced'
<1>1. ~Knows(t)'
  BY DEF Knows, StillOurs
<1> QED
  BY <1>1, OthersKnow, SyncedStep

LEMMA SyncedAlike ==
  ASSUME Synced, lock'.ino = lock.ino, UNCHANGED <<file, failed>>,
         \A f \in Engines :
            /\ engine'[f].mem = engine[f].mem /\ engine'[f].pc = engine[f].pc
            /\ engine'[f].ino = engine[f].ino /\ engine'[f].cur = engine[f].cur
            /\ engine'[f].fresh = engine[f].fresh
  PROVE  Synced'
<1> SUFFICES ASSUME NEW f \in Engines, Knows(engine[f])', NEW y \in Items \ failed'
             PROVE  InStep(engine[f], y)'
  BY DEF Synced
<1>1. Knows(engine[f])
  BY DEF Knows, StillOurs
<1>2. InStep(engine[f], y)
  BY <1>1 DEF Synced
<1> QED
  BY <1>2 DEF InStep, Claiming

\* What a step of the lock's makes of the engine is not a holder's word.
LEMMA LockCallsInStep ==
  ASSUME TypeOK, TypeOK', SchedInv, Soon, Synced, NEW e \in Engines, ~overtaken',
         Link(e) \/ Open(e) \/ Look(e) \/ Unlink(e)
  PROVE  Synced'
<1>1. PICK s \in Local : s = engine[e]
  BY DEF TypeOK
<1>2. UNCHANGED <<file, failed>>
  BY DEF Link, Open, Look, Unlink, history
<1>3. s.ino = 0
  BY <1>1 DEF Link, Open, Look, Unlink, At, Soon, Timely, Punctual
<1>4. PICK t \in Local : t = engine'[e]
  BY DEF TypeOK
<1>5. Goes(e, t)
  <2>1. PICK u : Goes(e, u)
    BY DEF Link, Open, Look, Unlink
  <2>2. engine'[e] = u
    BY <2>1 DEF Goes, TypeOK
  <2> QED
    BY <1>4, <2>1, <2>2
<1>6. t.ino = 0 \/ t.fresh
  <2>1. \A i \in 0 .. Inodes : Owns(s, i).fresh = TRUE
    BY OwnsFacts
  <2>2. lock.ino \in 0 .. Inodes
    BY LockFields DEF TypeOK
  <2>3. Waived(s).ino = 0
    BY <1>3, WaivedFacts
  <2>4. CASE Link(e)
    <3>1. PICK b : b = (s.pc = "idle" \/ s.ticked)
      OBVIOUS
    <3>2. PICK i : i = Least((1 .. Inodes) \ InUse)
      OBVIOUS
    <3>3. \/ t = [s EXCEPT !.pc = "look", !.ticked = b]
          \/ t = [s EXCEPT !.pc = "open", !.file = i, !.ticked = b]
      BY <1>1, <1>4, <2>4, <3>1, <3>2 DEF Link, Goes, TypeOK
    <3> QED
      BY <1>3, <3>3 DEF Local
  <2>5. CASE Open(e)
    <3>1. t = [s EXCEPT !.pc = "look", !.file = 0] \/ t = Owns(s, lock.ino)
      BY <1>1, <1>4, <2>5 DEF Open, Goes, TypeOK
    <3> QED
      BY <1>3, <2>1, <2>2, <3>1 DEF Local
  <2>6. CASE Look(e)
    <3>1. \/ t = [s EXCEPT !.pc = "unlink", !.file = lock.ino]
          \/ t = Owns(s, lock.ino)
          \/ t = Waived(s)
      BY <1>1, <1>4, <2>6 DEF Look, Goes, TypeOK
    <3> QED
      BY <1>3, <2>1, <2>2, <2>3, <3>1 DEF Local
  <2>7. CASE Unlink(e)
    <3>1. \/ t = [s EXCEPT !.pc = "link", !.attempt = 1, !.file = 0]
          \/ t = Waived(s)
      BY <1>1, <1>4, <2>7 DEF Unlink, Goes, TypeOK
    <3> QED
      BY <1>3, <2>3, <3>1 DEF Local
  <2> QED
    BY <2>4, <2>5, <2>6, <2>7
<1>7. CASE lock'.ino \in {0, lock.ino}
  BY <1>2, <1>5, <1>6, <1>7, SyncedElsewhere
<1>8. CASE lock'.ino \notin {0, lock.ino}
  <2>1. Link(e) /\ lock = NoLock
    BY <1>8 DEF Open, Look, Unlink, Link, NoLock
  <2>2. (1 .. Inodes) \ InUse # {} /\ lock'.ino = Least((1 .. Inodes) \ InUse)
    BY <2>1 DEF Link
  <2>3. lock'.ino \notin InUse
    BY <2>2, LeastIsThere
  <2>4. \A f \in Engines \ {e} : ~Knows(engine[f])'
    BY <1>5, <2>3 DEF InUse, Knows, StillOurs, Goes, TypeOK
  <2>5. ~Knows(t)'
    BY <1>6 DEF Knows, StillOurs
  <2> QED
    BY <1>2, <1>5, <2>4, <2>5, SyncedStep
<1> QED
  BY <1>7, <1>8

LEMMA ProcessInStep ==
  ASSUME TypeOK, SchedInv, Synced, NEW e \in Engines,
         Boot(e) \/ Die(e) \/ Exit(e) \/ Hold(e) \/ Resume(e)
  PROVE  Synced'
<1>1. PICK s \in Local : s = engine[e]
  BY DEF TypeOK
<1>2. UNCHANGED <<file, failed>>
  BY DEF Boot, Die, Exit, Hold, Resume, history
<1>3. CASE Boot(e) \/ Die(e) \/ Exit(e)
  <2>1. PICK t : /\ t \in {Off, [Off EXCEPT !.up = "running", !.pc = "link"]}
                 /\ Goes(e, t)
    BY <1>3 DEF Boot, Die, Exit
  <2>2. t \in Local /\ t.ino = 0
    <3>1. "link" \in Steps
      BY DEF Steps
    <3>2. Off.ino = 0
      BY DEF Off
    <3>3. Off \in Local
      BY OffIsLocal
    <3> QED
      BY <2>1, <3>1, <3>2, <3>3 DEF Local
  <2>3. lock'.ino \in {0, lock.ino}
    <3>1. CASE Boot(e)
      BY <3>1 DEF Boot
    <3>2. CASE Exit(e)
      BY <3>2 DEF Exit, NoLock
    <3>3. CASE Die(e)
      <4>1. PICK by : lock' = IF lock.by = e THEN [lock EXCEPT !.by = by] ELSE lock
        BY <3>3 DEF Die
      <4> QED
        BY <4>1, SchedulesAssumption DEF TypeOK, Locks, NoLock
    <3> QED
      BY <1>3, <3>1, <3>2, <3>3
  <2> QED
    BY <1>2, <2>1, <2>2, <2>3, SyncedElsewhere
<1>4. CASE Hold(e) \/ Resume(e)
  <2>1. PICK up : Goes(e, [s EXCEPT !.up = up])
    BY <1>1, <1>4 DEF Hold, Resume
  <2>2. PICK t : t = [s EXCEPT !.up = up]
    OBVIOUS
  <2>3. /\ t.mem = s.mem /\ t.pc = s.pc /\ t.ino = s.ino /\ t.cur = s.cur
        /\ t.fresh = s.fresh
    BY <2>2 DEF Local
  <2>4. lock' = lock
    BY <1>4 DEF Hold, Resume
  <2>5. \A f \in Engines : engine'[f] = IF f = e THEN t ELSE engine[f]
    BY <2>1, <2>2 DEF Goes, TypeOK
  <2> QED
    BY <1>1, <1>2, <2>3, <2>4, <2>5, SyncedAlike
<1> QED
  BY <1>3, <1>4

\* A holder's turn, which changes neither the file nor whose the lock is.
LEMMA HolderInStep ==
  ASSUME TypeOK, SchedInv, Synced, NEW e \in Engines, NEW t \in Local, Goes(e, t),
         ~overtaken, lock'.ino = lock.ino, file' = file, failed \subseteq failed',
         t.ino = 0 \/ (t.ino = engine[e].ino /\ ~engine[e].fresh),
         Knows(engine[e]) =>
           \A y \in Items \ failed' : InStep(t, y)'
  PROVE  Synced'
<1>1. Knows(t)' => Knows(engine[e])
  BY DEF Knows, StillOurs
<1> QED
  BY <1>1, OthersKnow, SyncedStep

\* What is not being claimed is the file's, in every record that is kept.
LEMMA KeptInStep ==
  ASSUME TypeOK, SchedInv, Synced, ~overtaken, NEW e \in Engines,
         Knows(engine[e]), NEW t \in Local, Kept(engine[e], t),
         NEW y \in Items \ failed, ~Claiming(engine[e], y), file' = file
  PROVE  InStep(t, y)'
<1>1. Agrees(t.mem[y], file[y])
  BY HolderAgrees DEF SchedInv
<1> QED
  BY <1>1 DEF InStep, Agrees

LEMMA HeldHere ==
  ASSUME SchedInv, ~overtaken, NEW e \in Engines, Knows(engine[e]), NEW y \in Items
  PROVE  engine[e].mem[y].there = file[y].there
BY DEF SchedInv, Serial, HolderHolds, Abreast

LEMMA WakeInStep ==
  ASSUME TypeOK, SchedInv, Synced, ~overtaken, NEW e \in Engines, Wake(e)
  PROVE  Synced'
<1>1. PICK s \in Local : s = engine[e] /\ s.fresh = FALSE /\ s.pc = "idle"
  BY NotFresh DEF Wake, At
<1>2. PICK u \in Local : u = [s EXCEPT !.ticked = TRUE]
  BY DEF Local
<1>3. u.mem = s.mem /\ u.ino = s.ino /\ u.fresh = s.fresh
  BY <1>2 DEF Local
<1>4. UNCHANGED <<file, failed, lock>>
  BY DEF Wake, history
<1>5. CASE ~StillOurs(u)
  <2>1. PICK l \in Local : l = Lost(u) /\ l.ino = 0
    BY LostFacts
  <2>2. PICK t : t = [l EXCEPT !.pc = "link"]
    OBVIOUS
  <2>3. t \in Local /\ t.ino = 0
    BY <2>1, <2>2 DEF Local, Steps
  <2>4. Goes(e, t)
    BY <1>1, <1>2, <1>5, <2>1, <2>2 DEF Wake
  <2> QED
    BY <1>4, <2>3, <2>4, SyncedElsewhere
<1>6. CASE StillOurs(u)
  <2>1. PICK t \in Local : t = Passes(u) /\ t.mem = u.mem /\ t.ino = u.ino
    BY PassesFacts DEF TypeOK
  <2>2. Goes(e, t)
    BY <1>1, <1>2, <1>3, <1>6, <2>1 DEF Wake
  <2>3. Kept(s, t) /\ \A y \in Items : ~Claiming(s, y)
    BY <1>1, <1>3, <2>1 DEF Kept, Claiming
  <2> QED
    BY <1>1, <1>3, <1>4, <2>1, <2>2, <2>3, KeptInStep, HolderInStep
<1> QED
  BY <1>5, <1>6

LEMMA ReadInStep ==
  ASSUME TypeOK, SchedInv, Synced, NEW e \in Engines, Read(e)
  PROVE  Synced'
<1>1. PICK s \in Local : s = engine[e]
  BY DEF TypeOK
<1>2. PICK f \in [Items -> Records] : f = file
  BY DEF TypeOK
<1>3. PICK m \in Local : m = [s EXCEPT !.mem = f]
  BY DEF Local
<1>4. PICK u \in Local : u = [m EXCEPT !.fresh = FALSE]
  BY DEF Local
<1>5. u = [engine[e] EXCEPT !.mem = file, !.fresh = FALSE] /\ u.mem = f
  BY <1>1, <1>2, <1>3, <1>4 DEF Local
<1>6. PICK t \in Local : Goes(e, t) /\ Kept(u, t)
  <2>1. Passes(u) \in Local /\ Passes(u).mem = u.mem
    BY PassesFacts DEF TypeOK
  <2>2. Kept(u, Passes(u))
    BY <2>1 DEF Kept
  <2>3. Rests(u) \in Local /\ Kept(u, Rests(u))
    BY RestsFacts
  <2>4. Goes(e, Passes(u)) \/ Goes(e, Rests(u))
    BY <1>5 DEF Read
  <2> QED
    BY <2>1, <2>2, <2>3, <2>4
<1>7. UNCHANGED <<file, failed, lock>>
  BY DEF Read, history
<1>8. \A y \in Items : InStep(t, y)'
  <2> TAKE y \in Items
  <2>1. t.mem[y] = f[y] \/ ~f[y].there
    BY <1>5, <1>6 DEF Kept
  <2> QED
    BY <1>2, <1>7, <2>1 DEF InStep, Agrees
<1> QED
  BY <1>6, <1>7, <1>8, OthersKnow, SyncedStep

LEMMA TurnInStep ==
  ASSUME TypeOK, SchedInv, Synced, ~overtaken, NEW e \in Engines, Turn(e)
  PROVE  Synced'
<1>1. PICK s \in Local : s = engine[e] /\ s.fresh = FALSE /\ s.pc = "pass"
  BY NotFresh DEF Turn, At
<1>2. PICK b \in Local : b = Stamped(s)
  BY StampedFacts
<1>3. /\ b.mem = s.mem /\ b.at = s.at /\ b.todo = s.todo /\ b.ino = s.ino
      /\ b.fresh = s.fresh
  BY <1>2, StampedFacts
<1>4. UNCHANGED <<file, failed>> /\ lock'.ino = lock.ino
  BY StampsType DEF Turn, history
<1>5. \A y \in Items : ~Claiming(s, y)
  BY <1>1 DEF Claiming
<1>6. CASE FoundOut(s)
  <2>1. PICK t \in Local : t = Lost(s) /\ t.ino = 0
    BY LostFacts
  <2>2. Goes(e, t)
    BY <1>1, <1>6, <2>1 DEF Turn
  <2> QED
    BY <1>4, <2>1, <2>2, SyncedElsewhere
<1>7. CASE ~FoundOut(s) /\ s.todo = {} /\ Goes(e, Rests(b))
  <2>1. PICK t \in Local : t = Rests(b) /\ t.ino = b.ino /\ Kept(b, t)
    BY RestsFacts
  <2>2. Kept(s, t)
    BY <1>3, <2>1 DEF Kept
  <2> QED
    BY <1>1, <1>3, <1>4, <1>5, <1>7, <2>1, <2>2, KeptInStep, HolderInStep
<1>8. ASSUME ~FoundOut(s), NEW x \in s.todo,
             Goes(e, IF IsRetried(s.mem[x], s.at)
                     THEN [[b EXCEPT !.todo = @ \ {x}, !.cur = x]
                              EXCEPT !.pc = "deliver"]
                     ELSE Onward([b EXCEPT !.todo = @ \ {x}, !.cur = x]))
      PROVE  Synced'
  <2>1. x \in Items /\ s.todo \ {x} \in SUBSET Items
    BY LocalFields
  <2>2. PICK u : u = [b EXCEPT !.todo = @ \ {x}, !.cur = x]
    OBVIOUS
  <2>3. u \in Local /\ u.mem = s.mem /\ u.ino = s.ino /\ u.fresh = s.fresh
    BY <1>3, <2>1, <2>2 DEF Local
  <2>4. Knows(s) => \A y \in Items \ failed : Agrees(u.mem[y], file[y])
    <3>1. Kept(s, u)
      BY <2>3 DEF Kept
    <3> QED
      BY <1>1, <1>5, <2>3, <3>1, HolderAgrees DEF SchedInv
  <2>5. CASE IsRetried(s.mem[x], s.at)
    <3>1. PICK t : t = [u EXCEPT !.pc = "deliver"]
      OBVIOUS
    <3>2. t \in Local /\ t.mem = s.mem /\ t.ino = s.ino
      <4>1. "deliver" \in Steps
        BY DEF Steps
      <4> QED
        BY <2>3, <3>1, <4>1 DEF Local
    <3>3. Goes(e, t) /\ Kept(s, t)
      BY <1>8, <2>2, <2>5, <3>1, <3>2 DEF Kept
    <3> QED
      BY <1>1, <1>4, <1>5, <3>2, <3>3, KeptInStep, HolderInStep
  <2>6. CASE ~IsRetried(s.mem[x], s.at)
    <3>1. PICK t \in Local : t = Onward(u) /\ t.ino = u.ino
      BY <2>3, OnwardFacts
    <3>2. Goes(e, t)
      BY <1>8, <2>2, <2>6, <3>1
    <3>3. ASSUME Knows(s), NEW y \in Items \ failed PROVE InStep(t, y)'
      <4>1. Agrees(u.mem[y], file[y])'
        BY <1>4, <2>4, <3>3 DEF Agrees
      <4>2. u.mem[y].there = file'[y].there
        BY <1>1, <1>4, <2>3, <3>3, HeldHere
      <4> QED
        BY <2>3, <3>1, <4>1, <4>2, OnwardInStep
    <3> QED
      BY <1>1, <1>4, <2>3, <3>1, <3>2, <3>3, HolderInStep
  <2> QED
    BY <2>5, <2>6
<1> QED
  BY <1>1, <1>2, <1>6, <1>7, <1>8 DEF Turn

LEMMA SaveInStep ==
  ASSUME TypeOK, SchedInv, Synced, ~overtaken, NEW e \in Engines, Save(e)
  PROVE  Synced'
<1>1. PICK s \in Local : s = engine[e] /\ s.fresh = FALSE /\ s.pc = "save"
  BY NotFresh DEF Save, At
<1>2. UNCHANGED <<file, failed, lock>>
  BY DEF Save, history
<1>3. CASE ~StillOurs(s)
  <2>1. PICK t \in Local : t = Lost(s) /\ t.ino = 0
    BY LostFacts
  <2>2. Goes(e, t)
    BY <1>1, <1>3, <2>1 DEF Save
  <2> QED
    BY <1>2, <2>1, <2>2, SyncedElsewhere
<1>4. CASE StillOurs(s)
  <2>1. PICK m \in [Items -> Records] : m = Written(s.mem)
    BY LocalFields, WrittenFacts
  <2>2. PICK t : t = [s EXCEPT !.pc = "rename", !.snap = m]
    OBVIOUS
  <2>3. /\ t \in Local /\ t.pc = "rename" /\ t.mem = s.mem
        /\ t.cur = s.cur /\ t.ino = s.ino
    <3>1. "rename" \in Steps
      BY DEF Steps
    <3> QED
      BY <2>1, <2>2, <3>1 DEF Local
  <2>4. Goes(e, t)
    BY <1>1, <1>4, <2>1, <2>2 DEF Save
  <2>5. ASSUME Knows(s), NEW y \in Items \ failed' PROVE InStep(t, y)'
    <3>1. InStep(s, y)
      BY <1>1, <1>2, <2>5 DEF Synced
    <3> QED
      BY <1>1, <1>2, <2>3, <3>1 DEF InStep, Claiming, Agrees
  <2> QED
    BY <1>1, <1>2, <2>3, <2>4, <2>5, HolderInStep
<1> QED
  BY <1>3, <1>4

\* The claim that the disk did not take stays moved in memory: no more is said
\* of it.
LEMMA SaveFailsInStep ==
  ASSUME TypeOK, SchedInv, Synced, ~overtaken, NEW e \in Engines, SaveFails(e)
  PROVE  Synced'
<1>1. PICK s \in Local : s = engine[e] /\ s.fresh = FALSE /\ s.pc = "save"
  BY NotFresh DEF SaveFails, At
<1>2. UNCHANGED <<file, lock>> /\ failed \subseteq failed'
  BY DEF SaveFails
<1>3. s.mem[s.cur].last.out = "unknown" => s.cur \in failed'
  BY <1>1 DEF SaveFails
<1>4. PICK t \in Local : t = Over(s) /\ t.ino = s.ino /\ Kept(s, t)
  BY OverFacts
<1>5. Goes(e, t)
  BY <1>1, <1>4 DEF SaveFails
<1>6. ASSUME Knows(s), NEW y \in Items \ failed' PROVE InStep(t, y)'
  <2>1. ~Claiming(s, y) /\ y \in Items \ failed
    BY <1>2, <1>3, <1>6 DEF Claiming
  <2> QED
    BY <1>1, <1>2, <1>4, <1>6, <2>1, KeptInStep
<1> QED
  BY <1>1, <1>2, <1>4, <1>5, <1>6, HolderInStep

\* A result says nothing of the cursor; it may end in another claim.
LEMMA AnswerInStep ==
  ASSUME TypeOK, SchedInv, Synced, ~overtaken, NEW e \in Engines,
         DeliverNothing(e) \/ Answer(e)
  PROVE  Synced'
<1>1. PICK s \in Local : s = engine[e] /\ s.fresh = FALSE
                         /\ s.pc \in {"deliver", "typed"}
  <2>1. engine[e].pc \in {"deliver", "typed"}
    BY DEF DeliverNothing, Answer, At
  <2> QED
    BY <2>1, NotFresh
<1>2. UNCHANGED <<file, failed, lock>>
  BY DEF DeliverNothing, Answer, history
<1>3. PICK answer : Goes(e, Attempted(s, answer))
  BY <1>1 DEF DeliverNothing, Answer
<1>4. PICK a : a = Attempted(s, answer)
  OBVIOUS
<1>5. PICK x \in Items, r \in Records : x = s.cur /\ r = s.mem[x]
  BY LocalFields
<1>6. PICK j \in Records : /\ j = Judged(r, answer, s.at)
                           /\ j.on = r.on /\ j.next = r.next /\ j.there = r.there
  BY LocalFields, JudgedFacts, JudgedOn
<1>7. a \in Local /\ a.ino \in {0, s.ino} /\ Ends(s, answer, a, x, r, j)
  BY <1>4, <1>5, <1>6, AttemptedFacts
<1>8. ASSUME Knows(s), NEW y \in Items \ failed' PROVE InStep(a, y)'
  <2>1. StillOurs(s)
    BY <1>8 DEF Knows
  <2>2. \A z \in Items \ failed : Agrees(s.mem[z], file[z])
    <3>1. Kept(s, s) /\ \A z \in Items : ~Claiming(s, z)
      BY <1>1 DEF Kept, Claiming
    <3> QED
      BY <1>1, <1>8, <3>1, HolderAgrees DEF SchedInv
  <2>3. s.mem[y].there = file[y].there
    BY <1>1, <1>8, HeldHere
  <2>4. SUFFICES Agrees(a.mem[y], file[y]) \/ Claiming(a, y)
    BY <1>2, <2>4 DEF InStep, Agrees
  <2>5. Agrees(s.mem[y], file[y]) /\ (y = x => Agrees(j, file[y]))
    BY <1>2, <1>5, <1>6, <1>8, <2>2 DEF Agrees
  <2>6. CASE /\ a.pc \in {"idle", "pass"}
             /\ \A z \in Items \ {x} : \/ a.mem[z] = s.mem[z]
                                       \/ a.mem[z] = Absent /\ ~s.mem[z].there
             /\ a.mem[x] = j \/ (a.mem[x] = Absent /\ ~r.there)
    <3>1. CASE y = x
      BY <1>5, <2>3, <2>5, <2>6, <3>1 DEF Agrees
    <3>2. CASE y # x
      BY <2>3, <2>5, <2>6, <3>2 DEF Agrees
    <3> QED
      BY <3>1, <3>2
  <2>7. CASE /\ a.pc = "save" /\ a.cur = x /\ IsDue(j, s.at)
             /\ a.mem = [s.mem EXCEPT ![x] = Claimed(x, j, s.at)]
    <3>0. IsDue(j, s.at) /\ s.at \in Times
      BY <2>7, LocalFields
    <3>1. PICK c \in Records : c = Claimed(x, j, s.at) /\ c.last.out = "unknown"
      BY <3>0, ClaimedFacts
    <3>2. a.mem[x] = c /\ (y # x => a.mem[y] = s.mem[y])
      BY <2>7, <3>1, LocalFields
    <3> QED
      BY <2>5, <2>7, <3>1, <3>2 DEF Claiming
  <2>8. CASE a.pc = "save" /\ a.cur = x /\ a.mem = [s.mem EXCEPT ![x] = j]
    <3>1. a.mem[x] = j /\ (y # x => a.mem[y] = s.mem[y])
      BY <2>8, LocalFields
    <3> QED
      BY <2>5, <3>1
  <2> QED
    BY <1>7, <2>1, <2>6, <2>7, <2>8 DEF Ends
<1> QED
  BY <1>1, <1>2, <1>3, <1>4, <1>7, <1>8, HolderInStep

LEMMA DeliverInStep ==
  ASSUME TypeOK, SchedInv, Synced, ~overtaken, NEW e \in Engines, Deliver(e)
  PROVE  Synced'
<1>1. PICK s \in Local : s = engine[e] /\ s.fresh = FALSE /\ s.pc = "deliver"
  BY NotFresh DEF Deliver, At
<1>2. UNCHANGED <<file, failed, lock>>
  BY DEF Deliver
<1>3. PICK t : t = [s EXCEPT !.pc = "typed"]
  OBVIOUS
<1>4. t \in Local /\ t.mem = s.mem /\ t.ino = s.ino
  <2>1. "typed" \in Steps
    BY DEF Steps
  <2> QED
    BY <1>3, <2>1 DEF Local
<1>5. Goes(e, t)
  BY <1>1, <1>3 DEF Deliver
<1>6. Kept(s, t) /\ \A y \in Items : ~Claiming(s, y)
  BY <1>1, <1>4 DEF Kept, Claiming
<1> QED
  BY <1>1, <1>2, <1>4, <1>5, <1>6, KeptInStep, HolderInStep

\* What the holder has in memory is written.
LEMMA WritesInStep ==
  ASSUME TypeOK, SchedInv, ~overtaken, NEW e \in Engines, StillOurs(engine[e]),
         NEW t \in Local, Goes(e, t), lock' = lock, failed' = failed, Synced,
         \A y \in Items \ failed : InStep(t, y)'
  PROVE  Synced'
<1>1. \A f \in Engines \ {e} : ~Knows(engine[f])'
  BY OneHolder DEF SchedInv, Goes, TypeOK, Knows, StillOurs
<1> QED
  BY <1>1, SyncedStep

LEMMA RenameInStep ==
  ASSUME TypeOK, SchedInv, Synced, ~overtaken', NEW e \in Engines, Rename(e)
  PROVE  Synced'
<1>1. PICK s \in Local : s = engine[e] /\ s.fresh = FALSE /\ s.pc = "rename"
  BY NotFresh DEF Rename, At
<1>2. s.snap = Written(s.mem)
  BY <1>1 DEF SchedInv, Steady, Sane
<1>3. StillOurs(s) /\ ~overtaken /\ UNCHANGED <<lock, failed>>
  BY <1>1 DEF Rename
<1>4. \A y \in Items : /\ Agrees(s.mem[y], file[y])'
                       /\ s.mem[y].there = file'[y].there
  <2>1. file' = Written(s.mem) /\ s.mem \in [Items -> Records]
    BY <1>1, <1>2, LocalFields DEF Rename
  <2>2. \A y \in Items : /\ s.mem[y].there => file'[y] = s.mem[y]
                         /\ file'[y].there = s.mem[y].there
    BY <2>1, WrittenFacts
  <2> QED
    BY <2>2 DEF Agrees
<1>5. PICK t \in Local : Goes(e, t) /\ \A y \in Items : InStep(t, y)'
  <2>1. PICK u : u = [s EXCEPT !.pc = "deliver", !.snap = NoMap]
    OBVIOUS
  <2>2. u \in Local /\ u.mem = s.mem
    <3>1. "deliver" \in Steps
      BY DEF Steps
    <3> QED
      BY <2>1, <3>1, OffIsLocal DEF Local
  <2>3. \A y \in Items : InStep(u, y)'
    BY <1>4, <2>2 DEF InStep
  <2>4. Onward(s) \in Local
    BY OnwardFacts
  <2>5. \A y \in Items : InStep(Onward(s), y)'
    BY <1>4, OnwardInStep
  <2>6. Goes(e, u) \/ Goes(e, Onward(s))
    BY <1>1, <2>1 DEF Rename
  <2> QED
    BY <2>2, <2>3, <2>4, <2>5, <2>6
<1> QED
  BY <1>1, <1>3, <1>5, WritesInStep

LEMMA EditInStep ==
  ASSUME TypeOK, SchedInv, Synced, ~overtaken, "early" \notin Faults,
         NEW e \in Engines, NEW x \in Items,
         NEW op \in {"remove", "pause", "resume"}, Edit(e, x, op)
  PROVE  Synced'
<1>1. PICK s \in Local : s = engine[e] /\ s.fresh = FALSE
  <2>1. engine[e] \in Local
    BY DEF TypeOK
  <2> QED
    BY <2>1, LocalFields DEF Edit
<1>2. PICK n \in Records : n = Edited(x, s.mem[x], op)
  BY LocalFields, EditedFacts DEF TypeOK
<1>3. PICK m \in [Items -> Records] : m = [s.mem EXCEPT ![x] = n]
  BY LocalFields
<1>4. PICK t \in Local : t = [s EXCEPT !.mem = m]
  BY DEF Local
<1>5. t = [s EXCEPT !.mem[x] = Edited(x, @, op)] /\ t.mem = m
  BY <1>2, <1>3, <1>4 DEF Local
<1>6. UNCHANGED <<lock, failed>>
  BY DEF Edit
<1>7. CASE StillOurs(s)
  <2>1. Goes(e, t) /\ file' = Written(m)
    BY <1>1, <1>5, <1>7 DEF Edit
  <2>2. \A y \in Items : InStep(t, y)'
    BY <1>5, <2>1, WrittenFacts DEF InStep, Agrees
  <2> QED
    BY <1>1, <1>6, <1>7, <2>1, <2>2, WritesInStep
<1>8. CASE ~StillOurs(s)
  <2>1. PICK q \in {s, t} : Goes(e, [q EXCEPT !.ino = 0, !.fresh = FALSE])
    BY <1>1, <1>5, <1>8 DEF Edit
  <2>2. PICK u : u = [q EXCEPT !.ino = 0, !.fresh = FALSE]
    OBVIOUS
  <2>3. u \in Local /\ u.ino = 0
    <3>1. 0 \in 0 .. Inodes
      BY SchedulesAssumption
    <3> QED
      BY <2>1, <2>2, <3>1 DEF Local
  <2>4. file' = file
    BY <1>1, <1>8 DEF Edit
  <2> QED
    BY <1>6, <2>1, <2>2, <2>3, <2>4, SyncedElsewhere
<1> QED
  BY <1>7, <1>8

\* The clock's step leaves everyone where he was.
LEMMA TickLeaves ==
  ASSUME TypeOK, Tick
  PROVE  /\ \A f \in Engines :
              /\ engine'[f].mem = engine[f].mem /\ engine'[f].pc = engine[f].pc
              /\ engine'[f].ino = engine[f].ino /\ engine'[f].cur = engine[f].cur
              /\ engine'[f].fresh = engine[f].fresh
              /\ engine'[f].up = engine[f].up
              /\ engine'[f].attempt = engine[f].attempt
              /\ engine'[f].file = engine[f].file
              /\ engine'[f].ticked = FALSE
         /\ lock'.ino = lock.ino /\ lock'.by = lock.by
<1>1. ASSUME NEW f \in Engines
      PROVE  /\ engine'[f].mem = engine[f].mem /\ engine'[f].pc = engine[f].pc
             /\ engine'[f].ino = engine[f].ino /\ engine'[f].cur = engine[f].cur
             /\ engine'[f].fresh = engine[f].fresh
             /\ engine'[f].up = engine[f].up
             /\ engine'[f].attempt = engine[f].attempt
             /\ engine'[f].file = engine[f].file
             /\ engine'[f].ticked = FALSE
  <2>1. PICK s \in Local : s = engine[f]
    BY DEF TypeOK
  <2>2. PICK b : engine'[f] = [s EXCEPT !.ticked = FALSE, !.beat = b]
    BY <2>1 DEF Tick
  <2> QED
    BY <2>1, <2>2 DEF Local
<1>2. lock'.ino = lock.ino /\ lock'.by = lock.by
  <2>1. CASE lock = NoLock
    BY <2>1 DEF Tick
  <2>2. CASE lock # NoLock
    <3>1. lock \in [ino : 1 .. Inodes, by : Engines \cup {"gone", "other"},
                    age : 0 .. LOCK_STALE + 1]
      BY <2>2 DEF TypeOK, Locks
    <3>2. PICK a : lock' = [lock EXCEPT !.age = a]
      BY <2>2 DEF Tick
    <3> QED
      BY <3>1, <3>2
  <2> QED
    BY <2>1, <2>2
<1> QED
  BY <1>1, <1>2

LEMMA SyncedKeeps ==
  ASSUME TypeOK, TypeOK', SchedInv, Soon, Synced, "early" \notin Faults,
         [Next]_vars, ~overtaken, ~overtaken'
  PROVE  Synced'
<1>1. ASSUME NEW e \in Engines, Moves(e) PROVE Synced'
  BY <1>1, WakeInStep, LockCallsInStep, ReadInStep, TurnInStep, SaveInStep,
     RenameInStep, AnswerInStep, DeliverInStep DEF Moves
<1>2. ASSUME NEW e \in Engines,
             SaveFails(e) \/ Boot(e) \/ Die(e) \/ Exit(e) \/ Hold(e) \/ Resume(e)
      PROVE  Synced'
  BY <1>2, SaveFailsInStep, ProcessInStep
<1>3. ASSUME UNCHANGED vars \/ \E y \in Items : PaneCloses(y) \/ PaneOpens(y)
      PROVE  Synced'
  <2>1. UNCHANGED <<engine, lock, file, failed>>
    BY <1>3 DEF vars, history, PaneCloses, PaneOpens
  <2> QED
    BY <2>1, SyncedAlike
<1>4. ASSUME NEW e \in Engines, NEW x \in Items,
             NEW op \in {"remove", "pause", "resume"}, Edit(e, x, op)
      PROVE  Synced'
  BY <1>4, EditInStep
<1>5. ASSUME Tick PROVE Synced'
  <2>1. UNCHANGED <<file, failed>>
    BY <1>5 DEF Tick
  <2> QED
    BY <1>5, <2>1, TickLeaves, SyncedAlike
<1> QED
  BY <1>1, <1>2, <1>3, <1>4, <1>5 DEF Next

\* A step of a pass: no call of the lock's, and none the less of the tick.
Walks(s, t) == /\ t.up = s.up /\ t.ticked = s.ticked
               /\ t.attempt \in {0, s.attempt} /\ t.pc \notin Calls
               /\ StillOurs(s) => t.ino = s.ino

LEMMA KeptSpared ==
  ASSUME NEW s, NEW t, Kept(s, t), NEW y \in Items, Spared(s, y)
  PROVE  Spared(t, y)
BY DEF Kept, Spared, Absent

LEMMA RestsDiligent ==
  ASSUME NEW s \in Local, NEW t, t = Rests(s)
  PROVE  /\ Walks(s, t) /\ t.attempt = 0
         /\ \A y \in Items : (s.ticked => Spared(s, y)) => Diligent(t, y)
<1>1. PICK m \in [Items -> Records] : m = Written(s.mem)
  BY LocalFields, WrittenFacts
<1>2. t = [s EXCEPT !.pc = "idle", !.attempt = 0, !.file = 0, !.at = 0,
                    !.todo = {}, !.cur = SomeItem, !.snap = NoMap, !.mem = m]
  BY <1>1 DEF Rests
<1>3. /\ t.up = s.up /\ t.ticked = s.ticked /\ t.attempt = 0 /\ t.pc = "idle"
      /\ t.ino = s.ino
  BY <1>2 DEF Local
<1>4. Kept(s, t)
  BY RestsFacts
<1> QED
  BY <1>3, <1>4, KeptSpared DEF Walks, Calls, Diligent, Busy

LEMMA LostDiligent ==
  ASSUME NEW s \in Local, NEW t, t = Lost(s)
  PROVE  /\ t.attempt = 0 /\ t.up = s.up /\ t.pc = "idle" /\ t.ticked = s.ticked
         /\ t.ino = 0 /\ t.fresh = FALSE
         /\ \A y \in Items : Diligent(t, y)
<1>1. PICK r \in Local : r = Rests(s)
  BY RestsFacts
<1>2. t = [r EXCEPT !.ino = 0, !.fresh = FALSE, !.beat = 0]
  BY <1>1 DEF Lost
<1>3. r.attempt = 0 /\ r.up = s.up /\ r.pc = "idle" /\ r.ticked = s.ticked
  BY <1>1, RestsDiligent, RestsFacts DEF Walks
<1>4. /\ t.attempt = 0 /\ t.up = s.up /\ t.pc = "idle" /\ t.ino = 0
      /\ t.fresh = FALSE /\ t.ticked = s.ticked
  BY <1>2, <1>3 DEF Local
<1> QED
  BY <1>4 DEF Diligent, Busy

LEMMA OverDiligent ==
  ASSUME NEW s \in Local, NEW t, t = Over(s)
  PROVE  /\ Walks(s, t)
         /\ \A y \in Items :
              (s.ticked => Spared(s, y) \/ y \in s.todo) => Diligent(t, y)
<1>1. CASE s.todo = {}
  <2>1. t = Rests(s)
    BY <1>1 DEF Over
  <2> QED
    BY <1>1, <2>1, RestsDiligent
<1>2. CASE s.todo # {}
  <2>1. t = [s EXCEPT !.pc = "pass", !.snap = NoMap, !.cur = SomeItem]
    BY <1>2 DEF Over
  <2>2. /\ t.pc = "pass" /\ t.ticked = s.ticked /\ t.up = s.up /\ t.ino = s.ino
        /\ t.attempt = s.attempt /\ t.mem = s.mem /\ t.todo = s.todo
    BY <2>1 DEF Local
  <2> QED
    BY <2>2 DEF Walks, Calls, Diligent, Spared
<1> QED
  BY <1>1, <1>2

LEMMA OnwardDiligent ==
  ASSUME NEW s \in Local, NEW t, t = Onward(s), s.ticked => s.at = now
  PROVE  /\ Walks(s, t)
         /\ \A y \in Items :
              (s.ticked => Spared(s, y) \/ y \in s.todo \/ y = s.cur)
                => Diligent(t, y)
<1>1. CASE ~IsDue(s.mem[s.cur], s.at)
  <2>1. t = Over(s)
    BY <1>1 DEF Onward
  <2>2. s.ticked => Spared(s, s.cur)
    BY <1>1 DEF Spared
  <2> QED
    BY <2>1, <2>2, OverDiligent
<1>2. CASE IsDue(s.mem[s.cur], s.at)
  <2>1. PICK x \in Items : x = s.cur
    BY LocalFields
  <2>2. PICK c \in Records : c = Claimed(x, s.mem[x], s.at)
    BY <1>2, <2>1, LocalFields, ClaimedFacts
  <2>3. PICK m \in [Items -> Records] : m = [s.mem EXCEPT ![x] = c]
    BY LocalFields
  <2>4. t = [s EXCEPT !.pc = "save", !.snap = NoMap, !.mem = m]
    BY <1>2, <2>1, <2>2, <2>3 DEF Onward, Local
  <2>5. /\ t.pc = "save" /\ t.ticked = s.ticked /\ t.up = s.up /\ t.ino = s.ino
        /\ t.attempt = s.attempt /\ t.mem = m /\ t.todo = s.todo /\ t.cur = x
    BY <2>1, <2>4 DEF Local
  <2>6. \A y \in Items \ {x} : m[y] = s.mem[y]
    BY <2>3, LocalFields
  <2> QED
    BY <2>1, <2>5, <2>6 DEF Walks, Calls, Diligent, Spared
<1> QED
  BY <1>1, <1>2

\* What an attempt leaves says nothing of the cursor.
LEMMA AttemptedDiligent ==
  ASSUME NEW s \in Local, NEW answer, NEW t, t = Attempted(s, answer),
         s.pc \in {"deliver", "typed"}, s.ticked => s.at = now, s.attempt = 0
  PROVE  /\ Walks(s, t)
         /\ \A y \in Items : Diligent(s, y) => Diligent(t, y)
<1>1. PICK x \in Items, r \in Records : x = s.cur /\ r = s.mem[x]
  BY LocalFields
<1>2. PICK j \in Records : /\ j = Judged(r, answer, s.at)
                           /\ j.on = r.on /\ j.next = r.next /\ j.there = r.there
  BY LocalFields, JudgedFacts, JudgedOn
<1>3. PICK m \in [Items -> Records] : m = [s.mem EXCEPT ![x] = j]
  BY LocalFields
<1>4. PICK u \in Local : u = [s EXCEPT !.mem = m]
  BY DEF Local
<1>5. u = [s EXCEPT !.mem[s.cur] = Judged(s.mem[s.cur], answer, s.at)]
  BY <1>1, <1>2, <1>3, <1>4 DEF Local
<1>6. /\ u.mem = m /\ u.at = s.at /\ u.todo = s.todo /\ u.ticked = s.ticked
      /\ u.ino = s.ino /\ u.pc = s.pc /\ u.cur = x /\ u.up = s.up
      /\ u.attempt = s.attempt
  BY <1>1, <1>4 DEF Local
<1>7. \A y \in Items : Spared(s, y) => Spared(u, y)
  <2>1. m[x] = j /\ \A y \in Items \ {x} : m[y] = s.mem[y]
    BY <1>3, LocalFields
  <2> QED
    BY <1>1, <1>2, <1>6, <2>1 DEF Spared, IsDue
<1>8. \A y \in Items : Diligent(s, y) =>
                       (u.ticked => Spared(u, y) \/ y \in u.todo \/ y = u.cur)
  BY <1>1, <1>6, <1>7 DEF Diligent, Busy
<1>9. CASE ~StillOurs(s)
  <2>1. t = Lost(s)
    BY <1>9 DEF Attempted
  <2> QED
    BY <1>9, <2>1, LostDiligent DEF Walks, Calls
<1>10. CASE StillOurs(s) /\ Quiet(r, answer, s.at)
  <2>1. t = Onward(u)
    BY <1>1, <1>5, <1>10 DEF Attempted
  <2>2. u.ticked => u.at = now
    BY <1>6
  <2>3. /\ Walks(u, t)
        /\ \A y \in Items : (u.ticked => Spared(u, y) \/ y \in u.todo \/ y = u.cur)
                => Diligent(t, y)
    BY <2>1, <2>2, OnwardDiligent
  <2> QED
    BY <1>6, <1>8, <2>3 DEF Walks, StillOurs
<1>11. CASE StillOurs(s) /\ ~Quiet(r, answer, s.at)
  <2>1. t = [u EXCEPT !.pc = "save"]
    BY <1>1, <1>5, <1>11 DEF Attempted
  <2>2. /\ t.pc = "save" /\ t.mem = u.mem /\ t.todo = u.todo /\ t.cur = u.cur
        /\ t.ticked = u.ticked /\ t.up = u.up /\ t.ino = u.ino
        /\ t.attempt = u.attempt
    BY <2>1 DEF Local
  <2>3. Walks(s, t)
    BY <1>6, <2>2 DEF Walks, Calls
  <2>4. \A y \in Items : Diligent(s, y) => Diligent(t, y)
    BY <1>8, <2>2 DEF Diligent, Spared
  <2> QED
    BY <2>3, <2>4
<1> QED
  BY <1>9, <1>10, <1>11

\* The lock stays as it is, or its holder stamps it.
StampsIt(e) == /\ StillOurs(engine[e]) /\ Runs(e)
               /\ lock'.ino = lock.ino /\ lock'.by = e /\ lock'.age = 0

\* What a step of one engine has to leave, when nothing else is touched.
LEMMA CalmStep ==
  ASSUME TypeOK, TypeOK', NEW y \in Items, Calm(y), NEW e \in Engines,
         NEW t \in Local, Goes(e, t), UNCHANGED <<now, faults, overlooked>>,
         lock' = lock \/ StampsIt(e),
         t.up = engine[e].up \/ t.up = "running",
         t.ticked => t.up = "running",
         lock # NoLock /\ Claims(engine[e], lock.ino) => Claims(t, lock.ino),
         Diligent(t, y),
         t.pc = "unlink" /\ Safe => t.file # lock.ino,
         t.ticked /\ t.attempt = 1 =>
            /\ t.pc # "unlink"
            /\ Safe \/ (lock = NoLock /\ t.pc = "link"),
         lock = NoLock => \/ t.pc = "link" \/ ~t.ticked
                          \/ engine[e].pc # "link" /\ engine[e].ticked,
         Left(y) /\ t.ticked =>
            \/ Claims(t, lock.ino)
            \/ t.pc \in {"link", "look", "unlink"} /\ t.attempt = 0
            \/ t.pc = "idle" /\ lock.age <= LOCK_STALE
  PROVE  Calm(y)'
<1>1. engine'[e] = t /\ \A f \in Engines \ {e} : engine'[f] = engine[f]
  BY DEF Goes, TypeOK
<1>2. /\ lock.ino = 0 <=> lock = NoLock
      /\ lock'.ino = 0 <=> lock' = NoLock
      /\ lock'.ino = lock.ino
      /\ lock # NoLock => lock.ino \in 1 .. Inodes
  <2>1. lock.ino = 0 <=> lock = NoLock
    BY LockFields DEF TypeOK
  <2>2. lock' \in Locks
    BY DEF TypeOK
  <2>3. lock'.ino = 0 <=> lock' = NoLock
    BY <2>2, SchedulesAssumption DEF Locks, NoLock
  <2>4. lock # NoLock => lock.ino \in 1 .. Inodes
    BY LockFields DEF TypeOK
  <2> QED
    BY <2>1, <2>3, <2>4 DEF StampsIt
<1>3. StampsIt(e) => lock # NoLock /\ Claims(t, lock.ino) /\ t.up = "running"
  BY <1>2 DEF StampsIt, StillOurs, Claims, Runs
<1>4. \A f \in Engines : Runs(f) => Runs(f)'
  BY <1>1 DEF Runs
<1>5. \A f \in Engines : lock # NoLock /\ Claims(engine[f], lock.ino)
                           => Claims(engine'[f], lock'.ino)
  BY <1>1, <1>2
<1>6. Safe => Safe'
  <2> SUFFICES ASSUME Safe PROVE Safe'
    OBVIOUS
  <2>1. PICK g \in Engines : lock.by = g /\ Runs(g) /\ Claims(engine[g], lock.ino)
    BY DEF Safe
  <2>2. lock' # NoLock /\ lock'.age <= LOCK_STALE
    BY <1>2, SchedulesAssumption DEF Safe, StampsIt
  <2>3. \E h \in Engines : lock'.by = h /\ Runs(h)' /\ Claims(engine'[h], lock'.ino)
    <3>1. CASE lock' = lock
      <4>1. lock'.by = g /\ Runs(g)' /\ Claims(engine'[g], lock'.ino)
        BY <1>4, <1>5, <2>1, <3>1 DEF Safe
      <4> QED
        BY <4>1
    <3>2. CASE StampsIt(e)
      <4>1. lock'.by = e /\ Runs(e)' /\ Claims(engine'[e], lock'.ino)
        BY <1>1, <1>2, <1>3, <3>2 DEF StampsIt, Runs
      <4> QED
        BY <4>1
    <3> QED
      BY <3>1, <3>2
  <2>4. \A k \in Engines : engine'[k].pc = "unlink" => engine'[k].file # lock'.ino
    BY <1>1, <1>2 DEF Safe
  <2> QED
    BY <2>2, <2>3, <2>4 DEF Safe
<1>7. \A f \in Engines : engine'[f].ticked => Runs(f)'
  BY <1>1 DEF Calm, Runs
<1>8. \A f \in Engines : Diligent(engine[f], y)'
  <2> TAKE f \in Engines
  <2>1. Diligent(engine'[f], y)
    BY <1>1 DEF Calm
  <2>2. PICK u : u = engine'[f]
    OBVIOUS
  <2>3. Diligent(u, y)'
    BY <2>1, <2>2 DEF Diligent, Spared
  <2> QED
    BY <2>2, <2>3 DEF Diligent, Spared
<1>9. SecondGo'
  <2> SUFFICES ASSUME NEW h \in Engines, engine'[h].ticked, engine'[h].attempt = 1
               PROVE  /\ engine'[h].pc # "unlink"
                      /\ Safe' \/ (lock' = NoLock /\ engine'[h].pc = "link")
    BY DEF SecondGo
  <2>1. /\ engine'[h].pc # "unlink"
        /\ Safe \/ (lock = NoLock /\ engine'[h].pc = "link")
    BY <1>1 DEF Calm, SecondGo
  <2> QED
    BY <1>2, <1>6, <2>1
<1>10. Owned' \/ Free' \/ Left(y)'
  <2>1. CASE Owned
    <3>1. PICK g \in Engines : Runs(g) /\ Claims(engine[g], lock.ino)
      BY <2>1 DEF Owned
    <3>2. lock # NoLock /\ lock' # NoLock
      BY <1>2, <2>1 DEF Owned
    <3>3. Runs(g)' /\ Claims(engine'[g], lock'.ino)
      BY <1>4, <1>5, <3>1, <3>2
    <3> QED
      BY <3>2, <3>3 DEF Owned
  <2>2. CASE StampsIt(e) \/ (lock # NoLock /\ t.up = "running" /\ Claims(t, lock.ino))
    <3>1. lock' # NoLock /\ Runs(e)' /\ Claims(engine'[e], lock'.ino)
      BY <1>1, <1>2, <1>3, <2>2 DEF Runs
    <3> QED
      BY <3>1 DEF Owned
  <2>3. CASE Free /\ lock' = lock
    <3>1. PICK h \in Engines : /\ Runs(h)
                               /\ engine[h].pc = "link" \/ ~engine[h].ticked
      BY <2>3 DEF Free
    <3>2. Runs(h)' /\ (engine'[h].pc = "link" \/ ~engine'[h].ticked)
      BY <1>1, <1>4, <2>3, <3>1 DEF Free
    <3> QED
      BY <2>3, <3>2 DEF Free
  <2>4. CASE Left(y) /\ lock' = lock /\ ~(t.up = "running" /\ Claims(t, lock.ino))
    <3>1. ASSUME NEW f \in Engines, Runs(f)', engine'[f].ticked
          PROVE  \/ engine'[f].pc \in {"link", "look", "unlink"} /\ engine'[f].attempt = 0
                 \/ engine'[f].pc = "idle" /\ lock'.age <= LOCK_STALE
      <4>1. CASE f = e
        BY <1>1, <2>4, <3>1, <4>1
      <4>2. CASE f # e
        <5>1. Runs(f) /\ engine[f].ticked
          BY <1>1, <3>1, <4>2 DEF Runs
        <5> QED
          BY <1>1, <2>4, <4>2, <5>1 DEF Left
      <4> QED
        BY <4>1, <4>2
    <3>2. lock' # NoLock /\ overlooked'[y] <= Span * faults' + lock'.age
      BY <2>4 DEF Left, Span
    <3> QED
      BY <3>1, <3>2 DEF Left, Span
  <2>5. lock = NoLock => ~Left(y)
    BY DEF Left
  <2> QED
    BY <2>1, <2>2, <2>3, <2>4, <2>5 DEF Calm
<1> QED
  BY <1>7, <1>8, <1>9, <1>10 DEF Calm

\* A step that is no call of the lock's.
LEMMA InsideCalm ==
  ASSUME TypeOK, TypeOK', NEW y \in Items, Calm(y), NEW e \in Engines,
         NEW t \in Local, Goes(e, t), UNCHANGED <<now, faults, overlooked>>,
         engine[e].pc \notin Calls, t.pc \notin Calls, t.attempt = 0,
         StillOurs(engine[e]) => t.ino = engine[e].ino,
         t.up = engine[e].up \/ t.up = "running",
         t.ticked => t.up = "running",
         Diligent(t, y),
         \/ lock' = lock /\ t.ticked = engine[e].ticked
         \/ StampsIt(e)
         \/ lock' = lock /\ StillOurs(engine[e]) /\ Runs(e),
         engine[e].pc = "idle" => t.pc = "idle" \/ StillOurs(engine[e])
  PROVE  Calm(y)'
<1>1. lock # NoLock => lock.ino \in 1 .. Inodes
  BY LockFields DEF TypeOK
<1>2. Claims(engine[e], lock.ino) /\ lock # NoLock => StillOurs(engine[e])
  BY <1>1 DEF Claims, StillOurs, Calls
<1>3. StillOurs(engine[e]) => Claims(t, lock.ino) /\ lock # NoLock
  BY DEF StillOurs, Claims, NoLock
<1>4. lock = NoLock => ~StampsIt(e)
  BY <1>3 DEF StampsIt
<1>5. ASSUME Left(y), t.ticked
      PROVE  \/ Claims(t, lock.ino)
             \/ t.pc = "idle" /\ lock.age <= LOCK_STALE
  <2>1. CASE StillOurs(engine[e])
    BY <1>3, <2>1
  <2>2. CASE ~StillOurs(engine[e])
    <3>1. engine[e].ticked
      BY <1>5, <2>2 DEF StampsIt
    <3>2. engine[e].pc = "idle" /\ lock.age <= LOCK_STALE
      BY <1>5, <3>1 DEF Left, Calm, Calls
    <3> QED
      BY <2>2, <3>2
  <2> QED
    BY <2>1, <2>2
<1>6. t.pc \notin {"unlink", "link"} /\ engine[e].pc # "link" /\ t.attempt # 1
  BY DEF Calls
<1>7. lock # NoLock /\ Claims(engine[e], lock.ino) => Claims(t, lock.ino)
  BY <1>2, <1>3
<1>8. lock = NoLock => ~t.ticked \/ (engine[e].pc # "link" /\ engine[e].ticked)
  BY <1>3, <1>4, <1>6
<1> QED
  BY <1>5, <1>6, <1>7, <1>8, CalmStep

StaysCalm == /\ FirstGoes'
             /\ ~overtaken' => \A y \in Items : Calm(y) => Calm(y)'

LEMMA FirstGoStep ==
  ASSUME TypeOK, FirstGoes, NEW e \in Engines, NEW t, Goes(e, t), FirstGo(t)
  PROVE  FirstGoes'
BY DEF FirstGoes, Goes, TypeOK

LEMMA WakeCalm ==
  ASSUME TypeOK, TypeOK', SchedInv, FirstGoes, NEW e \in Engines, Wake(e)
  PROVE  StaysCalm
<1>1. PICK s \in Local : s = engine[e] /\ s.fresh = FALSE /\ s.pc = "idle"
                         /\ s.up = "running" /\ s.ticked = FALSE
  <2>1. engine[e] \in Local /\ engine[e].fresh = FALSE
    BY NotFresh DEF Wake, At
  <2> QED
    BY <2>1, LocalFields DEF Wake, At
<1>2. PICK u \in Local : u = [s EXCEPT !.ticked = TRUE]
  BY DEF Local
<1>3. /\ u.mem = s.mem /\ u.ino = s.ino /\ u.fresh = s.fresh /\ u.up = s.up
      /\ u.attempt = 0 /\ u.ticked = TRUE
  <2>1. s.attempt = 0
    BY <1>1 DEF FirstGoes, FirstGo, Calls
  <2> QED
    BY <1>2, <2>1 DEF Local
<1>4. UNCHANGED <<now, lock, faults, overlooked>>
  BY DEF Wake, history
<1>5. CASE ~StillOurs(u)
  <2>0. PICK l \in Local : l = Lost(u)
    BY LostFacts
  <2>1. l.ino = 0 /\ l.attempt = 0 /\ l.up = u.up
    BY <2>0, LostDiligent
  <2>2. PICK t : t = [l EXCEPT !.pc = "link"]
    OBVIOUS
  <2>3. t \in Local /\ t.ino = 0 /\ t.pc = "link" /\ t.attempt = 0 /\ t.up = "running"
    BY <1>1, <1>3, <2>1, <2>2 DEF Local, Steps
  <2>4. Goes(e, t)
    BY <1>1, <1>2, <1>5, <2>0, <2>2 DEF Wake
  <2>5. FirstGo(t) /\ \A y \in Items : Diligent(t, y)
    BY <2>3 DEF FirstGo, Diligent, Busy, Calls
  <2>6. ~(lock # NoLock /\ Claims(s, lock.ino))
    <3>1. lock # NoLock => lock.ino # 0
      BY LockFields DEF TypeOK
    <3> QED
      BY <1>1, <1>3, <1>5, <3>1 DEF Claims, StillOurs
  <2>7. \A y \in Items : Calm(y) => Calm(y)'
    BY <1>1, <1>4, <2>3, <2>4, <2>5, <2>6, CalmStep
  <2> QED
    BY <2>4, <2>5, <2>7, FirstGoStep DEF StaysCalm
<1>6. CASE StillOurs(u)
  <2>1. PICK t \in Local : /\ t = Passes(u) /\ t.mem = u.mem /\ t.ino = u.ino
                           /\ t.pc = "pass"
    BY PassesFacts DEF TypeOK
  <2>2. /\ t.up = "running" /\ t.attempt = 0
        /\ t.todo = {y \in Items : s.mem[y].there}
    BY <1>1, <1>3, <2>1 DEF Passes, Local
  <2>3. Goes(e, t)
    BY <1>1, <1>2, <1>3, <1>6, <2>1 DEF Wake
  <2>4. FirstGo(t) /\ \A y \in Items : Diligent(t, y)
    BY <1>3, <2>1, <2>2 DEF FirstGo, Diligent, Spared
  <2>5. StillOurs(s) /\ Runs(e)
    BY <1>1, <1>3, <1>6 DEF StillOurs, Runs
  <2>6. s.pc \notin Calls /\ t.pc \notin Calls
    BY <1>1, <2>1 DEF Calls
  <2>7. \A y \in Items : Calm(y) => Calm(y)'
    BY <1>1, <1>3, <1>4, <2>1, <2>2, <2>3, <2>4, <2>5, <2>6, InsideCalm
  <2> QED
    BY <2>3, <2>4, <2>7, FirstGoStep DEF StaysCalm
<1> QED
  BY <1>5, <1>6

\* A step of a pass, whether or not it stamps the lock.
LEMMA WalkCalm ==
  ASSUME TypeOK, TypeOK', FirstGoes, NEW e \in Engines, NEW s \in Local,
         s = engine[e], s.up = "running", s.pc \notin Calls, s.pc # "idle",
         NEW t \in Local, Goes(e, t), Walks(s, t),
         UNCHANGED <<now, faults, overlooked>>, lock' = lock \/ StampsIt(e),
         \A y \in Items : Calm(y) => Diligent(t, y)
  PROVE  StaysCalm
<1>1. s.attempt = 0
  BY DEF FirstGoes, FirstGo
<1>2. t.attempt = 0 /\ t.up = "running" /\ t.pc \notin Calls /\ t.ticked = s.ticked
  BY <1>1 DEF Walks
<1>3. FirstGo(t)
  BY <1>2 DEF FirstGo, Calls
<1>4. \A y \in Items : Calm(y) => Calm(y)'
  BY <1>2, InsideCalm DEF Walks
<1> QED
  BY <1>3, <1>4, FirstGoStep DEF StaysCalm

LEMMA ReadCalm ==
  ASSUME TypeOK, TypeOK', FirstGoes, NEW e \in Engines, Read(e)
  PROVE  StaysCalm
<1>1. PICK s \in Local : s = engine[e] /\ s.pc = "read" /\ s.up = "running"
  <2>1. engine[e] \in Local
    BY DEF TypeOK
  <2> QED
    BY <2>1 DEF Read, At
<1>2. PICK f \in [Items -> Records] : f = file
  BY DEF TypeOK
<1>3. PICK m \in Local : m = [s EXCEPT !.mem = f]
  BY DEF Local
<1>4. PICK u \in Local : u = [m EXCEPT !.fresh = FALSE]
  BY DEF Local
<1>5. /\ u = [engine[e] EXCEPT !.mem = file, !.fresh = FALSE]
      /\ u.up = s.up /\ u.ticked = s.ticked /\ u.attempt = s.attempt /\ u.ino = s.ino
  BY <1>1, <1>2, <1>3, <1>4 DEF Local
<1>6. PICK t \in Local : /\ Goes(e, t) /\ Walks(u, t)
                         /\ \A y \in Items : Diligent(t, y)
  <2>1. CASE u.ticked
    <3>1. PICK t \in Local : t = Passes(u) /\ t.pc = "pass" /\ t.ino = u.ino
                             /\ t.mem = u.mem
      BY PassesFacts DEF TypeOK
    <3>2. /\ t.todo = {y \in Items : u.mem[y].there} /\ t.up = u.up
          /\ t.ticked = u.ticked /\ t.attempt = u.attempt
      BY <3>1 DEF Passes, Local
    <3>3. Goes(e, t)
      BY <1>5, <2>1, <3>1 DEF Read
    <3>4. Walks(u, t) /\ \A y \in Items : Diligent(t, y)
      BY <3>1, <3>2 DEF Walks, Calls, Diligent, Spared
    <3> QED
      BY <3>3, <3>4
  <2>2. CASE ~u.ticked
    <3>1. PICK t \in Local : t = Rests(u)
      BY RestsFacts
    <3>2. Walks(u, t) /\ \A y \in Items : Diligent(t, y)
      BY <2>2, <3>1, RestsDiligent
    <3>3. Goes(e, t)
      BY <1>5, <2>2, <3>1 DEF Read
    <3> QED
      BY <3>2, <3>3
  <2> QED
    BY <2>1, <2>2
<1>7. Walks(s, t)
  BY <1>5, <1>6 DEF Walks, StillOurs
<1>8. UNCHANGED <<now, lock, faults, overlooked>>
  BY DEF Read, history
<1>9. s.pc \notin Calls /\ s.pc # "idle"
  BY <1>1 DEF Calls
<1> QED
  BY <1>1, <1>6, <1>7, <1>8, <1>9, WalkCalm

LEMMA TurnCalm ==
  ASSUME TypeOK, TypeOK', Soon, FirstGoes, NEW e \in Engines, Turn(e)
  PROVE  StaysCalm
<1>1. PICK s \in Local : s = engine[e] /\ s.pc = "pass" /\ s.up = "running"
  <2>1. engine[e] \in Local
    BY DEF TypeOK
  <2> QED
    BY <2>1 DEF Turn, At
<1>2. s.ticked => s.at = now
  BY <1>1 DEF Soon, Timely, Punctual, Busy
<1>3. PICK b \in Local : b = Stamped(s)
  BY StampedFacts
<1>4. /\ b.mem = s.mem /\ b.at = s.at /\ b.todo = s.todo /\ b.ino = s.ino
      /\ b.ticked = s.ticked /\ b.up = s.up /\ b.attempt = s.attempt /\ b.pc = s.pc
  <2>1. /\ b.mem = s.mem /\ b.at = s.at /\ b.todo = s.todo /\ b.ino = s.ino
        /\ b.up = s.up /\ b.pc = s.pc
    BY <1>3, StampedFacts
  <2>2. b.ticked = s.ticked /\ b.attempt = s.attempt
    BY <1>3 DEF Stamped, Local
  <2> QED
    BY <2>1, <2>2
<1>5. \A y \in Items : Calm(y) => (s.ticked => Spared(s, y) \/ y \in s.todo)
  BY <1>1 DEF Calm, Diligent, Busy
<1>6. PICK t \in Local : /\ Goes(e, t) /\ Walks(s, t)
                         /\ \A y \in Items : Calm(y) => Diligent(t, y)
  <2>1. CASE Goes(e, Lost(s)) /\ FoundOut(s)
    <3>1. PICK t \in Local : t = Lost(s)
      BY LostFacts
    <3>2. ~StillOurs(s)
      BY <2>1 DEF FoundOut, StillOurs
    <3>3. Walks(s, t) /\ \A y \in Items : Diligent(t, y)
      BY <3>1, <3>2, LostDiligent DEF Walks, Calls
    <3> QED
      BY <2>1, <3>1, <3>3
  <2>2. CASE s.todo = {} /\ Goes(e, Rests(b))
    <3>1. PICK t \in Local : t = Rests(b)
      BY RestsFacts
    <3>2. \A y \in Items : Calm(y) => (b.ticked => Spared(b, y))
      BY <1>4, <1>5, <2>2 DEF Spared
    <3>3. Walks(b, t) /\ \A y \in Items : Calm(y) => Diligent(t, y)
      BY <3>1, <3>2, RestsDiligent
    <3>4. Walks(s, t)
      BY <1>4, <3>3 DEF Walks, StillOurs
    <3> QED
      BY <2>2, <3>1, <3>3, <3>4
  <2>3. ASSUME NEW x \in s.todo,
               Goes(e, IF IsRetried(s.mem[x], s.at)
                       THEN [[b EXCEPT !.todo = @ \ {x}, !.cur = x]
                                EXCEPT !.pc = "deliver"]
                       ELSE Onward([b EXCEPT !.todo = @ \ {x}, !.cur = x]))
        PROVE  \E t \in Local : /\ Goes(e, t) /\ Walks(s, t)
                                /\ \A y \in Items : Calm(y) => Diligent(t, y)
    <3>1. x \in Items /\ s.todo \ {x} \in SUBSET Items
      BY LocalFields
    <3>2. PICK u : u = [b EXCEPT !.todo = @ \ {x}, !.cur = x]
      OBVIOUS
    <3>3. /\ u \in Local /\ u.at = s.at /\ u.ticked = s.ticked /\ u.cur = x
          /\ u.mem = s.mem /\ u.todo = s.todo \ {x} /\ u.up = s.up
          /\ u.attempt = s.attempt /\ u.ino = s.ino
      BY <1>4, <3>1, <3>2 DEF Local
    <3>4. \A y \in Items : Calm(y) =>
             (u.ticked => Spared(u, y) \/ y \in u.todo \/ y = u.cur)
      BY <1>5, <3>3 DEF Spared
    <3>5. CASE ~IsRetried(s.mem[x], s.at)
      <4>1. PICK t \in Local : t = Onward(u)
        BY <3>3, OnwardFacts
      <4>2. Goes(e, t)
        BY <2>3, <3>2, <3>5, <4>1
      <4>3. u.ticked => u.at = now
        BY <1>2, <3>3
      <4>4. Walks(u, t) /\ \A y \in Items : Calm(y) => Diligent(t, y)
        BY <3>3, <3>4, <4>1, <4>3, OnwardDiligent
      <4>5. Walks(s, t)
        BY <3>3, <4>4 DEF Walks, StillOurs
      <4> QED
        BY <4>2, <4>4, <4>5
    <3>6. CASE IsRetried(s.mem[x], s.at)
      <4>1. PICK t : t = [u EXCEPT !.pc = "deliver"]
        OBVIOUS
      <4>2. /\ t \in Local /\ t.ticked = u.ticked /\ t.cur = u.cur /\ t.ino = u.ino
            /\ t.mem = u.mem /\ t.todo = u.todo /\ t.pc = "deliver"
            /\ t.up = u.up /\ t.attempt = u.attempt
        <5>1. "deliver" \in Steps
          BY DEF Steps
        <5> QED
          BY <3>3, <4>1, <5>1 DEF Local
      <4>3. Goes(e, t)
        BY <2>3, <3>2, <3>6, <4>1
      <4>4. Walks(s, t)
        BY <3>3, <4>2 DEF Walks, Calls
      <4>5. \A y \in Items : Calm(y) => Diligent(t, y)
        BY <3>4, <4>2 DEF Diligent, Spared
      <4> QED
        BY <4>2, <4>3, <4>4, <4>5
    <3> QED
      BY <3>5, <3>6
  <2> QED
    BY <1>1, <1>3, <2>1, <2>2, <2>3 DEF Turn
<1>7. UNCHANGED <<now, faults, overlooked>>
  BY DEF Turn, history
<1>8. lock' = lock \/ StampsIt(e)
  <2>1. CASE BeatIsDue(s) /\ StillOurs(s)
    <3>1. lock # NoLock
      BY <2>1 DEF StillOurs, NoLock
    <3>2. lock \in [ino : 1 .. Inodes, by : Engines \cup {"gone", "other"},
                    age : 0 .. LOCK_STALE + 1]
      BY <3>1 DEF TypeOK, Locks
    <3>3. lock' = [lock EXCEPT !.by = e, !.age = 0]
      BY <1>1, <2>1 DEF Turn, Stamps
    <3> QED
      BY <1>1, <2>1, <3>2, <3>3 DEF StampsIt, Runs
  <2>2. CASE ~(BeatIsDue(s) /\ StillOurs(s))
    BY <1>1, <2>2 DEF Turn, Stamps
  <2> QED
    BY <2>1, <2>2
<1>9. s.pc \notin Calls /\ s.pc # "idle"
  BY <1>1 DEF Calls
<1> QED
  BY <1>1, <1>6, <1>7, <1>8, <1>9, WalkCalm

LEMMA SaveCalm ==
  ASSUME TypeOK, TypeOK', FirstGoes, NEW e \in Engines, Save(e)
  PROVE  StaysCalm
<1>1. PICK s \in Local : s = engine[e] /\ s.pc = "save" /\ s.up = "running"
  <2>1. engine[e] \in Local
    BY DEF TypeOK
  <2> QED
    BY <2>1 DEF Save, At
<1>2. PICK t \in Local : /\ Goes(e, t) /\ Walks(s, t)
                         /\ \A y \in Items : Calm(y) => Diligent(t, y)
  <2>1. CASE ~StillOurs(s)
    <3>1. PICK t \in Local : t = Lost(s)
      BY LostFacts
    <3>2. Goes(e, t)
      BY <1>1, <2>1, <3>1 DEF Save
    <3>3. Walks(s, t) /\ \A y \in Items : Diligent(t, y)
      BY <2>1, <3>1, LostDiligent DEF Walks, Calls
    <3> QED
      BY <3>2, <3>3
  <2>2. CASE StillOurs(s)
    <3>1. PICK m \in [Items -> Records] : m = Written(s.mem)
      BY LocalFields, WrittenFacts
    <3>2. PICK t : t = [s EXCEPT !.pc = "rename", !.snap = m]
      OBVIOUS
    <3>3. /\ t \in Local /\ t.pc = "rename" /\ t.mem = s.mem
          /\ t.cur = s.cur /\ t.ino = s.ino /\ t.up = s.up /\ t.todo = s.todo
          /\ t.ticked = s.ticked /\ t.attempt = s.attempt
      <4>1. "rename" \in Steps
        BY DEF Steps
      <4> QED
        BY <3>1, <3>2, <4>1 DEF Local
    <3>4. Goes(e, t)
      BY <1>1, <2>2, <3>1, <3>2 DEF Save
    <3>5. Walks(s, t)
      BY <3>3 DEF Walks, Calls
    <3>6. \A y \in Items : Calm(y) => Diligent(t, y)
      BY <1>1, <3>3 DEF Calm, Diligent, Spared, Busy
    <3> QED
      BY <3>3, <3>4, <3>5, <3>6
  <2> QED
    BY <2>1, <2>2
<1>3. UNCHANGED <<now, lock, faults, overlooked>>
  BY DEF Save, history
<1>4. s.pc \notin Calls /\ s.pc # "idle"
  BY <1>1 DEF Calls
<1> QED
  BY <1>1, <1>2, <1>3, <1>4, WalkCalm

LEMMA RenameCalm ==
  ASSUME TypeOK, TypeOK', Soon, FirstGoes, NEW e \in Engines, Rename(e)
  PROVE  StaysCalm
<1>1. PICK s \in Local : s = engine[e] /\ s.pc = "rename" /\ s.up = "running"
  <2>1. engine[e] \in Local
    BY DEF TypeOK
  <2> QED
    BY <2>1 DEF Rename, At
<1>2. s.ticked => s.at = now
  BY <1>1 DEF Soon, Timely, Punctual, Busy
<1>3. \A y \in Items : Calm(y) =>
         (s.ticked => Spared(s, y) \/ y \in s.todo \/ y = s.cur)
  BY <1>1 DEF Calm, Diligent, Busy
<1>4. PICK t \in Local : /\ Goes(e, t) /\ Walks(s, t)
                         /\ \A y \in Items : Calm(y) => Diligent(t, y)
  <2>1. PICK u : u = [s EXCEPT !.pc = "deliver", !.snap = NoMap]
    OBVIOUS
  <2>2. /\ u \in Local /\ u.mem = s.mem /\ u.pc = "deliver"
        /\ u.cur = s.cur /\ u.ino = s.ino /\ u.up = s.up /\ u.todo = s.todo
        /\ u.ticked = s.ticked /\ u.attempt = s.attempt
    <3>1. "deliver" \in Steps
      BY DEF Steps
    <3> QED
      BY <2>1, <3>1, OffIsLocal DEF Local
  <2>3. Walks(s, u) /\ \A y \in Items : Calm(y) => Diligent(u, y)
    BY <1>3, <2>2 DEF Walks, Calls, Diligent, Spared
  <2>4. PICK o \in Local : o = Onward(s)
    BY OnwardFacts
  <2>5. Walks(s, o) /\ \A y \in Items : Calm(y) => Diligent(o, y)
    BY <1>2, <1>3, <2>4, OnwardDiligent
  <2>6. Goes(e, u) \/ Goes(e, o)
    BY <1>1, <2>1, <2>4 DEF Rename
  <2> QED
    BY <2>2, <2>3, <2>5, <2>6
<1>5. UNCHANGED <<now, lock, faults, overlooked>>
  BY DEF Rename
<1>6. s.pc \notin Calls /\ s.pc # "idle"
  BY <1>1 DEF Calls
<1> QED
  BY <1>1, <1>4, <1>5, <1>6, WalkCalm

\* An attempt, and what follows it; that a session refuses is a fault.
LEMMA DeliveryCalm ==
  ASSUME TypeOK, TypeOK', Soon, FirstGoes, NEW e \in Engines,
         DeliverNothing(e) \/ Answer(e) \/ Deliver(e)
  PROVE  FirstGoes' /\ (faults' = faults => StaysCalm)
<1>1. PICK s \in Local : s = engine[e] /\ s.pc \in {"deliver", "typed"}
                         /\ s.up = "running"
  <2>1. engine[e] \in Local
    BY DEF TypeOK
  <2> QED
    BY <2>1 DEF DeliverNothing, Answer, Deliver, At
<1>2. s.attempt = 0 /\ (s.ticked => s.at = now)
  BY <1>1 DEF Soon, Timely, Punctual, Busy, FirstGoes, FirstGo, Calls
<1>3. PICK t \in Local : /\ Goes(e, t) /\ Walks(s, t)
                         /\ \A y \in Items : Diligent(s, y) => Diligent(t, y)
  <2>1. CASE Deliver(e)
    <3>1. PICK t : t = [s EXCEPT !.pc = "typed"]
      OBVIOUS
    <3>2. /\ t \in Local /\ t.pc = "typed" /\ t.mem = s.mem
          /\ t.cur = s.cur /\ t.ino = s.ino /\ t.up = s.up /\ t.todo = s.todo
          /\ t.ticked = s.ticked /\ t.attempt = s.attempt
      <4>1. "typed" \in Steps
        BY DEF Steps
      <4> QED
        BY <3>1, <4>1 DEF Local
    <3>3. Goes(e, t)
      BY <1>1, <2>1, <3>1 DEF Deliver
    <3>4. Walks(s, t) /\ \A y \in Items : Diligent(s, y) => Diligent(t, y)
      BY <1>1, <3>2 DEF Walks, Calls, Diligent, Spared, Busy
    <3> QED
      BY <3>2, <3>3, <3>4
  <2>2. CASE DeliverNothing(e) \/ Answer(e)
    <3>1. PICK answer : Goes(e, Attempted(s, answer))
      BY <1>1, <2>2 DEF DeliverNothing, Answer
    <3>2. PICK t \in Local : t = Attempted(s, answer)
      BY AttemptedType
    <3>3. Walks(s, t) /\ \A y \in Items : Diligent(s, y) => Diligent(t, y)
      BY <1>1, <1>2, <3>2, AttemptedDiligent
    <3> QED
      BY <3>1, <3>2, <3>3
  <2> QED
    BY <2>1, <2>2
<1>4. UNCHANGED <<now, lock, overlooked>>
  BY DEF DeliverNothing, Answer, Deliver, history
<1>5. s.pc \notin Calls /\ s.pc # "idle"
  BY <1>1 DEF Calls
<1>6. \A y \in Items : Calm(y) => Diligent(t, y)
  BY <1>1, <1>3 DEF Calm
<1>7. FirstGoes'
  <2>1. t.attempt = 0 /\ t.pc \notin Calls
    BY <1>2, <1>3 DEF Walks
  <2>2. FirstGo(t)
    BY <2>1 DEF FirstGo, Calls
  <2> QED
    BY <1>3, <2>2, FirstGoStep
<1>8. ASSUME faults' = faults PROVE StaysCalm
  BY <1>1, <1>3, <1>4, <1>5, <1>6, <1>8, WalkCalm
<1> QED
  BY <1>7, <1>8

LEMMA EditCalm ==
  ASSUME TypeOK, TypeOK', Soon, FirstGoes, NEW e \in Engines, NEW x \in Items,
         NEW op \in {"remove", "pause", "resume"}, Edit(e, x, op)
  PROVE  StaysCalm
<1>1. PICK s \in Local : s = engine[e]
  BY DEF TypeOK
<1>2. s.ino # 0
  BY <1>1 DEF Edit
<1>3. s.pc \notin Calls /\ s.attempt = 0
  BY <1>1, <1>2 DEF Soon, Timely, Punctual, FirstGoes, FirstGo, Calls
<1>4. PICK r \in Records : r = s.mem[x]
  BY LocalFields
<1>5. PICK n \in Records : n = Edited(x, r, op)
  BY EditedFacts DEF TypeOK
<1>6. ~n.there \/ ~IsDue(n, now)
  <2>1. CASE op = "remove"
    <3>1. n.there = FALSE
      BY <1>5, <2>1, EditedFacts DEF TypeOK
    <3> QED
      BY <3>1
  <2>2. CASE op # "remove"
    <3>1. n.next # 0 => now < n.next
      BY <1>5, <2>2, EditedFacts DEF TypeOK
    <3>2. n.next \in Nat /\ now \in Nat
      BY TimesAreNat, RecordFields DEF TypeOK
    <3> QED
      BY <3>1, <3>2 DEF IsDue
  <2> QED
    BY <2>1, <2>2
<1>7. PICK m \in [Items -> Records] : m = [s.mem EXCEPT ![x] = n]
  BY LocalFields
<1>8. PICK t \in Local : t = [s EXCEPT !.mem = m]
  BY DEF Local
<1>9. t = [s EXCEPT !.mem[x] = Edited(x, @, op)]
  BY <1>4, <1>5, <1>7, <1>8 DEF Local
<1>10. /\ t.mem = m /\ t.pc = s.pc /\ t.ino = s.ino /\ t.up = s.up
       /\ t.todo = s.todo /\ t.ticked = s.ticked /\ t.cur = s.cur
       /\ t.attempt = s.attempt
  BY <1>8 DEF Local
<1>11. \A y \in Items : Diligent(s, y) => Diligent(t, y)
  <2>1. \A y \in Items : Spared(s, y) => Spared(t, y)
    BY <1>6, <1>7, <1>10, LocalFields DEF Spared
  <2> QED
    BY <1>10, <2>1 DEF Diligent
<1>12. PICK u \in Local :
         /\ Goes(e, u) /\ u.pc = s.pc /\ u.attempt = 0
         /\ StillOurs(s) => u.ino = s.ino
         /\ u.up = s.up /\ u.ticked = s.ticked
         /\ \A y \in Items : Diligent(s, y) => Diligent(u, y)
  <2>1. CASE StillOurs(s)
    <3>1. Goes(e, t)
      BY <1>1, <1>9, <2>1 DEF Edit
    <3> QED
      BY <1>3, <1>10, <1>11, <3>1
  <2>2. CASE ~StillOurs(s)
    <3>1. PICK q \in {s, t} : Goes(e, [q EXCEPT !.ino = 0, !.fresh = FALSE])
      BY <1>1, <1>9, <2>2 DEF Edit
    <3>2. PICK u : u = [q EXCEPT !.ino = 0, !.fresh = FALSE]
      OBVIOUS
    <3>3. q \in Local /\ q.pc = s.pc /\ q.attempt = 0 /\ q.up = s.up
          /\ q.ticked = s.ticked
      BY <1>3, <1>10, <3>1
    <3>4. /\ u \in Local /\ u.pc = q.pc /\ u.attempt = q.attempt /\ u.up = q.up
          /\ u.ticked = q.ticked /\ u.mem = q.mem /\ u.todo = q.todo
          /\ u.cur = q.cur /\ u.ino = 0
      <4>1. 0 \in 0 .. Inodes
        BY SchedulesAssumption
      <4> QED
        BY <3>2, <3>3, <4>1 DEF Local
    <3>5. \A y \in Items : Diligent(s, y) => Diligent(q, y)
      BY <1>11, <3>1
    <3>6. \A y \in Items : Diligent(q, y) => Diligent(u, y)
      BY <3>4 DEF Diligent, Spared
    <3> QED
      BY <2>2, <3>1, <3>2, <3>3, <3>4, <3>5, <3>6
  <2> QED
    BY <2>1, <2>2
<1>13. UNCHANGED <<now, lock, faults, overlooked>>
  BY DEF Edit
<1>14. FirstGo(u)
  BY <1>3, <1>12 DEF FirstGo, Calls
<1>15. ASSUME NEW y \in Items, Calm(y) PROVE Calm(y)'
  <2>1. Diligent(u, y) /\ (u.ticked => u.up = "running")
    BY <1>1, <1>12, <1>15 DEF Calm, Runs
  <2> QED
    BY <1>1, <1>3, <1>12, <1>13, <1>15, <2>1, InsideCalm
<1> QED
  BY <1>12, <1>14, <1>15, FirstGoStep DEF StaysCalm

\* Not holding the lock, an engine in a call of the lock's is nobody that the
\* lock is safe with.
LEMMA NoClaim ==
  ASSUME TypeOK, Soon, NEW e \in Engines,
         engine[e].pc \in {"link", "look", "unlink"}
           \/ (engine[e].pc = "idle" /\ engine[e].ino = 0)
  PROVE  lock # NoLock => ~Claims(engine[e], lock.ino)
<1>1. engine[e].ino = 0 /\ engine[e].pc # "open"
  BY DEF Soon, Timely, Punctual
<1>2. lock # NoLock => lock.ino # 0
  BY LockFields DEF TypeOK
<1> QED
  BY <1>1, <1>2 DEF Claims

LEMMA BootCalm ==
  ASSUME TypeOK, TypeOK', FirstGoes, Soon, NEW e \in Engines, Boot(e)
  PROVE  StaysCalm
<1>1. PICK s \in Local : s = engine[e] /\ s.up = "off"
  <2>1. engine[e] \in Local
    BY DEF TypeOK
  <2> QED
    BY <2>1 DEF Boot
<1>2. PICK o \in Local : o = Off
  BY OffIsLocal
<1>3. o.attempt = 0 /\ o.ticked = FALSE
  BY <1>2 DEF Off
<1>4. PICK t : t = [o EXCEPT !.up = "running", !.pc = "link"]
  OBVIOUS
<1>5. /\ t \in Local /\ t.pc = "link" /\ t.up = "running" /\ t.attempt = 0
      /\ t.ticked = FALSE
  <2>1. "link" \in Steps
    BY DEF Steps
  <2> QED
    BY <1>3, <1>4, <2>1 DEF Local
<1>6. Goes(e, t)
  BY <1>2, <1>4 DEF Boot
<1>7. UNCHANGED <<now, lock, faults, overlooked>>
  BY DEF Boot, history
<1>8. FirstGo(t) /\ \A y \in Items : Diligent(t, y)
  BY <1>5 DEF FirstGo, Calls, Diligent
<1>9. FirstGoes'
  BY <1>6, <1>8, FirstGoStep
<1>10. ASSUME ~overtaken', NEW y \in Items, Calm(y) PROVE Calm(y)'
  <2>1. engine'[e] = t /\ \A f \in Engines \ {e} : engine'[f] = engine[f]
    BY <1>6 DEF Goes, TypeOK
  <2>2. \A f \in Engines : Runs(f) => f # e /\ Runs(f)' /\ engine'[f] = engine[f]
    BY <1>1, <2>1 DEF Runs
  <2>3. Safe => Safe'
    BY <1>5, <1>7, <2>1, <2>2 DEF Safe
  <2>4. \A f \in Engines : engine'[f].ticked => Runs(f)'
    BY <1>5, <1>10, <2>1 DEF Calm, Runs
  <2>5. \A f \in Engines : Diligent(engine[f], y)'
    BY <1>5, <1>7, <1>10, <2>1 DEF Calm, Diligent, Spared
  <2>6. SecondGo'
    BY <1>5, <1>7, <1>10, <2>1, <2>3 DEF Calm, SecondGo
  <2>7. ASSUME Owned PROVE Owned'
    <3>1. PICK g \in Engines : Runs(g) /\ Claims(engine[g], lock.ino)
      BY <2>7 DEF Owned
    <3>2. Runs(g)' /\ Claims(engine'[g], lock'.ino)
      BY <1>7, <2>2, <3>1
    <3> QED
      BY <1>7, <2>2, <3>2, <2>7 DEF Owned
  <2>8. ASSUME Free PROVE Free'
    <3>1. PICK h \in Engines : Runs(h) /\ (engine[h].pc = "link" \/ ~engine[h].ticked)
      BY <2>8 DEF Free
    <3>2. Runs(h)' /\ (engine'[h].pc = "link" \/ ~engine'[h].ticked)
      BY <1>7, <2>2, <3>1
    <3> QED
      BY <1>7, <2>2, <3>2, <2>8 DEF Free
  <2>9. ASSUME Left(y) PROVE Left(y)'
    <3>1. \A f \in Engines :
             Runs(f)' /\ engine'[f].ticked =>
               \/ engine'[f].pc \in {"link", "look", "unlink"} /\ engine'[f].attempt = 0
               \/ engine'[f].pc = "idle" /\ lock'.age <= LOCK_STALE
      BY <1>5, <1>7, <2>1, <2>9 DEF Left, Runs
    <3> QED
      BY <1>5, <1>7, <2>1, <3>1, <2>9 DEF Left, Span
  <2> QED
    BY <1>10, <2>4, <2>5, <2>6, <2>7, <2>8, <2>9 DEF Calm
<1> QED
  BY <1>9, <1>10 DEF StaysCalm

LEMMA ResumeCalm ==
  ASSUME TypeOK, TypeOK', FirstGoes, NEW e \in Engines, Hold(e) \/ Resume(e)
  PROVE  FirstGoes' /\ (Resume(e) => StaysCalm)
<1>1. PICK s \in Local : s = engine[e]
  BY DEF TypeOK
<1>2. PICK up \in {"held", "running"} : Goes(e, [s EXCEPT !.up = up])
                                        /\ (Resume(e) => up = "running")
  BY <1>1 DEF Hold, Resume
<1>3. PICK t : t = [s EXCEPT !.up = up]
  OBVIOUS
<1>4. /\ t \in Local /\ t.pc = s.pc /\ t.ino = s.ino /\ t.attempt = s.attempt
      /\ t.file = s.file /\ t.mem = s.mem /\ t.cur = s.cur /\ t.todo = s.todo
      /\ t.ticked = s.ticked /\ t.up = up
  BY <1>3 DEF Local
<1>5. FirstGo(s)
  BY <1>1 DEF FirstGoes
<1>6. FirstGo(t)
  BY <1>4, <1>5 DEF FirstGo
<1>7. FirstGoes'
  BY <1>2, <1>3, <1>6, FirstGoStep
<1>8. ASSUME Resume(e), NEW y \in Items, Calm(y) PROVE Calm(y)'
  <2>1. UNCHANGED <<now, lock, faults, overlooked>> /\ s.up = "held"
    BY <1>1, <1>8 DEF Resume, history
  <2>2. t.ticked = FALSE
    <3>1. ~s.ticked
      BY <1>1, <1>8, <2>1 DEF Calm, Runs
    <3> QED
      BY <1>4, <3>1, LocalFields
  <2>3. engine'[e] = t /\ \A f \in Engines \ {e} : engine'[f] = engine[f]
    BY <1>2, <1>3 DEF Goes, TypeOK
  <2>4. \A f \in Engines : Runs(f) => f # e /\ Runs(f)' /\ engine'[f] = engine[f]
    BY <1>1, <2>1, <2>3 DEF Runs
  <2>5. Safe => Safe'
    BY <1>1, <1>4, <2>1, <2>3, <2>4 DEF Safe
  <2>6. \A f \in Engines : engine'[f].ticked => Runs(f)'
    BY <1>8, <2>2, <2>3 DEF Calm, Runs
  <2>7. \A f \in Engines : Diligent(engine[f], y)'
    BY <1>8, <2>1, <2>2, <2>3 DEF Calm, Diligent, Spared
  <2>8. SecondGo'
    BY <1>8, <2>1, <2>2, <2>3, <2>5 DEF Calm, SecondGo
  <2>9. ASSUME Owned PROVE Owned'
    <3>1. PICK g \in Engines : Runs(g) /\ Claims(engine[g], lock.ino)
      BY <2>9 DEF Owned
    <3>2. Runs(g)' /\ Claims(engine'[g], lock'.ino)
      BY <2>1, <2>4, <3>1
    <3> QED
      BY <2>1, <2>4, <3>2, <2>9 DEF Owned
  <2>10. ASSUME Free PROVE Free'
    <3>1. PICK h \in Engines : Runs(h) /\ (engine[h].pc = "link" \/ ~engine[h].ticked)
      BY <2>10 DEF Free
    <3>2. Runs(h)' /\ (engine'[h].pc = "link" \/ ~engine'[h].ticked)
      BY <2>1, <2>4, <3>1
    <3> QED
      BY <2>1, <2>4, <3>2, <2>10 DEF Free
  <2>11. ASSUME Left(y) PROVE Left(y)'
    <3>1. \A f \in Engines :
             Runs(f)' /\ engine'[f].ticked =>
               \/ engine'[f].pc \in {"link", "look", "unlink"} /\ engine'[f].attempt = 0
               \/ engine'[f].pc = "idle" /\ lock'.age <= LOCK_STALE
      BY <2>1, <2>2, <2>3, <2>11 DEF Left, Runs
    <3> QED
      BY <2>1, <2>2, <2>3, <3>1, <2>11 DEF Left, Span
  <2> QED
    BY <1>8, <2>6, <2>7, <2>8, <2>9, <2>10, <2>11 DEF Calm
<1> QED
  BY <1>7, <1>8 DEF StaysCalm

\* What Owns makes of an engine that opens the name.
LEMMA OwnsCalm ==
  ASSUME TypeOK, TypeOK', FirstGoes, Soon, NEW e \in Engines, NEW s \in Local,
         s = engine[e], s.up = "running", s.pc \in Calls,
         Goes(e, Owns(s, lock.ino)), lock # NoLock,
         UNCHANGED <<now, lock, faults, overlooked>>
  PROVE  StaysCalm
<1>1. lock.ino \in 0 .. Inodes
  BY LockFields DEF TypeOK
<1>2. PICK t \in Local : t = Owns(s, lock.ino) /\ t.pc = "read" /\ t.ino = lock.ino
  BY <1>1, OwnsFacts
<1>3. t.up = "running" /\ t.attempt = 0 /\ t.ticked = s.ticked
  BY <1>2 DEF Owns, Local
<1>4. FirstGo(t) /\ (\A y \in Items : Diligent(t, y)) /\ Claims(t, lock.ino)
  BY <1>2, <1>3 DEF FirstGo, Diligent, Busy, Claims
<1>5. t.attempt # 1 /\ t.pc # "unlink"
  BY <1>2, <1>3
<1>6. ASSUME NEW y \in Items, Calm(y) PROVE Calm(y)'
  BY <1>2, <1>3, <1>4, <1>5, <1>6, CalmStep
<1> QED
  BY <1>2, <1>4, <1>6, FirstGoStep DEF StaysCalm

\* The name that is opened is the one that was just linked, or somebody came
\* between.
LEMMA OpenCalm ==
  ASSUME TypeOK, TypeOK', FirstGoes, Soon, NEW e \in Engines, Open(e)
  PROVE  StaysCalm
<1>1. PICK s \in Local : s = engine[e] /\ s.pc = "open" /\ s.up = "running"
  <2>1. engine[e] \in Local
    BY DEF TypeOK
  <2> QED
    BY <2>1 DEF Open, At
<1>2. UNCHANGED <<now, lock, faults, overlooked>>
  BY DEF Open
<1>3. s.file # 0
  BY <1>1 DEF FirstGoes, FirstGo
<1>4. CASE lock # NoLock
  <2>1. Goes(e, Owns(s, lock.ino))
    BY <1>1, <1>4 DEF Open
  <2>2. s.pc \in Calls
    BY <1>1 DEF Calls
  <2> QED
    BY <1>1, <1>2, <1>4, <2>1, <2>2, OwnsCalm
<1>5. CASE lock = NoLock
  <2>1. overtaken'
    <3>1. lock.ino = 0
      BY <1>5 DEF NoLock
    <3> QED
      BY <1>1, <1>3, <3>1 DEF Open
  <2>2. PICK t : t = [s EXCEPT !.pc = "look", !.file = 0]
    OBVIOUS
  <2>3. t.pc = "look"
    BY <2>2 DEF Local
  <2>4. FirstGo(t)
    BY <2>3 DEF FirstGo, Calls
  <2>5. Goes(e, t)
    BY <1>1, <1>5, <2>2 DEF Open
  <2> QED
    BY <2>1, <2>4, <2>5, FirstGoStep DEF StaysCalm
<1> QED
  BY <1>4, <1>5

\* The name is linked by who finds it free; otherwise it is looked at.
LEMMA LinkCalm ==
  ASSUME TypeOK, TypeOK', FirstGoes, Soon, NEW e \in Engines, Link(e)
  PROVE  StaysCalm
<1>1. PICK s \in Local : s = engine[e] /\ s.up = "running"
                         /\ (s.pc = "link" \/ (s.pc = "idle" /\ s.ino = 0))
                         /\ (s.pc = "idle" => ~s.ticked)
  <2>1. engine[e] \in Local
    BY DEF TypeOK
  <2> QED
    BY <2>1 DEF Link, At
<1>2. s.pc = "idle" => s.attempt = 0
  BY <1>1 DEF FirstGoes, FirstGo, Calls
<1>3. PICK b \in BOOLEAN : b = (s.pc = "idle" \/ s.ticked)
  BY LocalFields
<1>4. UNCHANGED <<now, faults, overlooked>>
  BY DEF Link, history
<1>5. lock # NoLock => ~Claims(s, lock.ino)
  BY <1>1, NoClaim
<1>6. CASE lock # NoLock
  <2>1. PICK t : t = [s EXCEPT !.pc = "look", !.ticked = b]
    OBVIOUS
  <2>2. /\ t \in Local /\ t.pc = "look" /\ t.up = s.up /\ t.attempt = s.attempt
        /\ t.ticked = b
    <3>1. "look" \in Steps
      BY DEF Steps
    <3> QED
      BY <2>1, <3>1 DEF Local
  <2>3. Goes(e, t) /\ lock' = lock
    BY <1>1, <1>3, <1>6, <2>1 DEF Link
  <2>4. FirstGo(t) /\ \A y \in Items : Diligent(t, y)
    BY <2>2 DEF FirstGo, Calls, Diligent, Busy
  <2>5. ASSUME NEW y \in Items, Calm(y) PROVE Calm(y)'
    <3>1. t.ticked /\ t.attempt = 1 => Safe
      <4> SUFFICES ASSUME t.ticked, t.attempt = 1 PROVE Safe
        OBVIOUS
      <4>0. s.attempt = 1 /\ (s.pc = "idle" \/ s.ticked)
        BY <1>3, <2>2
      <4>1. s.pc = "link" /\ s.ticked /\ s.attempt = 1
        BY <1>1, <1>2, <4>0
      <4> QED
        BY <1>1, <1>6, <2>5, <4>1 DEF Calm, SecondGo
    <3>2. Left(y) => t.attempt = 0 \/ ~t.ticked
      <4> SUFFICES ASSUME Left(y), t.ticked PROVE t.attempt = 0
        OBVIOUS
      <4>1. CASE s.pc = "idle"
        BY <1>2, <2>2, <4>1
      <4>2. CASE s.pc = "link"
        <5>1. s.ticked
          BY <1>3, <2>2, <4>2
        <5> QED
          BY <1>1, <2>2, <4>2, <5>1 DEF Left, Runs
      <4> QED
        BY <1>1, <4>1, <4>2
    <3>3. t.pc # "unlink"
      BY <2>2
    <3> QED
      BY <1>1, <1>4, <1>5, <1>6, <2>2, <2>3, <2>4, <2>5, <3>1, <3>2, <3>3, CalmStep
  <2> QED
    BY <2>3, <2>4, <2>5, FirstGoStep DEF StaysCalm
<1>7. CASE lock = NoLock
  <2>1. PICK i : i = Least((1 .. Inodes) \ InUse)
    OBVIOUS
  <2>2. i \in 1 .. Inodes /\ i \notin InUse
    <3>1. (1 .. Inodes) \ InUse # {}
      BY <1>7 DEF Link
    <3> QED
      BY <2>1, <3>1, LeastIsThere
  <2>3. PICK t : t = [s EXCEPT !.pc = "open", !.file = i, !.ticked = b]
    OBVIOUS
  <2>4. /\ t \in Local /\ t.pc = "open" /\ t.up = s.up /\ t.file = i
        /\ t.ticked = b
    <3>1. "open" \in Steps /\ i \in 0 .. Inodes
      BY <2>2 DEF Steps
    <3> QED
      BY <2>3, <3>1 DEF Local
  <2>5. Goes(e, t) /\ lock' = [ino |-> i, by |-> e, age |-> 0]
    BY <1>1, <1>3, <1>7, <2>1, <2>3 DEF Link
  <2>6. FirstGo(t)
    BY <2>2, <2>4 DEF FirstGo, Calls
  <2>7. engine'[e] = t /\ \A f \in Engines \ {e} : engine'[f] = engine[f]
    BY <2>5 DEF Goes, TypeOK
  <2>8. /\ lock' # NoLock /\ lock'.ino = i /\ lock'.by = e
        /\ lock'.age <= LOCK_STALE
    BY <2>2, <2>5, SchedulesAssumption DEF NoLock
  <2>9. Runs(e)' /\ Claims(engine'[e], lock'.ino)
    BY <1>1, <2>4, <2>7, <2>8 DEF Runs, Claims
  <2>10. Safe'
    <3>1. \A k \in Engines : engine'[k].pc = "unlink" => engine'[k].file # lock'.ino
      BY <2>2, <2>4, <2>7, <2>8 DEF InUse
    <3> QED
      BY <2>8, <2>9, <3>1 DEF Safe
  <2>11. Owned'
    BY <2>8, <2>9 DEF Owned
  <2>12. ASSUME NEW y \in Items, Calm(y) PROVE Calm(y)'
    <3>1. \A f \in Engines : engine'[f].ticked => Runs(f)'
      BY <1>1, <2>4, <2>7, <2>12 DEF Calm, Runs
    <3>2. \A f \in Engines : Diligent(engine[f], y)'
      BY <1>4, <2>4, <2>7, <2>12 DEF Calm, Diligent, Spared, Busy
    <3>3. SecondGo'
      BY <2>4, <2>7, <2>10, <2>12 DEF Calm, SecondGo
    <3> QED
      BY <2>11, <3>1, <3>2, <3>3 DEF Calm
  <2> QED
    BY <2>5, <2>6, <2>12, FirstGoStep DEF StaysCalm
<1> QED
  BY <1>6, <1>7

LEMMA SafeLives ==
  ASSUME TypeOK, Safe
  PROVE  ~Dead(lock) /\ lock # NoLock
<1>1. PICK g \in Engines : lock.by = g /\ engine[g].up = "running"
  BY DEF Safe, Runs
<1>2. Running(lock.by)
  BY <1>1 DEF Running
<1>3. lock # NoLock
  BY DEF Safe
<1>4. lock.age \in Nat
  <2>1. lock \in [ino : 1 .. Inodes, by : Engines \cup {"gone", "other"},
                  age : 0 .. LOCK_STALE + 1]
    BY <1>3 DEF TypeOK, Locks
  <2> QED
    BY <2>1
<1> QED
  BY <1>2, <1>3, <1>4, SchedulesAssumption DEF Dead, Safe

\* Only what is dead is to be unlinked, and only what is alive makes an engine
\* give up for this tick.
LEMMA LookCalm ==
  ASSUME TypeOK, TypeOK', FirstGoes, Soon, NEW e \in Engines, Look(e)
  PROVE  StaysCalm
<1>1. PICK s \in Local : s = engine[e] /\ s.pc = "look" /\ s.up = "running"
  <2>1. engine[e] \in Local
    BY DEF TypeOK
  <2> QED
    BY <2>1 DEF Look, At
<1>2. UNCHANGED <<now, lock, faults, overlooked>>
  BY DEF Look, history
<1>3. lock # NoLock => ~Claims(s, lock.ino)
  BY <1>1, NoClaim
<1>4. CASE lock.by = e
  <2>1. Goes(e, Owns(s, lock.ino))
    BY <1>1, <1>4 DEF Look
  <2>2. s.pc \in Calls
    BY <1>1 DEF Calls
  <2>3. lock # NoLock
    BY <1>4, LockFields DEF TypeOK
  <2> QED
    BY <1>1, <1>2, <2>1, <2>2, <2>3, OwnsCalm
<1>5. CASE lock.by # e /\ Dead(lock)
  <2>1. PICK t : t = [s EXCEPT !.pc = "unlink", !.file = lock.ino]
    OBVIOUS
  <2>2. /\ t \in Local /\ t.pc = "unlink" /\ t.up = s.up /\ t.attempt = s.attempt
        /\ t.ticked = s.ticked
    <3>1. "unlink" \in Steps /\ lock.ino \in 0 .. Inodes
      BY LockFields DEF Steps, TypeOK
    <3> QED
      BY <2>1, <3>1 DEF Local
  <2>3. Goes(e, t)
    BY <1>1, <1>5, <2>1 DEF Look
  <2>4. FirstGo(t) /\ \A y \in Items : Diligent(t, y)
    BY <2>2 DEF FirstGo, Calls, Diligent, Busy
  <2>5. ~Safe
    BY <1>5, SafeLives
  <2>6. ASSUME NEW y \in Items, Calm(y) PROVE Calm(y)'
    <3>1. ~(t.ticked /\ t.attempt = 1)
      BY <1>1, <2>2, <2>5, <2>6 DEF Calm, SecondGo
    <3>2. Left(y) /\ t.ticked => t.attempt = 0
      BY <1>1, <2>2 DEF Left, Runs
    <3>3. ~t.ticked \/ (s.pc # "link" /\ s.ticked)
      BY <1>1, <2>2
    <3> QED
      BY <1>1, <1>2, <1>3, <2>2, <2>3, <2>4, <2>5, <2>6, <3>1, <3>2, <3>3, CalmStep
  <2> QED
    BY <2>3, <2>4, <2>6, FirstGoStep DEF StaysCalm
<1>6. CASE lock.by # e /\ ~Dead(lock)
  <2>1. PICK t \in Local : t = Waived(s)
    BY WaivedFacts
  <2>2. Goes(e, t)
    BY <1>1, <1>6, <2>1 DEF Look
  <2>3. lock # NoLock /\ lock.age <= LOCK_STALE
    <3>1. lock # NoLock /\ ~(lock.age > LOCK_STALE)
      BY <1>6 DEF Dead
    <3>2. lock \in [ino : 1 .. Inodes, by : Engines \cup {"gone", "other"},
                    age : 0 .. LOCK_STALE + 1]
      BY <3>1 DEF TypeOK, Locks
    <3> QED
      BY <3>1, <3>2, SchedulesAssumption
  <2>4. /\ t.attempt = 0 /\ t.up = "running" /\ t.pc \in {"idle", "read"}
        /\ t.ticked => t.pc = "idle"
        /\ \A y \in Items : Diligent(t, y)
    <3>1. s.ino = 0
      BY <1>1 DEF Soon, Timely, Punctual
    <3>2. PICK r \in Local : r = Rests(s)
      BY RestsFacts
    <3>3. /\ r.attempt = 0 /\ r.up = s.up /\ r.ticked = s.ticked /\ r.pc = "idle"
          /\ r.ino = 0
      BY <3>1, <3>2, RestsFacts, RestsDiligent DEF Walks
    <3>4. CASE s.ticked
      <4>1. t = r
        BY <2>1, <3>2, <3>4 DEF Waived
      <4> QED
        BY <1>1, <3>3, <4>1 DEF Diligent, Busy
    <3>5. CASE ~s.ticked
      <4>1. t = [r EXCEPT !.pc = "read"]
        BY <2>1, <3>2, <3>5 DEF Waived
      <4>2. t.attempt = 0 /\ t.up = s.up /\ ~t.ticked /\ t.pc = "read"
        BY <3>3, <3>5, <4>1 DEF Local
      <4> QED
        BY <1>1, <4>2 DEF Diligent
    <3> QED
      BY <3>4, <3>5
  <2>5. FirstGo(t) /\ t.pc # "unlink" /\ t.attempt # 1
    BY <2>4 DEF FirstGo, Calls
  <2>6. ASSUME NEW y \in Items, Calm(y) PROVE Calm(y)'
    BY <1>1, <1>2, <1>3, <2>2, <2>3, <2>4, <2>5, <2>6, CalmStep
  <2> QED
    BY <2>2, <2>5, <2>6, FirstGoStep DEF StaysCalm
<1> QED
  BY <1>4, <1>5, <1>6

\* What is unlinked is what was looked at, or somebody came between; and an
\* engine that has had its first go takes nothing away.
LEMMA UnlinkCalm ==
  ASSUME TypeOK, TypeOK', FirstGoes, Soon, NEW e \in Engines, Unlink(e)
  PROVE  StaysCalm
<1>1. PICK s \in Local : s = engine[e] /\ s.pc = "unlink" /\ s.up = "running"
                         /\ s.attempt \in 0 .. 1
  <2>1. engine[e] \in Local
    BY DEF TypeOK
  <2> QED
    BY <2>1, LocalFields DEF Unlink, At
<1>2. UNCHANGED <<now, faults, overlooked>> /\ lock' = NoLock
  BY DEF Unlink
<1>3. ~overtaken' => ~Safe
  <2> SUFFICES ASSUME ~overtaken', Safe PROVE FALSE
    OBVIOUS
  <2>1. lock = NoLock \/ lock.ino = s.file
    BY <1>1 DEF Unlink
  <2> QED
    BY <1>1, <2>1 DEF Safe
<1>4. PICK t \in Local :
        /\ Goes(e, t) /\ t.up = "running" /\ t.pc \in {"link", "idle", "read"}
        /\ s.attempt = 0 => t.pc = "link"
        /\ s.attempt = 1 => t.attempt = 0
        /\ t.pc \notin Calls => t.attempt = 0
        /\ s.attempt = 1 => t.ticked = s.ticked
        /\ t.pc = "idle" => t.ino = 0
  <2>1. CASE s.attempt = 0
    <3>1. PICK t : t = [s EXCEPT !.pc = "link", !.attempt = 1, !.file = 0]
      OBVIOUS
    <3>2. t \in Local /\ t.pc = "link" /\ t.up = s.up
      <4>1. "link" \in Steps /\ 0 \in 0 .. Inodes /\ 1 \in 0 .. 1
        BY SchedulesAssumption DEF Steps
      <4> QED
        BY <3>1, <4>1 DEF Local
    <3>3. Goes(e, t)
      BY <1>1, <2>1, <3>1 DEF Unlink
    <3> QED
      BY <1>1, <2>1, <3>2, <3>3 DEF Calls
  <2>2. CASE s.attempt = 1
    <3>1. PICK t \in Local : t = Waived(s) /\ t.pc \in {"idle", "read"}
                             /\ t.ino = s.ino
      BY WaivedFacts
    <3>2. s.ino = 0
      BY <1>1 DEF Soon, Timely, Punctual
    <3>3. PICK r \in Local : r = Rests(s)
      BY RestsFacts
    <3>4. r.attempt = 0 /\ r.up = s.up /\ r.ticked = s.ticked
      BY <3>3, RestsDiligent DEF Walks
    <3>5. t = r \/ t = [r EXCEPT !.pc = "read"]
      BY <3>1, <3>3 DEF Waived
    <3>6. t.attempt = 0 /\ t.up = s.up /\ t.ticked = s.ticked
      BY <3>4, <3>5 DEF Local
    <3>7. Goes(e, t)
      BY <1>1, <2>2, <3>1 DEF Unlink
    <3> QED
      BY <1>1, <2>2, <3>1, <3>2, <3>6, <3>7
  <2> QED
    BY <1>1, <2>1, <2>2
<1>5. FirstGo(t)
  BY <1>4 DEF FirstGo, Calls
<1>6. engine'[e] = t /\ \A f \in Engines \ {e} : engine'[f] = engine[f]
  BY <1>4 DEF Goes, TypeOK
<1>7. ASSUME ~overtaken', NEW y \in Items, Calm(y) PROVE Calm(y)'
  <2>1. s.attempt = 1 => ~s.ticked
    BY <1>1, <1>7 DEF Calm, SecondGo
  <2>2. t.pc = "link" \/ ~t.ticked
    BY <1>1, <1>4, <2>1
  <2>3. \A f \in Engines : engine'[f].ticked => Runs(f)'
    BY <1>4, <1>6, <1>7 DEF Calm, Runs
  <2>4. \A f \in Engines : Diligent(engine[f], y)'
    BY <1>2, <1>4, <1>6, <1>7 DEF Calm, Diligent, Spared, Busy
  <2>5. SecondGo'
    <3> SUFFICES ASSUME NEW h \in Engines, engine'[h].ticked, engine'[h].attempt = 1
                 PROVE  /\ engine'[h].pc # "unlink"
                        /\ lock' = NoLock /\ engine'[h].pc = "link"
      BY DEF SecondGo
    <3>1. CASE h = e
      BY <1>2, <1>6, <2>2, <3>1
    <3>2. CASE h # e
      BY <1>2, <1>3, <1>6, <1>7, <3>2 DEF Calm, SecondGo
    <3> QED
      BY <3>1, <3>2
  <2>6. Free'
    <3>1. Runs(e)' /\ (engine'[e].pc = "link" \/ ~engine'[e].ticked)
      BY <1>4, <1>6, <2>2 DEF Runs
    <3> QED
      BY <1>2, <3>1 DEF Free
  <2> QED
    BY <2>3, <2>4, <2>5, <2>6 DEF Calm
<1> QED
  BY <1>4, <1>5, <1>7, FirstGoStep DEF StaysCalm

\* A step that no fault comes with.
LEMMA QuietStep ==
  ASSUME TypeOK, Watched, StaysCalm, UNCHANGED <<faults, overlooked, failed>>,
         overtaken => overtaken'
  PROVE  FirstGoes' /\ (~overtaken' => InBounds')
BY QuietPays DEF StaysCalm, Watched

\* A fault leaves an engine where it was, or at its beginning.
LEMMA FaultsFirstGo ==
  ASSUME TypeOK, FirstGoes, NEW e \in Engines,
         SaveFails(e) \/ Die(e) \/ Exit(e)
  PROVE  FirstGoes'
<1>1. PICK s \in Local : s = engine[e]
  BY DEF TypeOK
<1>2. CASE SaveFails(e)
  <2>1. PICK t : t = Over(s)
    OBVIOUS
  <2>2. Goes(e, t)
    BY <1>1, <1>2, <2>1 DEF SaveFails
  <2>3. s.attempt = 0
    BY <1>1, <1>2 DEF SaveFails, At, FirstGoes, FirstGo, Calls
  <2>4. t.attempt = 0 /\ t.pc \notin Calls
    BY <2>1, <2>3, OverDiligent DEF Walks
  <2>5. FirstGo(t)
    BY <2>4 DEF FirstGo, Calls
  <2> QED
    BY <2>2, <2>5, FirstGoStep
<1>3. CASE Die(e) \/ Exit(e)
  <2>1. Goes(e, Off)
    BY <1>3 DEF Die, Exit
  <2>2. FirstGo(Off)
    BY DEF FirstGo, Off
  <2> QED
    BY <2>1, <2>2, FirstGoStep
<1> QED
  BY <1>2, <1>3

LEMMA FaultStep ==
  ASSUME TypeOK, Watched, FirstGoes', faults' = faults + 1,
         overlooked' = overlooked, failed \subseteq failed', overtaken => overtaken'
  PROVE  FirstGoes' /\ (~overtaken' => InBounds')
BY FaultPays DEF Watched

\* The lock has aged by a tick.
LEMMA LockAges ==
  ASSUME TypeOK, Tick, lock # NoLock
  PROVE  /\ lock' # NoLock /\ lock'.age \in Nat /\ lock'.age <= Span
         /\ 1 <= lock'.age
         /\ lock.age \in Nat
         /\ lock.age <= LOCK_STALE => lock'.age = lock.age + 1
<1>1. lock \in [ino : 1 .. Inodes, by : Engines \cup {"gone", "other"},
                age : 0 .. LOCK_STALE + 1]
  BY DEF TypeOK, Locks
<1>2. LOCK_STALE \in Nat /\ Inodes \in Nat
  BY SchedulesAssumption
<1>3. lock' = [lock EXCEPT !.age = Lesser(lock.age + 1, LOCK_STALE + 1)]
  BY DEF Tick
<1>4. lock'.age = Lesser(lock.age + 1, LOCK_STALE + 1) /\ lock'.ino = lock.ino
  BY <1>1, <1>3
<1>5. lock' # NoLock
  BY <1>1, <1>4 DEF NoLock
<1> QED
  BY <1>1, <1>2, <1>4, <1>5 DEF Lesser, Span

\* Who has the lock at the end of the tick, has left nothing that is due.
LEMMA OwnerIsDone ==
  ASSUME TypeOK, SchedInv, Synced, ~overtaken, Tick, NEW y \in Items \ failed,
         Calm(y), Owned, file[y].there
  PROVE  ~IsDue(file[y], now)
<1>1. PICK g \in Engines : Runs(g) /\ Claims(engine[g], lock.ino)
  BY DEF Owned
<1>2. PICK s \in Local : s = engine[g]
  BY DEF TypeOK
<1>3. s.pc = "idle" /\ s.ticked
  BY <1>1, <1>2 DEF Runs, Tick
<1>4. lock.ino # 0
  BY LockFields DEF Owned, TypeOK
<1>5. StillOurs(s) /\ s.ino # 0
  BY <1>1, <1>2, <1>3, <1>4 DEF Claims, StillOurs
<1>6. s.fresh = FALSE
  BY <1>2, <1>3, NotFresh
<1>7. Knows(engine[g])
  BY <1>2, <1>5, <1>6 DEF Knows
<1>8. Agrees(s.mem[y], file[y])
  BY <1>2, <1>3, <1>7 DEF Synced, InStep, Claiming
<1>9. s.mem[y].there = file[y].there
  BY <1>2, <1>7, HeldHere
<1>10. ~s.mem[y].there \/ ~IsDue(s.mem[y], now)
  BY <1>2, <1>3, <1>5 DEF Calm, Diligent, Spared
<1> QED
  BY <1>8, <1>9, <1>10 DEF Agrees, IsDue

\* What may be said of y when its tick has overlooked it.
LEMMA TickPays ==
  ASSUME TypeOK, SchedInv, Synced, InBounds, ~overtaken, Tick,
         NEW y \in Items \ failed, Overlooks(y)
  PROVE  /\ overlooked'[y] <= Span * faults + Span
         /\ lock # NoLock => overlooked'[y] <= Span * faults + lock'.age
<1>1. /\ Span \in Nat /\ 1 <= Span /\ faults \in Nat
      /\ Span * faults \in Nat
      /\ overlooked[y] \in Nat
  BY SpanFacts
<1>2. PICK n \in Nat : n = Span * faults
  BY <1>1
<1>3. PICK k \in Engines : Runs(k) /\ engine[k].pc = "idle" /\ engine[k].ticked
  BY DEF Overlooks, Tick, Runs
<1>4. file[y].there /\ IsDue(file[y], now)
  BY DEF Overlooks
<1>5. overlooked'[y] = Lesser(overlooked[y] + 1, Horizon)
  BY Zenon DEF Tick
<1>6. overlooked'[y] <= overlooked[y] + 1 /\ overlooked'[y] \in Nat
  BY <1>1, <1>5, SchedulesAssumption DEF Lesser
<1>7. CASE overlooked[y] <= n
  <2>1. overlooked'[y] <= n + 1
    BY <1>1, <1>2, <1>6, <1>7
  <2>2. lock # NoLock => 1 <= lock'.age /\ lock'.age \in Nat
    BY LockAges
  <2> QED
    BY <1>1, <1>2, <1>6, <2>1, <2>2
<1>8. CASE ~(overlooked[y] <= n)
  <2>1. Calm(y)
    BY <1>1, <1>2, <1>8 DEF InBounds
  <2>2. ~Owned
    BY <1>4, <2>1, OwnerIsDone
  <2>3. ~Free
    BY DEF Free, Tick, Runs
  <2>4. Left(y)
    BY <2>1, <2>2, <2>3 DEF Calm
  <2>5. lock # NoLock /\ lock.age <= LOCK_STALE
    BY <1>3, <2>4 DEF Left
  <2>6. overlooked[y] <= n + lock.age
    BY <1>2, <2>4 DEF Left
  <2>7. /\ lock'.age = lock.age + 1 /\ lock.age \in Nat /\ lock'.age \in Nat
        /\ lock'.age <= Span
    BY <2>5, LockAges
  <2>8. overlooked'[y] <= n + lock'.age
    BY <1>1, <1>6, <2>6, <2>7
  <2> QED
    BY <1>1, <1>2, <1>6, <2>5, <2>7, <2>8
<1> QED
  BY <1>7, <1>8

LEMMA TickStep ==
  ASSUME TypeOK, TypeOK', SchedInv, Watched, Tick
  PROVE  FirstGoes' /\ (~overtaken' => InBounds')
<1>1. FirstGoes'
  BY TickLeaves DEF Watched, FirstGoes, FirstGo
<1>2. UNCHANGED <<faults, failed, overtaken, file>>
  BY DEF Tick
<1>3. /\ Span \in Nat /\ 1 <= Span /\ faults \in Nat
      /\ Span * faults \in Nat
      /\ Span * (1 + faults) = Span * faults + Span
  BY SpanFacts
<1>4. PICK n \in Nat : n = Span * faults
  BY <1>3
<1>5. ASSUME ~overtaken, NEW y \in Items \ failed
      PROVE  /\ overlooked'[y] <= n + Span
             /\ overlooked'[y] > n => Calm(y)'
  <2>1. CASE ~Overlooks(y)
    <3>1. overlooked'[y] = 0
      BY <2>1, Zenon DEF Tick
    <3> QED
      BY <1>3, <1>4, <3>1
  <2>2. CASE Overlooks(y)
    <3>1. /\ overlooked'[y] <= n + Span
          /\ lock # NoLock => overlooked'[y] <= n + lock'.age
      BY <1>4, <1>5, <2>2, TickPays DEF Watched
    <3>2. \A f \in Engines : /\ engine'[f].ticked = FALSE
                             /\ engine'[f].up = engine[f].up
      BY TickLeaves
    <3>3. PICK k \in Engines : Runs(k)
      BY <2>2 DEF Overlooks, Runs
    <3>4. CASE lock = NoLock
      <4>1. lock' = NoLock
        BY <3>4 DEF Tick
      <4>2. Runs(k)' /\ ~engine'[k].ticked
        BY <3>2, <3>3 DEF Runs
      <4>3. Free'
        BY <4>1, <4>2 DEF Free
      <4> QED
        BY <3>1, <3>2, <4>3 DEF Calm, Diligent, SecondGo
    <3>5. CASE lock # NoLock
      <4>1. lock' # NoLock
        BY <3>5, LockAges
      <4>2. overlooked'[y] <= Span * faults' + lock'.age
        BY <1>2, <1>4, <3>1, <3>5
      <4>3. Left(y)'
        BY <3>2, <4>1, <4>2 DEF Left, Span
      <4> QED
        BY <3>1, <3>2, <4>3 DEF Calm, Diligent, SecondGo
    <3> QED
      BY <3>4, <3>5
  <2> QED
    BY <2>1, <2>2
<1>6. ~overtaken => InBounds'
  BY <1>2, <1>3, <1>4, <1>5 DEF InBounds, Span
<1> QED
  BY <1>1, <1>2, <1>6

LEMMA InitWatched == Init => Watched
<1> SUFFICES ASSUME Init PROVE Watched
  OBVIOUS
<1>1. \A e \in Engines : engine[e] = Off
  BY DEF Init
<1>2. Off.attempt = 0 /\ Off.pc = "idle" /\ Off.ino = 0
  BY DEF Off
<1>3. FirstGoes
  BY <1>1, <1>2 DEF FirstGoes, FirstGo
<1>4. Synced
  BY <1>1, <1>2 DEF Synced, Knows, StillOurs
<1>5. Span \in Nat
  BY SchedulesAssumption DEF Span
<1>6. Span * 0 = 0 /\ Span * (1 + 0) = Span
  BY <1>5
<1>7. faults = 0 /\ \A y \in Items : overlooked[y] = 0
  BY DEF Init
<1>8. InBounds
  BY <1>5, <1>6, <1>7 DEF InBounds
<1> QED
  BY <1>3, <1>4, <1>8 DEF Watched

LEMMA WatchedStep ==
  ASSUME TypeOK, TypeOK', SchedInv, Soon, Watched, "early" \notin Faults,
         [Next]_vars
  PROVE  Watched'
<1>1. overtaken => overtaken'
  <2>1. ASSUME NEW e \in Engines, Moves(e) PROVE overtaken => overtaken'
    BY <2>1 DEF Moves, Wake, Link, Open, Look, Unlink, Read, Turn, Save, Rename,
       DeliverNothing, Deliver, Answer, history
  <2>2. ASSUME NEW e \in Engines,
               SaveFails(e) \/ Boot(e) \/ Die(e) \/ Exit(e) \/ Hold(e) \/ Resume(e)
        PROVE  overtaken => overtaken'
    BY <2>2 DEF SaveFails, Boot, Die, Exit, Hold, Resume, history
  <2>3. ASSUME NEW y \in Items, PaneCloses(y) \/ PaneOpens(y)
        PROVE  overtaken => overtaken'
    BY <2>3 DEF PaneCloses, PaneOpens, history
  <2>4. ASSUME NEW e \in Engines, NEW y \in Items, NEW op, Edit(e, y, op)
        PROVE  overtaken => overtaken'
    BY <2>4 DEF Edit
  <2>5. Tick \/ UNCHANGED vars => (overtaken => overtaken')
    BY DEF Tick, vars, history
  <2> QED
    BY <2>1, <2>2, <2>3, <2>4, <2>5 DEF Next
<1>2. ~overtaken' => Synced'
  BY <1>1, SyncedKeeps DEF Watched
<1>3. FirstGoes
  BY DEF Watched
<1>4. FirstGoes' /\ (~overtaken' => InBounds')
  <2>1. ASSUME NEW e \in Engines, Moves(e)
        PROVE  FirstGoes' /\ (~overtaken' => InBounds')
    <3>1. UNCHANGED <<overlooked, failed>>
      BY <2>1 DEF Moves, Wake, Link, Open, Look, Unlink, Read, Turn, Save, Rename,
         DeliverNothing, Deliver, Answer, history
    <3>2. CASE Deliver(e) \/ Answer(e) \/ DeliverNothing(e)
      <4>1. faults' = faults \/ faults' = faults + 1
        BY <3>2 DEF Deliver, Answer, DeliverNothing
      <4>2. FirstGoes' /\ (faults' = faults => StaysCalm)
        BY <1>3, <3>2, DeliveryCalm
      <4> QED
        BY <1>1, <3>1, <4>1, <4>2, QuietStep, FaultStep
    <3>3. CASE ~(Deliver(e) \/ Answer(e) \/ DeliverNothing(e))
      <4>1. faults' = faults
        BY <2>1, <3>3 DEF Moves, Wake, Link, Open, Look, Unlink, Read, Turn, Save,
           Rename
      <4>2. StaysCalm
        BY <1>3, <2>1, <3>3, WakeCalm, LinkCalm, OpenCalm, LookCalm, UnlinkCalm,
           ReadCalm, TurnCalm, SaveCalm, RenameCalm DEF Moves
      <4> QED
        BY <1>1, <3>1, <4>1, <4>2, QuietStep
    <3> QED
      BY <3>2, <3>3
  <2>2. ASSUME NEW e \in Engines, Boot(e) \/ Resume(e)
        PROVE  FirstGoes' /\ (~overtaken' => InBounds')
    <3>1. UNCHANGED <<faults, overlooked, failed>>
      BY <2>2 DEF Boot, Resume, history
    <3>2. StaysCalm
      BY <1>3, <2>2, BootCalm, ResumeCalm
    <3> QED
      BY <1>1, <3>1, <3>2, QuietStep
  <2>3. ASSUME NEW e \in Engines, SaveFails(e) \/ Die(e) \/ Exit(e) \/ Hold(e)
        PROVE  FirstGoes' /\ (~overtaken' => InBounds')
    <3>1. /\ faults' = faults + 1 /\ overlooked' = overlooked
          /\ failed \subseteq failed'
      BY <2>3 DEF SaveFails, Die, Exit, Hold, history
    <3>2. FirstGoes'
      BY <1>3, <2>3, FaultsFirstGo, ResumeCalm
    <3> QED
      BY <1>1, <3>1, <3>2, FaultStep
  <2>4. ASSUME UNCHANGED vars \/ \E x \in Items : PaneOpens(x)
        PROVE  FirstGoes' /\ (~overtaken' => InBounds')
    <3>1. UNCHANGED <<engine, lock, now, faults, overlooked, failed>>
      BY <2>4 DEF PaneOpens, vars, history
    <3>2. \A y \in Items : Calm(y) => Calm(y)'
      BY <3>1 DEF Calm, Diligent, Spared, SecondGo, Safe, Owned, Free, Left, Runs,
         Span
    <3>3. FirstGoes'
      BY <1>3, <3>1 DEF FirstGoes
    <3> QED
      BY <1>1, <3>1, <3>2, <3>3, QuietStep DEF StaysCalm
  <2>5. ASSUME NEW x \in Items, PaneCloses(x)
        PROVE  FirstGoes' /\ (~overtaken' => InBounds')
    <3>1. /\ faults' = faults + 1
          /\ UNCHANGED <<engine, overlooked, failed>>
      BY <2>5 DEF PaneCloses
    <3>2. FirstGoes'
      BY <1>3, <3>1 DEF FirstGoes
    <3> QED
      BY <1>1, <3>1, <3>2, FaultStep
  <2>6. ASSUME NEW e \in Engines, NEW x \in Items,
               NEW op \in {"remove", "pause", "resume"}, Edit(e, x, op)
        PROVE  FirstGoes' /\ (~overtaken' => InBounds')
    <3>1. UNCHANGED <<faults, overlooked, failed>>
      BY <2>6 DEF Edit
    <3>2. StaysCalm
      BY <1>3, <2>6, EditCalm
    <3> QED
      BY <1>1, <3>1, <3>2, QuietStep
  <2>7. ASSUME Tick PROVE FirstGoes' /\ (~overtaken' => InBounds')
    BY <2>7, TickStep
  <2> QED
    BY <2>1, <2>2, <2>3, <2>4, <2>5, <2>6, <2>7 DEF Next
<1> QED
  BY <1>2, <1>4 DEF Watched

\* What is due is claimed in time, and what was refused is retried in time.
\* Whatever became of the last holder, an occurrence that has come round is
\* claimed within the stale window of the last fault, if an engine runs and the
\* disk took every claim: the lock of a holder that is gone or hangs is taken
\* from it, by one engine, which then makes its pass.
THEOREM InTimeAlways == ("early" \notin Faults) => (Spec => []InTime)
<1> SUFFICES ASSUME "early" \notin Faults PROVE Spec => []InTime
  OBVIOUS
<1>1. Init => Soon /\ Watched
  BY InitOnTime, InitWatched
<1>2. TypeOK /\ TypeOK' /\ SchedInv /\ (Soon /\ Watched) /\ [Next]_vars
        => (Soon /\ Watched)'
  BY SoonStep, WatchedStep DEF SchedInv
<1>3. Soon /\ Watched => InTime
  BY DEF Soon, Watched, InBounds, InTime, NotOverlooked, PromptAfterFree, Span
<1> QED
  BY <1>1, <1>2, <1>3, SchedAlways, PTL DEF Spec
=============================================================================
