------------------------ MODULE ServicesLeaseProofs ------------------------
(***************************************************************************)
(* What holds of ServicesLease for any number of engines, any stale window *)
(* and any faults: its types, and that where the file system does not give *)
(* out the number of a file somebody still compares with, two engines      *)
(* never know their claims by one file unless one overtook the other       *)
(* between two calls made at once; and that an engine whose claim was      *)
(* replaced supervises no longer than the rest of a check and the next;    *)
(* and, whatever numbers are given out, how long nobody supervises while   *)
(* an engine is there that could.                                          *)
(***************************************************************************)
EXTENDS ServicesLease, TLAPS

\* What the types rest on: a file that is open, or written and not yet known
\* by its number, has one.
Sound == {s \in Local : s.pc \in {"stamp", "link", "know"} => s.ino \in Inodes}

TypesInv == TypeOK /\ engine \in [Engines -> Sound]

LEMMA GoesTypes ==
    ASSUME TypesInv, NEW e \in Engines, NEW s \in Sound, Goes(e, s)
    PROVE  engine' \in [Engines -> Sound]
BY DEF TypesInv, TypeOK, Goes

\* Ending a check, or going round again, leaves a well formed local state.
LEMMA DoneTypes == ASSUME NEW s \in Local PROVE Done(s) \in Sound
<1>1. 0 \in 0 .. StaleTicks /\ 0 \in 0 .. 2 /\ 0 \in 0 .. Slack /\ "idle" \in Steps
  BY ServicesAssumption DEF Steps
<1> QED BY <1>1 DEF Done, Local, Sound

LEMMA AgainTypes == ASSUME NEW s \in Local PROVE Again(s) \in Sound
<1>1. CASE s.attempt < 2
  <2>1. s.attempt + 1 \in 0 .. 2 /\ 0 \in 0 .. StaleTicks /\ "write" \in Steps
    BY <1>1, ServicesAssumption DEF Local, Steps
  <2>2. Again(s) = [s EXCEPT !.pc = "write", !.ino = "none", !.age = 0, !.attempt = @ + 1]
    BY <1>1 DEF Again
  <2> QED BY <2>1, <2>2 DEF Local, Sound
<1>2. CASE ~(s.attempt < 2)
  BY <1>2, DoneTypes DEF Again
<1> QED BY <1>1, <1>2

\* The bound is a number, and a count that is cut off is no larger.
LEMMA GapBound ==
    /\ Overdue \in Nat /\ StaleTicks - 1 <= Overdue /\ Slack <= Overdue
    /\ LongestGap = Overdue + 2 * Slack /\ LongestGap \in Nat
BY ServicesAssumption DEF Overdue, LongestGap

LEMMA CappedLess == ASSUME NEW n \in Nat PROVE Capped(n) \in Nat /\ Capped(n) <= n
BY GapBound DEF Capped

\* The counts are numbers, whatever the step.
LEMMA CountsTypes ==
    ASSUME TypeOK, NEW n \in Nat, Counts(n)
    PROVE  astray' \in [Engines -> Nat] /\ gap' \in [Engines -> Nat] /\ overtaken' \in BOOLEAN
<1>1. \A m \in Nat : Capped(m) \in Nat
  BY CappedLess
<1>2. \A e \in Engines : astray[e] + n \in Nat /\ gap[e] + n \in Nat
  BY DEF TypeOK
<1>3. astray' \in [Engines -> Nat]
  BY <1>1, <1>2 DEF Counts
<1>4. gap' \in [Engines -> Nat]
  BY <1>1, <1>2 DEF Counts
<1> QED BY <1>3, <1>4 DEF Counts, TypeOK

\* A file's age stays within the stale window.
LEMMA OlderTypes ==
    ASSUME NEW i, NEW age \in 0 .. StaleTicks PROVE Older(i, age) \in 0 .. StaleTicks
BY ServicesAssumption DEF Older

-----------------------------------------------------------------------------
(* Types. *)

LEMMA OffTypes == Off \in Sound
<1>1. 0 \in 0 .. StaleTicks /\ 0 \in 0 .. 2 /\ 0 \in 0 .. Slack /\ "idle" \in Steps
  BY ServicesAssumption DEF Steps
<1> QED BY <1>1 DEF Off, Local, Sound

\* What an engine does of its own keeps the types of the file, of the
\* engines and of the faults.
LEMMA WorksTypes ==
    ASSUME TypesInv, NEW e \in Engines, Works(e)
    PROVE  lease' \in Leases /\ engine' \in [Engines -> Sound] /\ faults' = faults
<1> DEFINE s == engine[e]
<1>1. s \in Local /\ s \in Sound /\ lease \in Leases
  BY DEF TypesInv, TypeOK
<1>2. /\ lease.ino \in Inodes \cup {"none"} /\ lease.age \in 0 .. StaleTicks
      /\ 0 \in 0 .. StaleTicks
  BY <1>1, ServicesAssumption DEF Leases, NoLease
<1>f. /\ s.up \in {"off", "running", "frozen"} /\ s.able \in BOOLEAN
      /\ s.mine \in Inodes \cup {"none"} /\ s.ino \in Inodes \cup {"none"}
      /\ s.age \in 0 .. StaleTicks
  BY <1>1 DEF Local
<1>3. CASE Check(e)
  <2>1. [s EXCEPT !.pc = IF s.mine = "none" THEN "write" ELSE "stat"] \in Sound
    <3>1. \A p \in {"write", "stat"} : [s EXCEPT !.pc = p] \in Sound
      BY <1>1 DEF Local, Steps, Sound
    <3> QED BY <3>1
  <2>2. [s EXCEPT !.pc = "relRead", !.ino = s.mine, !.mine = "none"] \in Sound
    BY <1>1 DEF Local, Steps, Sound
  <2>3. Done(s) \in Sound
    BY <1>1, DoneTypes
  <2>4. engine' \in [Engines -> Sound]
    BY <2>1, <2>2, <2>3, <1>3, GoesTypes DEF Check
  <2> QED BY <2>4, <1>1, <1>3 DEF Check
<1>4. CASE StatMine(e)
  <2>1. /\ [s EXCEPT !.pc = "truncate"] \in Sound
        /\ [s EXCEPT !.pc = "write", !.mine = "none"] \in Sound
    BY <1>1 DEF Local, Steps, Sound
  <2> QED BY <2>1, <1>1, <1>4, GoesTypes DEF StatMine
<1>5. CASE Truncate(e)
  <2>1. PICK i \in IF lease = NoLease THEN Free ELSE {lease.ino} :
            /\ lease' = [ino |-> i, by |-> "nobody", age |-> 0]
            /\ Goes(e, [engine[e] EXCEPT !.pc = "stamp", !.ino = i])
    BY <1>5 DEF Truncate
  <2>2. i \in Inodes
    BY <2>1, <1>1 DEF Free, Leases
  <2>3. lease' \in Leases
    BY <2>1, <2>2, <1>2 DEF Leases
  <2>4. [s EXCEPT !.pc = "stamp", !.ino = i] \in Sound
    BY <2>2, <1>1 DEF Local, Steps, Sound
  <2>5. engine' \in [Engines -> Sound]
    BY <2>1, <2>4, GoesTypes
  <2> QED BY <2>3, <2>5, <1>5 DEF Truncate
<1>6. CASE Stamp(e)
  <2>1. engine' \in [Engines -> Sound]
    BY <1>1, <1>6, DoneTypes, GoesTypes DEF Stamp
  <2>2. s.ino \in Inodes
    BY <1>1, <1>6 DEF Sound, Stamp, At
  <2>3. lease.ino = s.ino => lease # NoLease
    BY <2>2, ServicesAssumption DEF NoLease
  <2>4. lease.ino = s.ino => [lease EXCEPT !.by = e] \in Leases
    BY <2>3, <1>1 DEF Leases
  <2> QED BY <2>1, <2>4, <1>1, <1>6 DEF Stamp
<1>7. CASE WriteClaim(e)
  <2>1. PICK i \in Free : Goes(e, [s EXCEPT !.pc = "link", !.ino = i])
    BY <1>7 DEF WriteClaim
  <2>2. [s EXCEPT !.pc = "link", !.ino = i] \in Sound
    BY <1>1 DEF Free, Local, Steps, Sound
  <2> QED BY <2>1, <2>2, <1>1, <1>7, GoesTypes DEF WriteClaim
<1>8. CASE Link(e)
  <2>1. s.ino \in Inodes
    BY <1>1, <1>8 DEF Sound, Link, At
  <2>2. /\ [s EXCEPT !.pc = "know", !.age = 0] \in Sound
        /\ [s EXCEPT !.pc = "look", !.ino = "none", !.age = 0] \in Sound
    BY <2>1, <1>1, <1>2 DEF Local, Steps, Sound
  <2>3. [ino |-> s.ino, by |-> e, age |-> s.age] \in Leases
    BY <2>1, <1>f DEF Leases
  <2>4. engine' \in [Engines -> Sound]
    BY <2>2, <1>8, GoesTypes DEF Link
  <2>5. lease' \in Leases
    BY <2>3, <1>1, <1>8 DEF Link
  <2> QED BY <2>4, <2>5, <1>8 DEF Link
<1>9. CASE Know(e)
  <2>1. /\ [s EXCEPT !.pc = "look", !.ino = "none"] \in Sound
        /\ [s EXCEPT !.mine = lease.ino] \in Local
    BY <1>1, <1>2 DEF Local, Steps, Sound
  <2>2. Done([s EXCEPT !.mine = lease.ino]) \in Sound
    BY <2>1, DoneTypes
  <2> QED BY <2>1, <2>2, <1>1, <1>9, GoesTypes DEF Know
<1>10. CASE Look(e)
  <2>1. [s EXCEPT !.pc = "read", !.ino = lease.ino, !.age = lease.age] \in Sound
    BY <1>1, <1>2 DEF Local, Steps, Sound
  <2> QED BY <2>1, <1>1, <1>10, GoesTypes, AgainTypes DEF Look
<1>11. CASE Read(e)
  <2>1. [s EXCEPT !.pc = "remove", !.age = 0] \in Sound
    BY <1>1, <1>2 DEF Local, Steps, Sound
  <2>2. Goes(e, [s EXCEPT !.pc = "remove", !.age = 0]) \/ Goes(e, Done(s))
    BY <1>11 DEF Read
  <2>3. engine' \in [Engines -> Sound]
    BY <2>1, <2>2, <1>1, DoneTypes, GoesTypes
  <2> QED BY <2>3, <1>1, <1>11 DEF Read
<1>12. CASE Remove(e)
  <2>1. [s EXCEPT !.pc = "unlink"] \in Sound
    BY <1>1 DEF Local, Steps, Sound
  <2> QED BY <2>1, <1>1, <1>12, GoesTypes, AgainTypes DEF Remove
<1>13. CASE Unlink(e)
  BY <1>1, <1>13, GoesTypes, AgainTypes DEF Unlink, Leases
<1>14. CASE ReleaseRead(e)
  <2>1. [s EXCEPT !.pc = "relStat"] \in Sound
    BY <1>1 DEF Local, Steps, Sound
  <2> QED BY <2>1, <1>1, <1>14, GoesTypes, DoneTypes DEF ReleaseRead
<1>15. CASE ReleaseStat(e)
  <2>1. [s EXCEPT !.pc = "relUnlink"] \in Sound
    BY <1>1 DEF Local, Steps, Sound
  <2> QED BY <2>1, <1>1, <1>15, GoesTypes, DoneTypes DEF ReleaseStat
<1>16. CASE ReleaseUnlink(e)
  BY <1>1, <1>16, GoesTypes, DoneTypes DEF ReleaseUnlink, Leases
<1> QED
  BY <1>3, <1>4, <1>5, <1>6, <1>7, <1>8, <1>9, <1>10, <1>11, <1>12, <1>13, <1>14,
     <1>15, <1>16 DEF Works

\* So does what happens to it.
LEMMA HappensTypes ==
    ASSUME TypesInv, NEW e \in Engines, Happens(e)
    PROVE  /\ lease' \in Leases /\ engine' \in [Engines -> Sound]
           /\ faults' \in 0 .. MaxFaults
<1> DEFINE s == engine[e]
<1>1. s \in Local /\ s \in Sound /\ lease \in Leases /\ faults \in 0 .. MaxFaults
  BY DEF TypesInv, TypeOK
<1>2. \A kind : Fault(kind) => faults' \in 0 .. MaxFaults
  BY <1>1, ServicesAssumption DEF Fault
<1>3. /\ \A u \in {"running", "frozen"} : [s EXCEPT !.up = u] \in Sound
      /\ \A b \in BOOLEAN : [s EXCEPT !.able = b] \in Sound
      /\ \A b \in BOOLEAN : [Off EXCEPT !.able = b] \in Sound
  BY <1>1, OffTypes DEF Local, Sound
<1>4. CASE Boot(e)
  BY <1>1, <1>3, <1>4, GoesTypes DEF Boot
<1>5. CASE Die(e)
  <2>1. engine' \in [Engines -> Sound]
    BY <1>1, <1>3, <1>5, GoesTypes DEF Die, Local
  <2>2. lease' \in Leases
    <3>1. CASE lease = NoLease
      BY <3>1, <1>5, ServicesAssumption DEF Die, Leases, NoLease
    <3>2. CASE lease # NoLease
      BY <3>2, <1>1, <1>5 DEF Die, Leases
    <3> QED BY <3>1, <3>2
  <2> QED BY <2>1, <2>2, <1>2, <1>5 DEF Die
<1>6. CASE Freeze(e)
  BY <1>1, <1>2, <1>3, <1>6, GoesTypes DEF Freeze
<1>7. CASE Thaw(e)
  <2>1. 0 \in 0 .. Slack
    BY ServicesAssumption
  <2>2. [s EXCEPT !.up = "running", !.waited = 0] \in Sound
    BY <2>1, <1>1 DEF Local, Sound
  <2> QED BY <2>2, <1>1, <1>7, GoesTypes DEF Thaw
<1>8. CASE LoseMeans(e)
  BY <1>1, <1>2, <1>3, <1>8, GoesTypes DEF LoseMeans
<1>9. CASE GainMeans(e)
  BY <1>1, <1>3, <1>9, GoesTypes DEF GainMeans
<1> QED BY <1>4, <1>5, <1>6, <1>7, <1>8, <1>9 DEF Happens

\* So does an interval.
LEMMA TickTypes ==
    ASSUME TypesInv, Tick
    PROVE  /\ lease' \in Leases /\ engine' \in [Engines -> Sound]
           /\ faults' \in 0 .. MaxFaults
<1>1. lease' \in Leases
  <2>1. lease' = [lease EXCEPT !.age = Older(lease.ino, @)] /\ lease \in Leases
    BY DEF Tick, TypesInv, TypeOK
  <2>2. CASE lease = NoLease
    BY <2>1, <2>2 DEF Leases, NoLease, Older
  <2>3. CASE lease # NoLease
    <3>1. Older(lease.ino, lease.age) \in 0 .. StaleTicks
      BY <2>1, <2>3, OlderTypes DEF Leases
    <3> QED BY <2>1, <2>3, <3>1 DEF Leases
  <2> QED BY <2>2, <2>3
<1>2. ASSUME NEW e \in Engines
      PROVE  [engine[e] EXCEPT
                  !.waited = IF engine[e].up = "running" THEN @ + 1 ELSE @,
                  !.age = IF engine[e].pc \in {"link", "read"}
                          THEN Older(engine[e].ino, @) ELSE @] \in Sound
  <2>1. engine[e] \in Local /\ engine[e] \in Sound
    BY DEF TypesInv, TypeOK
  <2>2. (IF engine[e].pc \in {"link", "read"}
         THEN Older(engine[e].ino, engine[e].age) ELSE engine[e].age) \in 0 .. StaleTicks
    BY <2>1, OlderTypes DEF Local
  <2>3. engine[e].up = "running" => engine[e].waited < Slack
    BY DEF Tick
  <2>4. engine[e].waited \in 0 .. Slack
    BY <2>1 DEF Local
  <2>5. (IF engine[e].up = "running" THEN engine[e].waited + 1 ELSE engine[e].waited)
            \in 0 .. Slack
    BY <2>3, <2>4, ServicesAssumption
  <2> QED BY <2>1, <2>2, <2>5 DEF Local, Sound
<1>3. engine' \in [Engines -> Sound]
  BY <1>2 DEF Tick
<1> QED BY <1>1, <1>3 DEF Tick, TypesInv, TypeOK

\* The types are kept by every step.
LEMMA TypesStep == TypesInv /\ [Next]_vars => TypesInv'
<1> SUFFICES ASSUME TypesInv, [Next]_vars PROVE TypesInv'
  OBVIOUS
<1>1. \A x \in [Engines -> Sound] : x \in [Engines -> Local]
  BY DEF Sound
<1>2. CASE Tick /\ Counts(1)
  BY <1>1, <1>2, TickTypes, CountsTypes DEF TypesInv, TypeOK
<1>3. ASSUME NEW e \in Engines, Works(e) \/ Happens(e), Counts(0) PROVE TypesInv'
  <2>1. /\ lease' \in Leases /\ engine' \in [Engines -> Sound]
        /\ faults' \in 0 .. MaxFaults
    BY <1>3, WorksTypes, HappensTypes DEF TypesInv, TypeOK
  <2>2. astray' \in [Engines -> Nat] /\ gap' \in [Engines -> Nat] /\ overtaken' \in BOOLEAN
    BY <1>3, CountsTypes DEF TypesInv
  <2> QED BY <1>1, <2>1, <2>2 DEF TypesInv, TypeOK
<1>4. CASE UNCHANGED vars
  BY <1>4 DEF vars, TypesInv, TypeOK
<1> QED BY <1>2, <1>3, <1>4 DEF Next

LEMMA TypesInit == Init => TypesInv
<1> SUFFICES ASSUME Init PROVE TypesInv
  OBVIOUS
<1>1. engine \in [Engines -> Sound] /\ engine \in [Engines -> Local]
  BY OffTypes DEF Init, Sound
<1>2. 0 \in 0 .. MaxFaults
  BY ServicesAssumption
<1> QED BY <1>1, <1>2 DEF Init, TypesInv, TypeOK, Leases

\* The file, the engines and the history stay what the module declares, for
\* every number of engines and every bound (the state of HostLease,
\* services-lease.ts:155-184).
THEOREM ServicesTypes == Spec => []TypeOK
<1>1. TypesInv => TypeOK
  BY DEF TypesInv
<1> QED BY <1>1, TypesInit, TypesStep, PTL DEF Spec

-----------------------------------------------------------------------------
(* One engine to a file.                                                   *)

Pending(e) == engine[e].pc \in {"link", "know"}

\* An engine that has linked its claim and not asked for its number still has
\* the name; one that has not linked it has a file that is not there yet.  A
\* pending file is nobody else's, pending or known.
ClaimsInv ==
    \A e, f \in Engines :
        /\ engine[e].pc = "know" => lease.ino = engine[e].ino
        /\ engine[e].pc = "link" => lease.ino # engine[e].ino
        /\ Pending(e) => engine[f].mine # engine[e].ino
        /\ e # f /\ Pending(e) /\ Pending(f) => engine[e].ino # engine[f].ino
        /\ e # f /\ engine[e].mine # "none" => engine[e].mine # engine[f].mine

\* What every step but four leaves alone: no claim is written, linked or known
\* by number, and where the name changes hands, no claim is on its way.
Quiet(e) ==
    /\ \A f \in Engines : f # e => /\ engine'[f].pc = engine[f].pc
                                   /\ engine'[f].ino = engine[f].ino
                                   /\ engine'[f].mine = engine[f].mine
    /\ engine'[e].mine \in {engine[e].mine, "none"}
    /\ \/ engine'[e].pc \notin {"link", "know"}
       \/ engine'[e].pc = engine[e].pc /\ engine'[e].ino = engine[e].ino

LEMMA GoesOne ==
    ASSUME TypesInv, NEW e \in Engines, NEW s, Goes(e, s)
    PROVE  engine'[e] = s /\ \A f \in Engines : f # e => engine'[f] = engine[f]
BY DEF TypesInv, TypeOK, Goes

\* A step that ends neither with a claim on its way nor with a new one known is
\* quiet: ending a check, going round again, and all that stays as it is.
Calm(e, t) == t.mine \in {engine[e].mine, "none"} /\ t.pc \notin {"link", "know"}

LEMMA GoesQuiet ==
    ASSUME TypesInv, NEW e \in Engines, NEW t, Goes(e, t), Calm(e, t)
    PROVE  Quiet(e) /\ engine'[e].pc \notin {"link", "know"}
BY GoesOne DEF Quiet, Calm

LEMMA EndsCalm ==
    ASSUME TypesInv, NEW e \in Engines
    PROVE  Calm(e, Done(engine[e])) /\ Calm(e, Again(engine[e]))
<1>1. engine[e] \in Local
  BY DEF TypesInv, TypeOK
<1>2. Done(engine[e]).mine = engine[e].mine /\ Done(engine[e]).pc = "idle"
  BY <1>1 DEF Done, Local
<1>3. CASE engine[e].attempt < 2
  <2>1. Again(engine[e]) = [engine[e] EXCEPT !.pc = "write", !.ino = "none",
                                             !.age = 0, !.attempt = @ + 1]
    BY <1>3 DEF Again
  <2>2. Again(engine[e]).mine = engine[e].mine /\ Again(engine[e]).pc = "write"
    BY <1>1, <2>1 DEF Local
  <2> QED BY <1>2, <2>2 DEF Calm
<1>4. CASE ~(engine[e].attempt < 2)
  BY <1>2, <1>4 DEF Calm, Again
<1> QED BY <1>3, <1>4

\* A quiet step that leaves the name to its file, or to none when nobody is
\* about to ask for it, keeps the claims apart.
LEMMA QuietKeeps ==
    ASSUME TypesInv, ClaimsInv, NEW e \in Engines, Quiet(e),
           \/ lease'.ino = lease.ino
           \/ lease'.ino = "none" /\ \A f \in Engines : engine'[f].pc # "know"
    PROVE  ClaimsInv'
<1>1. \A f \in Engines : Pending(f) => engine[f].ino # "none"
  BY ServicesAssumption DEF TypesInv, Sound, Pending
<1> SUFFICES ASSUME NEW f \in Engines, NEW g \in Engines
             PROVE  /\ engine'[f].pc = "know" => lease'.ino = engine'[f].ino
                    /\ engine'[f].pc = "link" => lease'.ino # engine'[f].ino
                    /\ Pending(f)' => engine'[g].mine # engine'[f].ino
                    /\ f # g /\ Pending(f)' /\ Pending(g)' => engine'[f].ino # engine'[g].ino
                    /\ f # g /\ engine'[f].mine # "none" => engine'[f].mine # engine'[g].mine
  BY DEF ClaimsInv
<1>2. \A h \in Engines : Pending(h)' =>
        Pending(h) /\ engine'[h].pc = engine[h].pc /\ engine'[h].ino = engine[h].ino
  BY DEF Quiet, Pending
<1>3. \A h \in Engines : engine'[h].mine \in {engine[h].mine, "none"}
  BY DEF Quiet
<1>4. engine'[f].pc = "know" => lease'.ino = engine'[f].ino
  BY <1>2 DEF ClaimsInv, Pending
<1>5. engine'[f].pc = "link" => lease'.ino # engine'[f].ino
  BY <1>1, <1>2 DEF ClaimsInv, Pending
<1>6. Pending(f)' => engine'[g].mine # engine'[f].ino
  BY <1>1, <1>2, <1>3 DEF ClaimsInv
<1>7. f # g /\ Pending(f)' /\ Pending(g)' => engine'[f].ino # engine'[g].ino
  BY <1>2 DEF ClaimsInv
<1>8. f # g /\ engine'[f].mine # "none" => engine'[f].mine # engine'[g].mine
  BY <1>3 DEF ClaimsInv
<1> QED BY <1>4, <1>5, <1>6, <1>7, <1>8

\* Of an engine's own steps, Link puts its file under the name, Know takes the
\* number of what it linked, and WriteClaim and Truncate make a file, which has
\* a number nobody compares with.
LEMMA WorksClaims ==
    ASSUME Reuse = FALSE, TypesInv, ClaimsInv, NEW e \in Engines, Works(e),
           lease'.ino # lease.ino => \A f \in Engines : ~InBetween(f)
    PROVE  ClaimsInv'
<1> DEFINE s == engine[e]
<1>1. s \in Local /\ s \in Sound /\ lease \in Leases
  BY DEF TypesInv, TypeOK
<1>2. lease # NoLease => lease.ino \in Inodes
  BY <1>1 DEF Leases
<1>3. \A i \in Free : /\ i \in Inodes /\ i # "none" /\ i # lease.ino
                      /\ \A f \in Engines : i # engine[f].mine /\ i # engine[f].ino
  BY ServicesAssumption DEF Free, InUse, Spoken
<1>4. CASE Check(e)
  <2>1. /\ Calm(e, [s EXCEPT !.pc = IF s.mine = "none" THEN "write" ELSE "stat"])
        /\ Calm(e, [s EXCEPT !.pc = "relRead", !.ino = s.mine, !.mine = "none"])
    BY <1>1 DEF Calm, Local
  <2>2. Quiet(e)
    BY <2>1, <1>4, GoesQuiet, EndsCalm DEF Check
  <2> QED BY <2>2, <1>4, QuietKeeps DEF Check
<1>5. CASE StatMine(e)
  <2>1. /\ Calm(e, [s EXCEPT !.pc = "truncate"])
        /\ Calm(e, [s EXCEPT !.pc = "write", !.mine = "none"])
    BY <1>1 DEF Calm, Local
  <2>2. Quiet(e)
    BY <2>1, <1>5, GoesQuiet DEF StatMine
  <2> QED BY <2>2, <1>5, QuietKeeps DEF StatMine
<1>6. CASE Truncate(e)
  <2>1. PICK i \in IF lease = NoLease THEN Free ELSE {lease.ino} :
            /\ lease' = [ino |-> i, by |-> "nobody", age |-> 0]
            /\ Goes(e, [s EXCEPT !.pc = "stamp", !.ino = i])
    BY <1>6 DEF Truncate
  <2> DEFINE t == [s EXCEPT !.pc = "stamp", !.ino = i]
  <2>a. t.mine = s.mine /\ t.pc = "stamp"
    BY <1>1 DEF Local
  <2>b. engine'[e] = t
    BY <2>1, GoesOne
  <2>2. engine'[e].mine = s.mine /\ engine'[e].pc \notin {"link", "know"}
    BY <2>a, <2>b
  <2>3. Quiet(e)
    BY <2>1, <2>2, GoesOne DEF Quiet
  <2>4. CASE lease # NoLease
    BY <2>1, <2>3, <2>4, QuietKeeps
  <2>5. CASE lease = NoLease
    <3>1. i \in Free /\ lease'.ino = i /\ lease.ino = "none"
      BY <2>1, <2>5 DEF NoLease
    <3>2. \A f \in Engines : engine[f].pc # "know"
      BY <3>1, ServicesAssumption DEF ClaimsInv, TypesInv, Sound
    <3>3. \A f \in Engines : engine'[f].pc # "know"
      BY <3>2, <2>2, <2>3 DEF Quiet
    <3>4. \A f \in Engines : engine'[f].pc = "link" => engine'[f].ino = engine[f].ino
      BY <2>3 DEF Quiet
    <3>5. \A f \in Engines : engine'[f].pc = "link" => lease'.ino # engine'[f].ino
      BY <1>3, <3>1, <3>4
    <3>6. \A h \in Engines : Pending(h)' => Pending(h) /\ engine'[h].ino = engine[h].ino
      BY <2>3 DEF Quiet, Pending
    <3>7. \A h \in Engines : engine'[h].mine = engine[h].mine
      BY <2>2, <2>3 DEF Quiet
    <3> QED BY <3>3, <3>5, <3>6, <3>7 DEF ClaimsInv
  <2> QED BY <2>4, <2>5
<1>7. CASE Stamp(e)
  <2>1. Quiet(e)
    BY <1>7, GoesQuiet, EndsCalm DEF Stamp
  <2>2. lease'.ino = lease.ino
    BY <1>1, <1>7 DEF Stamp, Leases, NoLease
  <2> QED BY <2>1, <2>2, QuietKeeps
<1>8. CASE WriteClaim(e)
  <2>1. PICK i \in Free : Goes(e, [s EXCEPT !.pc = "link", !.ino = i])
    BY <1>8 DEF WriteClaim
  <2> DEFINE t == [s EXCEPT !.pc = "link", !.ino = i]
  <2>a. t.pc = "link" /\ t.ino = i /\ t.mine = s.mine
    BY <1>1 DEF Local
  <2>2. engine'[e].pc = "link" /\ engine'[e].ino = i /\ engine'[e].mine = s.mine
    <3>1. engine'[e] = t
      BY <2>1, GoesOne
    <3> QED BY <2>a, <3>1
  <2>3. lease' = lease /\ \A f \in Engines : f # e => engine'[f] = engine[f]
    BY <1>8, <2>1, GoesOne DEF WriteClaim
  <2>4. \A f \in Engines : engine'[f].mine = engine[f].mine
    BY <2>2, <2>3
  <2> QED BY <1>3, <2>2, <2>3, <2>4 DEF ClaimsInv, Pending
<1>9. CASE Link(e)
  <2>1. s.pc = "link"
    BY <1>9 DEF Link, At
  <2>2. CASE lease = NoLease
    <3> DEFINE t == [s EXCEPT !.pc = "know", !.age = 0]
    <3>a. t.pc = "know" /\ t.ino = s.ino /\ t.mine = s.mine
      BY <1>1 DEF Local
    <3>b. Goes(e, t) /\ lease'.ino = s.ino /\ lease.ino = "none"
      BY <1>9, <2>2 DEF Link, NoLease
    <3>c. engine'[e] = t /\ \A f \in Engines : f # e => engine'[f] = engine[f]
      BY <3>b, GoesOne
    <3>1. /\ lease'.ino = s.ino /\ lease.ino = "none"
          /\ engine'[e].pc = "know" /\ engine'[e].ino = s.ino /\ engine'[e].mine = s.mine
          /\ \A f \in Engines : f # e => engine'[f] = engine[f]
      BY <3>a, <3>b, <3>c
    <3>2. \A f \in Engines : engine[f].pc # "know"
      BY <3>1, ServicesAssumption DEF ClaimsInv, TypesInv, Sound
    <3>3. \A f \in Engines : engine'[f].mine = engine[f].mine /\ engine'[f].ino = engine[f].ino
      BY <3>1
    <3>4. \A f \in Engines : Pending(f)' <=> Pending(f)
      BY <3>1, <2>1 DEF Pending
    <3>5. \A f \in Engines : f # e /\ engine'[f].pc = "link" => lease'.ino # engine'[f].ino
      BY <3>1, <3>3, <2>1 DEF ClaimsInv, Pending
    <3> QED BY <3>1, <3>2, <3>3, <3>4, <3>5 DEF ClaimsInv
  <2>3. CASE lease # NoLease
    <3>1. Calm(e, [s EXCEPT !.pc = "look", !.ino = "none", !.age = 0])
      BY <1>1 DEF Calm, Local
    <3>2. Quiet(e)
      BY <1>9, <2>3, <3>1, GoesQuiet DEF Link
    <3> QED BY <3>2, <1>9, <2>3, QuietKeeps DEF Link
  <2> QED BY <2>2, <2>3
<1>10. CASE Know(e)
  <2>1. /\ s.pc = "know" /\ lease.ino = s.ino /\ s.ino \in Inodes /\ lease # NoLease
    BY <1>1, <1>10, ServicesAssumption DEF Know, At, ClaimsInv, Sound, NoLease
  <2> DEFINE t == Done([s EXCEPT !.mine = lease.ino])
  <2>a. t.mine = s.ino /\ t.pc = "idle"
    BY <1>1, <2>1 DEF Done, Local
  <2>b. Goes(e, t) /\ lease' = lease
    BY <1>10, <2>1 DEF Know
  <2>2. /\ engine'[e].mine = s.ino /\ engine'[e].pc = "idle" /\ lease' = lease
        /\ \A f \in Engines : f # e => engine'[f] = engine[f]
    <3>1. engine'[e] = t /\ \A f \in Engines : f # e => engine'[f] = engine[f]
      BY <2>b, GoesOne
    <3> QED BY <2>a, <2>b, <3>1
  <2>3. \A f \in Engines : f # e => engine[f].mine # s.ino
    BY <2>1 DEF ClaimsInv, Pending
  <2>4. \A f \in Engines : f # e /\ Pending(f) => engine[f].ino # s.ino
    BY <2>1 DEF ClaimsInv, Pending
  <2>5. \A f \in Engines : Pending(f)' => f # e /\ Pending(f)
    BY <2>2 DEF Pending
  <2> QED BY <2>1, <2>2, <2>3, <2>4, <2>5 DEF ClaimsInv
<1>11. CASE Look(e)
  <2>1. Calm(e, [s EXCEPT !.pc = "read", !.ino = lease.ino, !.age = lease.age])
    BY <1>1 DEF Calm, Local
  <2>2. Quiet(e)
    BY <1>11, <2>1, GoesQuiet, EndsCalm DEF Look
  <2> QED BY <2>2, <1>11, QuietKeeps DEF Look
<1>12. CASE Read(e)
  <2>1. Goes(e, [s EXCEPT !.pc = "remove", !.age = 0]) \/ Goes(e, Done(s))
    BY <1>12 DEF Read
  <2>2. Quiet(e)
    <3>1. Calm(e, [s EXCEPT !.pc = "remove", !.age = 0])
      BY <1>1 DEF Calm, Local
    <3> QED BY <2>1, <3>1, GoesQuiet, EndsCalm
  <2> QED BY <2>2, <1>12, QuietKeeps DEF Read
<1>13. CASE Remove(e)
  <2>1. Calm(e, [s EXCEPT !.pc = "unlink"])
    BY <1>1 DEF Calm, Local
  <2>2. Quiet(e)
    BY <1>13, <2>1, GoesQuiet, EndsCalm DEF Remove
  <2> QED BY <2>2, <1>13, QuietKeeps DEF Remove
<1>14. CASE Unlink(e)
  <2>1. Quiet(e) /\ engine'[e].pc # "know"
    BY <1>14, GoesQuiet, EndsCalm DEF Unlink
  <2>2. lease'.ino = "none" /\ engine'[e].pc # "know"
    BY <1>14, <2>1 DEF Unlink, NoLease
  <2>3. ASSUME NEW f \in Engines, engine'[f].pc = "know" PROVE lease'.ino = lease.ino
    BY <2>1, <2>2, <2>3 DEF Quiet, InBetween
  <2> QED BY <2>1, <2>2, <2>3, QuietKeeps
<1>15. CASE ReleaseRead(e)
  <2>1. Calm(e, [s EXCEPT !.pc = "relStat"])
    BY <1>1 DEF Calm, Local
  <2>2. Quiet(e)
    BY <1>15, <2>1, GoesQuiet, EndsCalm DEF ReleaseRead
  <2> QED BY <2>2, <1>15, QuietKeeps DEF ReleaseRead
<1>16. CASE ReleaseStat(e)
  <2>1. Calm(e, [s EXCEPT !.pc = "relUnlink"])
    BY <1>1 DEF Calm, Local
  <2>2. Quiet(e)
    BY <1>16, <2>1, GoesQuiet, EndsCalm DEF ReleaseStat
  <2> QED BY <2>2, <1>16, QuietKeeps DEF ReleaseStat
<1>17. CASE ReleaseUnlink(e)
  <2>1. Quiet(e) /\ engine'[e].pc # "know"
    BY <1>17, GoesQuiet, EndsCalm DEF ReleaseUnlink
  <2>2. lease'.ino = "none"
    BY <1>17 DEF ReleaseUnlink, NoLease
  <2>3. ASSUME NEW f \in Engines, engine'[f].pc = "know" PROVE lease'.ino = lease.ino
    BY <2>1, <2>2, <2>3 DEF Quiet, InBetween
  <2> QED BY <2>1, <2>2, <2>3, QuietKeeps
<1> QED
  BY <1>4, <1>5, <1>6, <1>7, <1>8, <1>9, <1>10, <1>11, <1>12, <1>13, <1>14, <1>15,
     <1>16, <1>17 DEF Works

\* Nothing that happens to an engine makes a claim.
LEMMA HappensClaims ==
    ASSUME TypesInv, ClaimsInv, NEW e \in Engines, Happens(e)
    PROVE  ClaimsInv'
<1>1. engine[e] \in Local /\ lease \in Leases
  BY DEF TypesInv, TypeOK
<1>2. lease'.ino = lease.ino
  BY <1>1 DEF Happens, Boot, Die, Freeze, Thaw, LoseMeans, GainMeans, Leases, NoLease
<1>3. CASE Die(e)
  <2>1. Quiet(e)
    BY <1>1, <1>3, GoesOne DEF Die, Off, Quiet, Local
  <2> QED BY <2>1, <1>2, QuietKeeps
<1>4. CASE Boot(e) \/ Freeze(e) \/ Thaw(e) \/ LoseMeans(e) \/ GainMeans(e)
  <2> DEFINE Same(t) == /\ t.pc = engine[e].pc /\ t.ino = engine[e].ino
                        /\ t.mine = engine[e].mine
  <2>a. /\ Same([engine[e] EXCEPT !.up = "running"])
        /\ Same([engine[e] EXCEPT !.up = "frozen"])
        /\ Same([engine[e] EXCEPT !.up = "running", !.waited = 0])
        /\ Same([engine[e] EXCEPT !.able = TRUE])
        /\ Same([engine[e] EXCEPT !.able = FALSE])
    BY <1>1 DEF Local
  <2>1. Same(engine'[e]) /\ \A f \in Engines : f # e => engine'[f] = engine[f]
    <3>1. CASE Boot(e)
      BY <2>a, <3>1, GoesOne DEF Boot
    <3>2. CASE Freeze(e)
      BY <2>a, <3>2, GoesOne DEF Freeze
    <3>3. CASE Thaw(e)
      BY <2>a, <3>3, GoesOne DEF Thaw
    <3>4. CASE LoseMeans(e)
      BY <2>a, <3>4, GoesOne DEF LoseMeans
    <3>5. CASE GainMeans(e)
      BY <2>a, <3>5, GoesOne DEF GainMeans
    <3> QED BY <1>4, <3>1, <3>2, <3>3, <3>4, <3>5
  <2>2. Quiet(e)
    BY <2>1 DEF Quiet
  <2> QED BY <2>2, <1>2, QuietKeeps
<1> QED BY <1>3, <1>4 DEF Happens

LEMMA TickClaims == ASSUME TypesInv, ClaimsInv, Tick PROVE ClaimsInv'
<1>1. \A e \in Engines : /\ engine'[e].pc = engine[e].pc
                         /\ engine'[e].ino = engine[e].ino
                         /\ engine'[e].mine = engine[e].mine
  BY DEF Tick, TypesInv, TypeOK, Local
<1>2. lease'.ino = lease.ino
  BY DEF Tick, TypesInv, TypeOK, Leases, NoLease
<1> QED BY <1>1, <1>2 DEF ClaimsInv, Pending

\* Where the file system does not give out a number anybody compares with, no
\* two engines know their claims by one file, so that of two that believe they
\* supervise one stands down at its next renewal: unless a rival has come
\* between a link or a stat and the call after it (services-lease.ts:277-305,
\* 358).
THEOREM ClaimsAreDistinct == ASSUME Reuse = FALSE PROVE Spec => []DistinctClaims
<1> DEFINE Inv == TypesInv /\ (~overtaken => ClaimsInv)
<1>1. Init => Inv
  BY TypesInit DEF Init, Off, ClaimsInv, Pending
<1>2. Inv /\ [Next]_vars => Inv'
  <2> SUFFICES ASSUME Inv, [Next]_vars, ~overtaken' PROVE ClaimsInv'
    BY TypesStep
  <2>1. CASE Tick /\ Counts(1)
    BY <2>1, TickClaims DEF Counts
  <2>2. ASSUME NEW e \in Engines, Works(e) \/ Happens(e), Counts(0) PROVE ClaimsInv'
    <3>1. ClaimsInv /\ (lease'.ino # lease.ino => \A f \in Engines : ~InBetween(f))
      BY <2>2 DEF Counts, Overtakes
    <3> QED BY <2>2, <3>1, WorksClaims, HappensClaims
  <2>3. CASE UNCHANGED vars
    BY <2>3 DEF vars, ClaimsInv, Pending
  <2> QED BY <2>1, <2>2, <2>3 DEF Next
<1>3. Inv => DistinctClaims
  BY DEF DistinctClaims, ClaimsInv
<1> QED BY <1>1, <1>2, <1>3, PTL DEF Spec

-----------------------------------------------------------------------------
(* How long an engine goes astray.                                         *)

\* An engine that passed the stat had the name then.
Writes == {"truncate", "stamp"}

Leeway(s) == s.waited + (IF s.pc \in Writes THEN 0 ELSE Slack)

\* What the count rests on: only an engine that renews has a claim, and what is
\* left of this check and the next is what the count lacks to its bound.
AstrayInv ==
    \A e \in Engines :
        /\ engine[e].mine # "none" => engine[e].pc \in {"idle", "stat"} \cup Writes
        /\ ~Astray(e) => astray[e] = 0
        /\ astray[e] <= Leeway(engine[e])

\* A step that takes no time: no count grows.
LEMMA AstrayKept ==
    ASSUME TypesInv, TypesInv', AstrayInv, Counts(0), NEW e \in Engines,
           \A f \in Engines : f # e => engine'[f] = engine[f],
           engine'[e].mine # "none" => engine'[e].pc \in {"idle", "stat"} \cup Writes,
           Astray(e)' => astray[e] <= Leeway(engine'[e])
    PROVE  AstrayInv'
<1> SUFFICES ASSUME NEW f \in Engines
             PROVE  /\ engine'[f].mine # "none" =>
                           engine'[f].pc \in {"idle", "stat"} \cup Writes
                    /\ ~Astray(f)' => astray'[f] = 0
                    /\ astray'[f] <= Leeway(engine'[f])
  BY DEF AstrayInv
<1>1. engine'[f] \in Local /\ astray[f] \in Nat /\ astray'[f] \in Nat
  BY DEF TypesInv, TypeOK
<1>2. Leeway(engine'[f]) \in Nat
  BY <1>1, ServicesAssumption DEF Leeway, Local
<1>3. astray'[f] = IF Astray(f)' THEN Capped(astray[f] + 0) ELSE 0
  BY DEF Counts
<1>4. Astray(f)' => astray'[f] <= astray[f]
  BY <1>1, <1>3, CappedLess
<1>5. Astray(f)' => astray[f] <= Leeway(engine'[f])
  BY DEF AstrayInv
<1>6. engine'[f].mine # "none" => engine'[f].pc \in {"idle", "stat"} \cup Writes
  BY DEF AstrayInv
<1> QED BY <1>1, <1>2, <1>3, <1>4, <1>5, <1>6

LEMMA WorksAstray ==
    ASSUME TypesInv, TypesInv', AstrayInv, Counts(0), NEW e \in Engines, Works(e)
    PROVE  AstrayInv'
<1>s. PICK s : s = engine[e]
  OBVIOUS
<1>t. PICK t : t = engine'[e]
  OBVIOUS
<1>1. /\ s \in Local /\ t \in Local /\ astray[e] \in Nat
      /\ s.mine # "none" => s.pc \in {"idle", "stat"} \cup Writes
      /\ ~Astray(e) => astray[e] = 0
      /\ astray[e] <= Leeway(s)
  BY <1>s, <1>t DEF TypesInv, TypeOK, AstrayInv
<1>2. s.waited \in 0 .. Slack /\ t.waited \in 0 .. Slack /\ Slack \in Nat
  BY <1>1, ServicesAssumption DEF Local
<1>3. \A f \in Engines : f # e => engine'[f] = engine[f]
  BY GoesOne DEF Works, Check, StatMine, Truncate, Stamp, WriteClaim, Link, Know,
     Look, Read, Remove, Unlink, ReleaseRead, ReleaseStat, ReleaseUnlink
<1>d. /\ Done(s).mine = s.mine /\ Done(s).pc = "idle" /\ Done(s).waited = 0
      /\ s.mine = "none" => Again(s).mine = "none"
  BY <1>1 DEF Done, Again, Local
<1>4. CASE Check(e) \/ StatMine(e) \/ Truncate(e) \/ Stamp(e)
  <2>1. /\ t.mine # "none" => t.pc \in {"idle", "stat"} \cup Writes
        /\ Astray(e)' => astray[e] <= Leeway(t)
    <3>1. CASE Check(e)
      <4>1. s.pc = "idle"
        BY <1>s, <3>1 DEF Check, At
      <4>2. CASE s.mine # "none" /\ s.able
        <5>1. t = [s EXCEPT !.pc = "stat"]
          BY <1>s, <1>t, <3>1, <4>2, GoesOne DEF Check
        <5>2. t.pc = "stat" /\ t.waited = s.waited
          BY <1>1, <5>1 DEF Local
        <5> QED BY <1>1, <4>1, <5>2 DEF Leeway, Writes
      <4>3. CASE s.mine = "none" /\ s.able
        <5>1. t = [s EXCEPT !.pc = "write"]
          BY <1>s, <1>t, <3>1, <4>3, GoesOne DEF Check
        <5>2. t.mine = "none"
          BY <1>1, <4>3, <5>1 DEF Local
        <5> QED BY <1>t, <5>2 DEF Astray, Supervisors
      <4>4. CASE ~s.able
        <5>1. t = IF s.mine = "none" THEN Done(s)
                  ELSE [s EXCEPT !.pc = "relRead", !.ino = s.mine, !.mine = "none"]
          BY <1>s, <1>t, <3>1, <4>4, GoesOne DEF Check
        <5>2. t.mine = "none"
          BY <1>1, <1>d, <5>1 DEF Local
        <5> QED BY <1>t, <5>2 DEF Astray, Supervisors
      <4> QED BY <4>2, <4>3, <4>4
    <3>2. CASE StatMine(e)
      <4>1. CASE StillMine(s)
        <5>1. t = [s EXCEPT !.pc = "truncate"]
          BY <1>s, <1>t, <3>2, <4>1, GoesOne DEF StatMine
        <5>2. t.pc = "truncate" /\ t.waited = s.waited
          BY <1>1, <5>1 DEF Local
        <5>3. astray[e] = 0
          BY <1>1, <1>s, <4>1 DEF Astray, StillMine
        <5> QED BY <1>2, <5>2, <5>3 DEF Leeway, Writes
      <4>2. CASE ~StillMine(s)
        <5>1. t = [s EXCEPT !.pc = "write", !.mine = "none"]
          BY <1>s, <1>t, <3>2, <4>2, GoesOne DEF StatMine
        <5>2. t.mine = "none"
          BY <1>1, <5>1 DEF Local
        <5> QED BY <1>t, <5>2 DEF Astray, Supervisors
      <4> QED BY <4>1, <4>2
    <3>3. CASE Truncate(e)
      <4>1. PICK i : t = [s EXCEPT !.pc = "stamp", !.ino = i]
        BY <1>s, <1>t, <3>3, GoesOne DEF Truncate
      <4>2. t.pc = "stamp" /\ t.waited = s.waited /\ s.pc = "truncate"
        BY <1>1, <1>s, <3>3, <4>1 DEF Local, Truncate, At
      <4> QED BY <1>1, <4>2 DEF Leeway, Writes
    <3>4. CASE Stamp(e)
      <4>1. t = Done(s) /\ s.pc = "stamp"
        BY <1>s, <1>t, <3>4, GoesOne DEF Stamp, At
      <4>2. astray[e] <= s.waited
        BY <1>1, <1>2, <4>1 DEF Leeway, Writes
      <4>3. Leeway(t) = Slack
        BY <1>2, <1>d, <4>1 DEF Leeway, Writes
      <4> QED BY <1>1, <1>2, <1>d, <4>1, <4>2, <4>3
    <3> QED BY <1>4, <3>1, <3>2, <3>3, <3>4
  <2> QED BY <1>3, <1>t, <2>1, AstrayKept
<1>5. CASE Know(e)
  <2>1. CASE lease = NoLease
    <3>1. t = [s EXCEPT !.pc = "look", !.ino = "none"] /\ s.pc = "know"
      BY <1>s, <1>t, <1>5, <2>1, GoesOne DEF Know, At
    <3>2. t.mine = "none"
      BY <1>1, <3>1 DEF Local, Writes
    <3>3. ~Astray(e)'
      BY <1>t, <3>2 DEF Astray, Supervisors
    <3> QED BY <1>3, <1>t, <3>2, <3>3, AstrayKept
  <2>2. CASE lease # NoLease
    <3>1. PICK i : i = lease.ino
      OBVIOUS
    <3>2. t = Done([s EXCEPT !.mine = i]) /\ lease' = lease
      BY <1>s, <1>t, <1>5, <2>2, <3>1, GoesOne DEF Know
    <3>3. t.mine = i /\ t.pc = "idle"
      BY <1>1, <3>2 DEF Done, Local
    <3>4. ~Astray(e)'
      BY <1>t, <3>1, <3>2, <3>3 DEF Astray
    <3> QED BY <1>3, <1>t, <3>3, <3>4, AstrayKept
  <2> QED BY <2>1, <2>2
<1>6. CASE \/ WriteClaim(e) \/ Link(e) \/ Look(e) \/ Read(e) \/ Remove(e)
           \/ Unlink(e) \/ ReleaseRead(e) \/ ReleaseStat(e) \/ ReleaseUnlink(e)
  <2>1. s.mine = "none"
    <3>1. s.pc \notin {"idle", "stat"} \cup Writes
      BY <1>6, <1>s DEF WriteClaim, Link, Look, Read, Remove, Unlink, ReleaseRead, ReleaseStat,
         ReleaseUnlink, At, Writes
    <3> QED BY <1>1, <3>1
  <2>2. t.mine = s.mine
    <3>1. CASE WriteClaim(e)
      <4>1. PICK i : t = [s EXCEPT !.pc = "link", !.ino = i]
        BY <1>s, <1>t, <3>1, GoesOne DEF WriteClaim
      <4> QED BY <1>1, <4>1 DEF Local
    <3>2. CASE Link(e)
      <4>1. \/ t = [s EXCEPT !.pc = "know", !.age = 0]
            \/ t = [s EXCEPT !.pc = "look", !.ino = "none", !.age = 0]
        BY <1>s, <1>t, <3>2, GoesOne DEF Link
      <4> QED BY <1>1, <4>1 DEF Local
    <3>3. CASE Look(e)
      <4>1. t = Again(s)
            \/ t = [s EXCEPT !.pc = "read", !.ino = lease.ino, !.age = lease.age]
        BY <1>s, <1>t, <3>3, GoesOne DEF Look
      <4> QED BY <1>1, <1>d, <2>1, <4>1 DEF Local
    <3>4. CASE Read(e)
      <4>1. t = Done(s) \/ t = [s EXCEPT !.pc = "remove", !.age = 0]
        BY <1>s, <1>t, <3>4, GoesOne DEF Read
      <4> QED BY <1>1, <1>d, <4>1 DEF Local
    <3>5. CASE Remove(e)
      <4>1. t = Again(s) \/ t = [s EXCEPT !.pc = "unlink"]
        BY <1>s, <1>t, <3>5, GoesOne DEF Remove
      <4> QED BY <1>1, <1>d, <2>1, <4>1 DEF Local
    <3>6. CASE Unlink(e)
      BY <1>d, <1>s, <1>t, <2>1, <3>6, GoesOne DEF Unlink
    <3>7. CASE ReleaseRead(e)
      <4>1. t = Done(s) \/ t = [s EXCEPT !.pc = "relStat"]
        BY <1>s, <1>t, <3>7, GoesOne DEF ReleaseRead
      <4> QED BY <1>1, <1>d, <4>1 DEF Local
    <3>8. CASE ReleaseStat(e)
      <4>1. t = Done(s) \/ t = [s EXCEPT !.pc = "relUnlink"]
        BY <1>s, <1>t, <3>8, GoesOne DEF ReleaseStat
      <4> QED BY <1>1, <1>d, <4>1 DEF Local
    <3>9. CASE ReleaseUnlink(e)
      BY <1>d, <1>s, <1>t, <3>9, GoesOne DEF ReleaseUnlink
    <3> QED BY <1>6, <3>1, <3>2, <3>3, <3>4, <3>5, <3>6, <3>7, <3>8, <3>9
  <2>3. ~Astray(e)'
    BY <1>t, <2>1, <2>2 DEF Astray, Supervisors
  <2> QED BY <1>3, <1>t, <2>1, <2>2, <2>3, AstrayKept
<1> QED BY <1>4, <1>5, <1>6 DEF Works

LEMMA HappensAstray ==
    ASSUME TypesInv, TypesInv', AstrayInv, Counts(0), NEW e \in Engines, Happens(e)
    PROVE  AstrayInv'
<1>s. PICK s : s = engine[e]
  OBVIOUS
<1>t. PICK t : t = engine'[e]
  OBVIOUS
<1>1. /\ s \in Local /\ t \in Local /\ astray[e] \in Nat
      /\ s.mine # "none" => s.pc \in {"idle", "stat"} \cup Writes
      /\ ~Astray(e) => astray[e] = 0
      /\ astray[e] <= Leeway(s)
  BY <1>s, <1>t DEF TypesInv, TypeOK, AstrayInv
<1>2. Leeway(t) \in Nat
  BY <1>1, ServicesAssumption DEF Leeway, Local
<1>3. \A f \in Engines : f # e => engine'[f] = engine[f]
  BY GoesOne DEF Happens, Boot, Die, Freeze, Thaw, LoseMeans, GainMeans
<1>4. CASE Boot(e) \/ Thaw(e)
  <2>1. t.mine = s.mine /\ t.pc = s.pc
    <3>1. \/ t = [s EXCEPT !.up = "running"]
          \/ t = [s EXCEPT !.up = "running", !.waited = 0]
      BY <1>4, <1>s, <1>t, GoesOne DEF Boot, Thaw
    <3> QED BY <1>1, <3>1 DEF Local
  <2>2. astray[e] = 0
    BY <1>1, <1>4 DEF Boot, Thaw, Astray, Supervisors
  <2>3. astray[e] <= Leeway(t)
    BY <1>2, <2>2
  <2> QED BY <1>1, <1>3, <1>t, <2>1, <2>3, AstrayKept
<1>5. CASE Die(e)
  <2>1. t = [Off EXCEPT !.able = s.able]
    BY <1>5, <1>s, <1>t, GoesOne DEF Die
  <2>2. t.mine = "none"
    BY <2>1 DEF Off
  <2>3. ~Astray(e)'
    BY <1>t, <2>2 DEF Astray, Supervisors
  <2> QED BY <1>3, <1>t, <2>2, <2>3, AstrayKept
<1>6. CASE Freeze(e)
  <2>1. t = [s EXCEPT !.up = "frozen"]
    BY <1>6, <1>s, <1>t, GoesOne DEF Freeze
  <2>2. t.mine = s.mine /\ t.pc = s.pc /\ t.up = "frozen"
    BY <1>1, <2>1 DEF Local
  <2>3. ~Astray(e)'
    BY <1>t, <2>2 DEF Astray, Supervisors
  <2> QED BY <1>1, <1>3, <1>t, <2>2, <2>3, AstrayKept
<1>7. CASE LoseMeans(e) \/ GainMeans(e)
  <2>1. PICK b : t = [s EXCEPT !.able = b]
    BY <1>7, <1>s, <1>t, GoesOne DEF LoseMeans, GainMeans
  <2>2. t.mine = s.mine /\ t.pc = s.pc /\ t.waited = s.waited
    BY <1>1, <2>1 DEF Local
  <2>3. astray[e] <= Leeway(t)
    BY <1>1, <2>2 DEF Leeway
  <2> QED BY <1>1, <1>3, <1>t, <2>2, <2>3, AstrayKept
<1> QED BY <1>4, <1>5, <1>6, <1>7 DEF Happens

\* An interval uses up as much of the leeway as it adds to the count.
LEMMA TickAstray ==
    ASSUME TypesInv, TypesInv', AstrayInv, Tick, Counts(1) PROVE AstrayInv'
<1> SUFFICES ASSUME NEW e \in Engines
             PROVE  /\ engine'[e].mine # "none" =>
                           engine'[e].pc \in {"idle", "stat"} \cup Writes
                    /\ ~Astray(e)' => astray'[e] = 0
                    /\ astray'[e] <= Leeway(engine'[e])
  BY DEF AstrayInv
<1>s. PICK s : s = engine[e]
  OBVIOUS
<1>t. PICK t : t = engine'[e]
  OBVIOUS
<1>1. /\ s \in Local /\ t \in Local /\ astray[e] \in Nat
      /\ s.mine # "none" => s.pc \in {"idle", "stat"} \cup Writes
      /\ astray[e] <= Leeway(s)
  BY <1>s, <1>t DEF TypesInv, TypeOK, AstrayInv
<1>2. s.waited \in Nat /\ t.waited \in Nat /\ Slack \in Nat
  BY <1>1, ServicesAssumption DEF Local
<1>3. /\ t.mine = s.mine /\ t.pc = s.pc /\ t.up = s.up
      /\ t.waited = IF s.up = "running" THEN s.waited + 1 ELSE s.waited
  BY <1>s, <1>t, <1>1 DEF Tick, Local
<1>4. astray'[e] = IF Astray(e)' THEN Capped(astray[e] + 1) ELSE 0
  BY DEF Counts
<1>5. CASE ~Astray(e)'
  BY <1>1, <1>2, <1>3, <1>4, <1>5, <1>t DEF Leeway
<1>6. CASE Astray(e)'
  <2>1. s.up = "running"
    BY <1>3, <1>6, <1>t DEF Astray, Supervisors
  <2>2. Leeway(t) = Leeway(s) + 1 /\ Leeway(s) \in Nat
    BY <1>2, <1>3, <2>1 DEF Leeway
  <2>3. astray'[e] \in Nat /\ astray'[e] <= astray[e] + 1
    BY <1>1, <1>4, <1>6, CappedLess
  <2> QED BY <1>1, <1>3, <1>6, <1>t, <2>2, <2>3
<1> QED BY <1>5, <1>6

LEMMA AstrayNext == TypesInv /\ AstrayInv /\ [Next]_vars => AstrayInv'
<1> SUFFICES ASSUME TypesInv, AstrayInv, [Next]_vars PROVE AstrayInv'
  OBVIOUS
<1>1. TypesInv'
  BY TypesStep
<1>2. CASE Tick /\ Counts(1)
  BY <1>1, <1>2, TickAstray
<1>3. ASSUME NEW e \in Engines, Works(e) \/ Happens(e), Counts(0) PROVE AstrayInv'
  BY <1>1, <1>3, WorksAstray, HappensAstray
<1>4. CASE UNCHANGED vars
  BY <1>4 DEF vars, AstrayInv, Astray, Supervisors
<1> QED BY <1>2, <1>3, <1>4 DEF Next

\* Where the file system does not give out a number anybody compares with: of
\* two engines that supervise one service one has a claim that was replaced, and
\* an engine goes on by such a claim for the rest of a check and the next at most,
\* whoever was held up and wherever (services-lease.ts:1, 277-295).
THEOREM RivalsBrief == ASSUME Reuse = FALSE PROVE Spec => []RivalsAreBrief
<1> DEFINE Inv == TypesInv /\ AstrayInv
<1>1. Init => Inv
  <2> SUFFICES ASSUME Init PROVE AstrayInv
    BY TypesInit
  <2>1. \A e \in Engines : engine[e] = Off /\ astray[e] = 0
    BY DEF Init
  <2>2. Off.mine = "none" /\ Off.pc = "idle" /\ Off.waited = 0
    BY DEF Off
  <2>3. 0 <= Leeway(Off)
    BY <2>2, ServicesAssumption DEF Leeway
  <2> QED BY <2>1, <2>2, <2>3 DEF AstrayInv
<1>2. Inv /\ [Next]_vars => Inv'
  BY TypesStep, AstrayNext
<1>3. Inv => \A e \in Engines : astray[e] <= 2 * Slack
  <2> SUFFICES ASSUME Inv, NEW e \in Engines PROVE astray[e] <= 2 * Slack
    OBVIOUS
  <2>1. engine[e].waited \in 0 .. Slack /\ Slack \in Nat /\ astray[e] \in Nat
    BY ServicesAssumption DEF TypesInv, TypeOK, Local
  <2>2. astray[e] <= Leeway(engine[e])
    BY DEF AstrayInv
  <2> QED BY <2>1, <2>2 DEF Leeway
<1>4. Spec => []DistinctClaims
  BY ClaimsAreDistinct
<1>5. DistinctClaims /\ Inv => RivalsAreBrief
  BY <1>3 DEF RivalsAreBrief
<1> QED BY <1>1, <1>2, <1>4, <1>5, PTL DEF Spec

-----------------------------------------------------------------------------
(* How long nobody supervises.                                             *)

\* A claim has the name, and its engine is about to know it by its number.
Closing(n) ==
    /\ lease # NoLease
    /\ \E f \in Engines : /\ At(f, "know")
                          /\ n <= Overdue + Slack + engine[f].waited

\* Nobody has touched the lease for n ticks, or it is stale.
Aged(n) == lease # NoLease => n <= lease.age \/ lease.age = StaleTicks

\* What is true of an engine whose check began within the n ticks: while the
\* lease is there it is the file that the check is about, and the first attempt
\* is the one that removes it.
OnTrack(s, n) ==
    /\ s.pc \in {"idle", "write", "link", "look", "read", "remove", "unlink"}
    /\ s.pc \notin {"write", "link"} => s.attempt = 0
    /\ s.pc = "read" => n <= s.age \/ s.age = StaleTicks
    /\ lease # NoLease => /\ s.attempt = 0
                          /\ s.pc \in {"read", "remove"} => s.ino = lease.ino

Patient(s, n) ==
    /\ n <= Overdue + s.waited
    /\ Aged(n)
    /\ n > s.waited => OnTrack(s, n)

\* What the steps of a check have in their hands.
Steady(s) ==
    /\ s.pc \in {"stat"} \cup Writes => s.mine # "none"
    /\ s.pc = "read" => s.ino # "none"
    /\ s.pc = "read" /\ lease.by = "nobody" => lease.age <= s.age

GapInv ==
    /\ \A e \in Engines : Steady(engine[e])
    /\ \A e \in Engines : gap[e] > 0 =>
          Waits(e) /\ (Closing(gap[e]) \/ Patient(engine[e], gap[e]))

LEMMA GapNumbers ==
    ASSUME TypesInv, NEW e \in Engines
    PROVE  /\ engine[e] \in Local /\ gap[e] \in Nat
           /\ engine[e].waited \in Nat /\ engine[e].waited <= Slack
           /\ engine[e].attempt \in 0 .. 2
           /\ engine[e].age \in Nat /\ engine[e].age <= StaleTicks
           /\ lease.age \in Nat /\ lease.age <= StaleTicks
           /\ lease # NoLease => lease.ino \in Inodes /\ lease.ino # "none"
<1>1. engine[e] \in Local /\ gap[e] \in Nat /\ lease \in Leases
  BY DEF TypesInv, TypeOK
<1>2. StaleTicks \in Nat /\ Slack \in Nat /\ "none" \notin Inodes
  BY ServicesAssumption
<1>3. engine[e].age \in 0 .. StaleTicks /\ engine[e].waited \in 0 .. Slack
  BY <1>1 DEF Local
<1>4. lease.age \in 0 .. StaleTicks
  BY <1>1, <1>2 DEF Leases, NoLease
<1>5. lease # NoLease => lease.ino \in Inodes
  BY <1>1 DEF Leases
<1> QED BY <1>1, <1>2, <1>3, <1>4, <1>5 DEF Local

\* What is promised of a gap is promised of a shorter one.
LEMMA Shorter ==
    ASSUME TypesInv, NEW e \in Engines, NEW n \in Nat, NEW m \in Nat, m <= n
    PROVE  /\ Closing(n) => Closing(m)
           /\ Patient(engine[e], n) => Patient(engine[e], m)
<1>1. \A f \in Engines : engine[f].waited \in Nat /\ engine[f].age \in Nat
  BY GapNumbers
<1>2. lease.age \in Nat /\ Slack \in Nat /\ StaleTicks \in Nat /\ Overdue \in Nat
  BY GapNumbers, GapBound, ServicesAssumption
<1>3. Closing(n) => Closing(m)
  BY <1>1, <1>2 DEF Closing
<1>4. Patient(engine[e], n) => Patient(engine[e], m)
  BY <1>1, <1>2 DEF Patient, Aged, OnTrack
<1> QED BY <1>3, <1>4

\* Where a step leaves a gap, there was one, and nothing put an end to it.
LEMMA GapWas ==
    ASSUME TypesInv, NEW e \in Engines, Counts(0), gap'[e] > 0
    PROVE  /\ faults' = faults /\ ~Overtakes /\ Waits(e)'
           /\ gap[e] > 0 /\ gap[e] \in Nat /\ gap'[e] \in Nat /\ gap'[e] <= gap[e]
<1>1. gap[e] \in Nat
  BY GapNumbers
<1>2. gap'[e] = IF faults' = faults /\ ~Overtakes /\ Waits(e)'
                THEN Capped(gap[e] + 0) ELSE 0
  BY DEF Counts
<1>3. Capped(gap[e]) \in Nat /\ Capped(gap[e]) <= gap[e]
  BY <1>1, CappedLess
<1>4. gap[e] + 0 = gap[e]
  BY <1>1
<1> QED BY <1>1, <1>2, <1>3, <1>4

-----------------------------------------------------------------------------
(* A step of a check, while nobody supervises.                             *)

\* Only an engine that has a claim opens the file, so the lease is left, or
\* removed, or linked where there was none.
LEMMA LeaseInGap ==
    ASSUME TypesInv, NEW g \in Engines, Steady(engine[g]), Supervisors = {}, Works(g)
    PROVE  /\ engine[g].up = "running" /\ engine[g].mine = "none"
           /\ lease' = lease \/ lease' = NoLease \/ (lease = NoLease /\ Link(g))
           /\ faults' = faults
<1>1. engine[g].up = "running"
  BY DEF Works, Check, StatMine, Truncate, Stamp, WriteClaim, Link, Know, Look, Read,
     Remove, Unlink, ReleaseRead, ReleaseStat, ReleaseUnlink, At
<1>2. engine[g].mine = "none"
  BY <1>1 DEF Supervisors
<1>3. ~(Truncate(g) \/ Stamp(g))
  BY <1>2 DEF Steady, Writes, Truncate, Stamp, At
<1>4. lease' = lease \/ lease' = NoLease \/ (lease = NoLease /\ Link(g))
  BY <1>3 DEF Works, Check, StatMine, WriteClaim, Link, Know, Look, Read,
     Remove, Unlink, ReleaseRead, ReleaseStat, ReleaseUnlink
<1>5. faults' = faults
  BY DEF Works, Check, StatMine, Truncate, Stamp, WriteClaim, Link, Know, Look, Read,
     Remove, Unlink, ReleaseRead, ReleaseStat, ReleaseUnlink
<1> QED BY <1>1, <1>2, <1>4, <1>5

LEMMA WorksOthers ==
    ASSUME TypesInv, NEW g \in Engines, Works(g)
    PROVE  \A f \in Engines : f # g => engine'[f] = engine[f]
BY GoesOne DEF Works, Check, StatMine, Truncate, Stamp, WriteClaim, Link, Know,
   Look, Read, Remove, Unlink, ReleaseRead, ReleaseStat, ReleaseUnlink

\* Who has linked its claim comes to know it: that is the end of the gap, and
\* nobody takes the name away before, for that would be overtaking.
LEMMA ClosingWorks ==
    ASSUME TypesInv, NEW g \in Engines, Steady(engine[g]), Works(g),
           Supervisors = {}, Supervisors' = {}, ~Overtakes, NEW n \in Nat, Closing(n)
    PROVE  Closing(n)'
<1>1. PICK f \in Engines : At(f, "know") /\ n <= Overdue + Slack + engine[f].waited
  BY DEF Closing
<1>2. lease # NoLease /\ lease.ino \in Inodes /\ lease.ino # "none"
  BY GapNumbers DEF Closing
<1>3. CASE f = g
  <2>1. Know(g)
    BY <1>1, <1>3 DEF Works, Check, StatMine, Truncate, Stamp, WriteClaim, Link, Look,
       Read, Remove, Unlink, ReleaseRead, ReleaseStat, ReleaseUnlink, At
  <2>2. PICK i : i = lease.ino
    OBVIOUS
  <2>3. engine'[g] = Done([engine[g] EXCEPT !.mine = i])
    BY <1>2, <2>1, <2>2, GoesOne DEF Know
  <2>4. engine'[g].mine = i /\ engine'[g].up = "running"
    BY <2>1, <2>3, GapNumbers DEF Done, Local, Know, At
  <2>5. g \in Supervisors'
    BY <1>2, <2>2, <2>4 DEF Supervisors
  <2> QED BY <2>5
<1>4. CASE f # g
  <2>1. engine'[f] = engine[f]
    BY <1>4, WorksOthers
  <2>2. lease'.ino = lease.ino
    BY <1>1, <2>1 DEF Overtakes, InBetween, At
  <2>3. lease' = lease
    BY <1>2, <2>2, LeaseInGap DEF NoLease
  <2> QED BY <1>1, <1>2, <2>1, <2>3 DEF Closing, At
<1> QED BY <1>3, <1>4

\* An engine's check goes on or is over.
LEMMA WaitedOrDone ==
    ASSUME TypesInv, NEW g \in Engines, Works(g)
    PROVE  \/ engine'[g].waited = engine[g].waited
           \/ /\ engine'[g].waited = 0 /\ engine'[g].pc = "idle"
              /\ engine'[g].attempt = 0
<1>s. PICK s : s = engine[g]
  OBVIOUS
<1>t. PICK t : t = engine'[g]
  OBVIOUS
<1> DEFINE Ended(x) == x.waited = 0 /\ x.pc = "idle" /\ x.attempt = 0
<1>1. s \in Local
  BY <1>s, GapNumbers
<1>2. Ended(Done(s)) /\ \A i : Ended(Done([s EXCEPT !.mine = i]))
  BY <1>1 DEF Done, Local
<1>3. Again(s).waited = s.waited \/ Ended(Again(s))
  BY <1>1, <1>2 DEF Again, Local
<1>4. t.waited = s.waited \/ Ended(t)
  <2>1. CASE Check(g)
    <3>1. \/ t = [s EXCEPT !.pc = "write"]
          \/ t = [s EXCEPT !.pc = "stat"]
          \/ t = [s EXCEPT !.pc = "relRead", !.ino = s.mine, !.mine = "none"]
          \/ t = Done(s)
      BY <1>s, <1>t, <2>1, GoesOne DEF Check
    <3> QED BY <1>1, <1>2, <1>3, <3>1 DEF Local
  <2>2. CASE StatMine(g)
    <3>1. \/ t = [s EXCEPT !.pc = "truncate"]
          \/ t = [s EXCEPT !.pc = "write", !.mine = "none"]
      BY <1>s, <1>t, <2>2, GoesOne DEF StatMine
    <3> QED BY <1>1, <1>2, <1>3, <3>1 DEF Local
  <2>3. CASE Truncate(g)
    <3>1. \E i : t = [s EXCEPT !.pc = "stamp", !.ino = i]
      BY <1>s, <1>t, <2>3, GoesOne DEF Truncate
    <3> QED BY <1>1, <1>2, <1>3, <3>1 DEF Local
  <2>4. CASE Stamp(g)
    <3>1. t = Done(s)
      BY <1>s, <1>t, <2>4, GoesOne DEF Stamp
    <3> QED BY <1>1, <1>2, <1>3, <3>1 DEF Local
  <2>5. CASE WriteClaim(g)
    <3>1. \E i : t = [s EXCEPT !.pc = "link", !.ino = i]
      BY <1>s, <1>t, <2>5, GoesOne DEF WriteClaim
    <3> QED BY <1>1, <1>2, <1>3, <3>1 DEF Local
  <2>6. CASE Link(g)
    <3>1. \/ t = [s EXCEPT !.pc = "know", !.age = 0]
          \/ t = [s EXCEPT !.pc = "look", !.ino = "none", !.age = 0]
      BY <1>s, <1>t, <2>6, GoesOne DEF Link
    <3> QED BY <1>1, <1>2, <1>3, <3>1 DEF Local
  <2>7. CASE Know(g)
    <3>1. \/ t = [s EXCEPT !.pc = "look", !.ino = "none"]
          \/ (\E i : t = Done([s EXCEPT !.mine = i]))
      BY <1>s, <1>t, <2>7, GoesOne DEF Know
    <3> QED BY <1>1, <1>2, <1>3, <3>1 DEF Local
  <2>8. CASE Look(g)
    <3>1. \/ t = Again(s)
          \/ t = [s EXCEPT !.pc = "read", !.ino = lease.ino, !.age = lease.age]
      BY <1>s, <1>t, <2>8, GoesOne DEF Look
    <3> QED BY <1>1, <1>2, <1>3, <3>1 DEF Local
  <2>9. CASE Read(g)
    <3>1. \/ t = [s EXCEPT !.pc = "remove", !.age = 0]
          \/ t = Done(s)
      BY <1>s, <1>t, <2>9, GoesOne DEF Read
    <3> QED BY <1>1, <1>2, <1>3, <3>1 DEF Local
  <2>10. CASE Remove(g)
    <3>1. \/ t = [s EXCEPT !.pc = "unlink"]
          \/ t = Again(s)
      BY <1>s, <1>t, <2>10, GoesOne DEF Remove
    <3> QED BY <1>1, <1>2, <1>3, <3>1 DEF Local
  <2>11. CASE Unlink(g)
    <3>1. t = Again(s)
      BY <1>s, <1>t, <2>11, GoesOne DEF Unlink
    <3> QED BY <1>1, <1>2, <1>3, <3>1 DEF Local
  <2>12. CASE ReleaseRead(g)
    <3>1. \/ t = [s EXCEPT !.pc = "relStat"]
          \/ t = Done(s)
      BY <1>s, <1>t, <2>12, GoesOne DEF ReleaseRead
    <3> QED BY <1>1, <1>2, <1>3, <3>1 DEF Local
  <2>13. CASE ReleaseStat(g)
    <3>1. \/ t = [s EXCEPT !.pc = "relUnlink"]
          \/ t = Done(s)
      BY <1>s, <1>t, <2>13, GoesOne DEF ReleaseStat
    <3> QED BY <1>1, <1>2, <1>3, <3>1 DEF Local
  <2>14. CASE ReleaseUnlink(g)
    <3>1. t = Done(s)
      BY <1>s, <1>t, <2>14, GoesOne DEF ReleaseUnlink
    <3> QED BY <1>1, <1>2, <1>3, <3>1 DEF Local
  <2> QED BY <2>1, <2>2, <2>3, <2>4, <2>5, <2>6, <2>7,
             <2>8, <2>9, <2>10, <2>11, <2>12, <2>13, <2>14 DEF Works
<1> QED BY <1>s, <1>t, <1>4

\* Linking a claim where there was none is all but the end of every gap.
LEMMA LinkCloses ==
    ASSUME TypesInv, NEW g \in Engines, Link(g), lease = NoLease,
           NEW n \in Nat, n <= Overdue + Slack
    PROVE  Closing(n)'
<1>s. PICK s : s = engine[g]
  OBVIOUS
<1>1. s \in Local /\ s.waited \in Nat /\ s.ino \in Inodes
  BY <1>s, GapNumbers DEF TypesInv, Sound, Link, At
<1>2. engine'[g] = [s EXCEPT !.pc = "know", !.age = 0] /\ s.up = "running"
  BY <1>s, GoesOne DEF Link, At
<1>3. engine'[g].pc = "know" /\ engine'[g].up = "running" /\ engine'[g].waited = s.waited
  BY <1>1, <1>2 DEF Local
<1>4. lease'.ino = s.ino
  BY <1>s DEF Link
<1>5. lease' # NoLease
  BY <1>1, <1>4, ServicesAssumption DEF NoLease
<1>6. n <= Overdue + Slack + s.waited
  BY <1>1, GapBound, ServicesAssumption
<1> QED BY <1>3, <1>5, <1>6 DEF Closing, At

\* A step of an engine that waits and whose check began in the gap: it goes on
\* with the lease it looked at, or ends where the lease is young, and a lease
\* that names a dead engine is never left for its age.
LEMMA OnTrackWorks ==
    ASSUME TypesInv, NEW g \in Engines, Steady(engine[g]), Works(g), Waits(g),
           ~(lease = NoLease /\ Link(g)), NEW n \in Nat, Aged(n), OnTrack(engine[g], n)
    PROVE  /\ OnTrack(engine[g], n)'
           /\ \/ engine'[g].waited = engine[g].waited
              \/ n <= StaleTicks - 1 /\ (lease.by = "gone" => "recycle" \in Faults)
<1>s. PICK s : s = engine[g]
  OBVIOUS
<1>t. PICK t : t = engine'[g]
  OBVIOUS
<1>a. /\ s \in Local /\ s.waited \in Nat /\ s.waited <= Slack
      /\ s.attempt \in 0 .. 2 /\ s.age \in Nat /\ s.age <= StaleTicks
      /\ lease.age \in Nat /\ lease.age <= StaleTicks
      /\ lease # NoLease => lease.ino \in Inodes /\ lease.ino # "none"
  BY <1>s, GapNumbers
<1>b. StaleTicks \in Nat \ {0}
  BY ServicesAssumption
<1>c. Aged(n)
  OBVIOUS
<1>d. s.able /\ s.mine = "none"
  BY <1>s DEF Waits, Supervisors
<1>e. ~(lease = NoLease /\ Link(g))
  OBVIOUS
<1>1. OnTrack(s, n)
  BY <1>s
<1> SUFFICES /\ OnTrack(t, n)'
             /\ \/ t.waited = s.waited
                \/ n <= StaleTicks - 1 /\ (lease.by = "gone" => "recycle" \in Faults)
  BY <1>s, <1>t DEF OnTrack
<1>2. CASE Check(g)
  <2>1. s.pc = "idle" /\ lease' = lease
    BY <1>s, <1>2 DEF Check, At
  <2>2. t = [s EXCEPT !.pc = "write"]
    BY <1>s, <1>t, <1>d, <1>2, GoesOne DEF Check
  <2>3. t.pc = "write" /\ t.attempt = s.attempt /\ t.waited = s.waited
    BY <1>a, <2>2 DEF Local
  <2> QED BY <1>c, <1>1, <2>1, <2>3 DEF OnTrack
<1>3. CASE WriteClaim(g)
  <2>1. PICK i : t = [s EXCEPT !.pc = "link", !.ino = i]
    BY <1>s, <1>t, <1>3, GoesOne DEF WriteClaim
  <2>2. t.pc = "link" /\ t.attempt = s.attempt /\ t.waited = s.waited
    BY <1>a, <2>1 DEF Local
  <2>3. lease' = lease
    BY <1>3 DEF WriteClaim
  <2> QED BY <1>c, <1>1, <2>2, <2>3 DEF OnTrack
<1>4. CASE Link(g)
  <2>1. lease # NoLease
    BY <1>e, <1>4
  <2>2. t = [s EXCEPT !.pc = "look", !.ino = "none", !.age = 0] /\ lease' = lease
    BY <1>s, <1>t, <1>4, <2>1, GoesOne DEF Link
  <2>3. t.pc = "look" /\ t.attempt = s.attempt /\ t.waited = s.waited
    BY <1>a, <2>2 DEF Local
  <2> QED BY <1>c, <1>1, <2>1, <2>2, <2>3 DEF OnTrack
<1>5. CASE Look(g)
  <2>1. s.pc = "look" /\ s.attempt = 0 /\ lease' = lease
    BY <1>s, <1>1, <1>5 DEF Look, At, OnTrack
  <2>2. CASE lease = NoLease
    <3>1. t = Again(s)
      BY <1>s, <1>t, <1>5, <2>2, GoesOne DEF Look
    <3>2. t.pc = "write" /\ t.waited = s.waited
      BY <1>a, <2>1, <3>1 DEF Again, Local
    <3> QED BY <1>c, <2>1, <2>2, <3>2 DEF OnTrack
  <2>3. CASE lease # NoLease
    <3>1. t = [s EXCEPT !.pc = "read", !.ino = lease.ino, !.age = lease.age]
      BY <1>s, <1>t, <1>5, <2>3, GoesOne DEF Look
    <3>2. /\ t.pc = "read" /\ t.ino = lease.ino /\ t.age = lease.age
          /\ t.attempt = s.attempt /\ t.waited = s.waited
      BY <1>a, <3>1 DEF Local
    <3> QED BY <1>c, <2>1, <2>3, <3>2 DEF OnTrack, Aged
  <2> QED BY <2>2, <2>3
<1>6. CASE Read(g)
  <2>1. s.pc = "read" /\ s.attempt = 0 /\ lease' = lease
    BY <1>s, <1>1, <1>6 DEF Read, At, OnTrack
  <2>a. PICK age : age = (IF lease.by = "nobody" THEN s.age ELSE lease.age)
    OBVIOUS
  <2>2. \/ t = [s EXCEPT !.pc = "remove", !.age = 0]
        \/ /\ t = Done(s) /\ ~(age >= StaleTicks)
           /\ lease.by = "gone" => "recycle" \in Faults
    BY <1>s, <1>t, <1>6, <2>a, GoesOne DEF Read, Over, PidAlive
  <2>3. CASE t = [s EXCEPT !.pc = "remove", !.age = 0]
    <3>1. /\ t.pc = "remove" /\ t.ino = s.ino
          /\ t.attempt = s.attempt /\ t.waited = s.waited
      BY <1>a, <2>3 DEF Local
    <3> QED BY <1>c, <1>1, <2>1, <3>1 DEF OnTrack
  <2>4. CASE /\ t = Done(s) /\ ~(age >= StaleTicks)
             /\ lease.by = "gone" => "recycle" \in Faults
    <3>1. t.pc = "idle" /\ t.attempt = 0 /\ t.waited = 0
      BY <1>a, <2>4 DEF Done, Local
    <3>2. n <= StaleTicks - 1
      <4>1. CASE lease = NoLease
        <5>1. lease.by = "nobody"
          BY <4>1 DEF NoLease
        <5> QED BY <1>a, <1>b, <1>1, <2>1, <2>4, <2>a, <5>1 DEF OnTrack
      <4>2. CASE lease # NoLease
        <5>1. lease.by = "nobody" => lease.age <= s.age
          BY <1>s, <2>1 DEF Steady
        <5>2. ~(lease.age >= StaleTicks)
          BY <1>a, <1>b, <2>4, <2>a, <5>1
        <5> QED BY <1>a, <1>b, <1>c, <4>2, <5>2 DEF Aged
      <4> QED BY <4>1, <4>2
    <3> QED BY <2>4, <3>1, <3>2 DEF OnTrack
  <2> QED BY <2>2, <2>3, <2>4
<1>7. CASE Remove(g)
  <2>1. s.pc = "remove" /\ s.attempt = 0 /\ lease' = lease
    BY <1>s, <1>1, <1>7 DEF Remove, At, OnTrack
  <2>2. CASE SameFile(s)
    <3>1. t = [s EXCEPT !.pc = "unlink"]
      BY <1>s, <1>t, <1>7, <2>2, GoesOne DEF Remove
    <3>2. t.pc = "unlink" /\ t.attempt = s.attempt /\ t.waited = s.waited
      BY <1>a, <3>1 DEF Local
    <3> QED BY <1>c, <2>1, <3>2 DEF OnTrack
  <2>3. CASE ~SameFile(s)
    <3>1. lease = NoLease
      BY <1>1, <2>1, <2>3 DEF OnTrack, SameFile
    <3>2. t = Again(s)
      BY <1>s, <1>t, <1>7, <2>3, GoesOne DEF Remove
    <3>3. t.pc = "write" /\ t.waited = s.waited
      BY <1>a, <2>1, <3>2 DEF Again, Local
    <3> QED BY <1>c, <2>1, <3>1, <3>3 DEF OnTrack
  <2> QED BY <2>2, <2>3
<1>8. CASE Unlink(g)
  <2>1. s.pc = "unlink" /\ s.attempt = 0 /\ lease' = NoLease
    BY <1>s, <1>1, <1>8 DEF Unlink, At, OnTrack
  <2>2. t = Again(s)
    BY <1>s, <1>t, <1>8, GoesOne DEF Unlink
  <2>3. t.pc = "write" /\ t.waited = s.waited
    BY <1>a, <2>1, <2>2 DEF Again, Local
  <2> QED BY <1>c, <2>1, <2>3 DEF OnTrack
<1>9. ~(StatMine(g) \/ Truncate(g) \/ Stamp(g) \/ Know(g) \/ ReleaseRead(g) \/ ReleaseStat(g)
        \/ ReleaseUnlink(g))
  BY <1>s, <1>1 DEF OnTrack, StatMine, Truncate, Stamp, Know, ReleaseRead, ReleaseStat,
     ReleaseUnlink, At
<1> QED BY <1>2, <1>3, <1>4, <1>5, <1>6, <1>7, <1>8, <1>9 DEF Works

\* What comes of it for a gap: the check ends in time.  One that began before
\* the gap may come to nothing, but is over within Slack of it.
LEMMA PatientWorks ==
    ASSUME TypesInv, NEW g \in Engines, Steady(engine[g]), Works(g), Waits(g),
           Supervisors' = {}, NEW n \in Nat, n > 0, Patient(engine[g], n)
    PROVE  Closing(n)' \/ Patient(engine[g], n)'
<1>s. PICK s : s = engine[g]
  OBVIOUS
<1>t. PICK t : t = engine'[g]
  OBVIOUS
<1>1. /\ s \in Local /\ s.waited \in Nat /\ s.waited <= Slack
      /\ s.attempt \in 0 .. 2 /\ s.age \in Nat /\ s.age <= StaleTicks
      /\ lease.age \in Nat /\ lease.age <= StaleTicks
      /\ lease # NoLease => lease.ino \in Inodes /\ lease.ino # "none"
  BY <1>s, GapNumbers
<1>2. /\ Slack \in Nat /\ StaleTicks \in Nat \ {0}
      /\ Overdue \in Nat /\ StaleTicks - 1 <= Overdue /\ Slack <= Overdue
  BY GapBound, ServicesAssumption
<1>3. /\ n <= Overdue + s.waited /\ Aged(n)
      /\ n > s.waited => OnTrack(s, n)
  BY <1>s DEF Patient
<1>4. s.able /\ s.mine = "none"
  BY <1>s DEF Waits, Supervisors
<1>5. /\ lease' = lease \/ lease' = NoLease \/ (lease = NoLease /\ Link(g))
  BY LeaseInGap DEF Waits
<1>6. CASE lease = NoLease /\ Link(g)
  <2>1. n <= Overdue + Slack
    BY <1>1, <1>2, <1>3
  <2> QED BY <1>6, <2>1, LinkCloses
<1>7. CASE ~(lease = NoLease /\ Link(g))
  <2>1. Aged(n)'
    BY <1>3, <1>5, <1>7 DEF Aged
  <2>2. CASE n <= s.waited
    <3>1. \/ t.waited = s.waited
          \/ t.waited = 0 /\ t.pc = "idle" /\ t.attempt = 0
      BY <1>s, <1>t, WaitedOrDone
    <3>2. n <= Overdue + t.waited
      <4>1. n <= Slack /\ n <= Overdue
        BY <1>1, <1>2, <2>2
      <4>2. t.waited \in Nat
        BY <1>1, <3>1
      <4> QED BY <1>2, <4>1, <4>2
    <3>3. n > t.waited => OnTrack(t, n)'
      <4>1. CASE t.waited = s.waited
        BY <1>1, <2>2, <4>1
      <4>2. CASE t.waited = 0 /\ t.pc = "idle" /\ t.attempt = 0
        BY <4>2 DEF OnTrack
      <4> QED BY <3>1, <4>1, <4>2
    <3> QED BY <1>t, <2>1, <3>2, <3>3 DEF Patient
  <2>3. CASE n > s.waited
    <3>1. OnTrack(s, n)
      BY <1>3, <2>3
    <3>2. OnTrack(t, n)'
      BY <1>s, <1>t, <1>3, <1>7, <3>1, OnTrackWorks DEF OnTrack
    <3>3. n <= Overdue + t.waited
      <4>1. t.waited = s.waited \/ n <= StaleTicks - 1
        BY <1>s, <1>t, <1>3, <1>7, <3>1, OnTrackWorks
      <4>2. CASE t.waited = s.waited
        BY <1>3, <4>2
      <4>3. CASE n <= StaleTicks - 1
        <5>1. t.waited \in Nat
          BY <1>1, <1>s, <1>t, WaitedOrDone
        <5> QED BY <1>2, <4>3, <5>1
      <4> QED BY <4>1, <4>2, <4>3
    <3> QED BY <1>t, <2>1, <3>2, <3>3 DEF Patient
  <2> QED BY <1>1, <2>2, <2>3
<1> QED BY <1>6, <1>7

\* An engine that waits while another makes a step.
LEMMA PatientOthers ==
    ASSUME TypesInv, NEW g \in Engines, Steady(engine[g]), Works(g), Supervisors = {},
           NEW e \in Engines, e # g, NEW n \in Nat, Patient(engine[e], n)
    PROVE  Closing(n)' \/ Patient(engine[e], n)'
<1>1. engine'[e] = engine[e]
  BY WorksOthers
<1>2. lease' = lease \/ lease' = NoLease \/ (lease = NoLease /\ Link(g))
  BY LeaseInGap
<1>3. CASE lease' = lease \/ lease' = NoLease
  BY <1>1, <1>3 DEF Patient, Aged, OnTrack
<1>4. CASE lease = NoLease /\ Link(g)
  <2>1. n <= Overdue + Slack
    BY GapNumbers, GapBound, ServicesAssumption DEF Patient
  <2> QED BY <1>4, <2>1, LinkCloses
<1> QED BY <1>2, <1>3, <1>4

-----------------------------------------------------------------------------
(* Every step.                                                             *)

LEMMA WorksSteady ==
    ASSUME TypesInv, NEW g \in Engines, \A e \in Engines : Steady(engine[e]), Works(g)
    PROVE  \A e \in Engines : Steady(engine[e])'
<1>s. PICK s : s = engine[g]
  OBVIOUS
<1>t. PICK t : t = engine'[g]
  OBVIOUS
<1>1. /\ s \in Local /\ s.age \in Nat /\ s.waited \in Nat
      /\ lease # NoLease => lease.ino \in Inodes /\ lease.ino # "none"
  BY <1>s, GapNumbers
<1>2. \A e \in Engines : engine[e].age \in Nat /\ lease.age \in Nat
  BY GapNumbers
<1>3. lease'.by = "nobody" => lease'.age = 0 \/ lease' = lease
  <2>1. CASE Link(g)
    BY <2>1, ServicesAssumption DEF Link
  <2>2. CASE Stamp(g)
    <3>1. lease.ino = s.ino => lease'.by = g
      <4>1. lease.ino = s.ino => lease # NoLease
        BY <1>s, <2>2, ServicesAssumption DEF TypesInv, Sound, Stamp, At, NoLease
      <4> QED BY <1>s, <2>2, <4>1 DEF Stamp, TypesInv, TypeOK, Leases
    <3> QED BY <1>s, <2>2, <3>1, ServicesAssumption DEF Stamp
  <2>3. CASE Truncate(g)
    BY <2>3 DEF Truncate
  <2>4. CASE ~(Link(g) \/ Stamp(g) \/ Truncate(g))
    <3>1. lease' = lease \/ lease' = NoLease
      BY <2>4 DEF Works, Check, StatMine, WriteClaim, Know, Look, Read,
         Remove, Unlink, ReleaseRead, ReleaseStat, ReleaseUnlink
    <3> QED BY <3>1 DEF NoLease
  <2> QED BY <2>1, <2>2, <2>3, <2>4
<1>4. ASSUME NEW e \in Engines, e # g PROVE Steady(engine[e])'
  <2>1. engine'[e] = engine[e] /\ Steady(engine[e])
    BY <1>4, WorksOthers
  <2>2. engine[e].pc = "read" /\ lease'.by = "nobody" => lease'.age <= engine[e].age
    BY <1>2, <1>3, <2>1 DEF Steady
  <2> QED BY <2>1, <2>2 DEF Steady
<1>5. Steady(t)'
  <2>0. s.pc \in {"stat"} \cup Writes => s.mine # "none"
    BY <1>s DEF Steady
  <2>d. /\ Done(s).pc = "idle" /\ \A i : Done([s EXCEPT !.mine = i]).pc = "idle"
        /\ Again(s).pc \in {"write", "idle"}
    BY <1>1 DEF Done, Again, Local
  <2>1. CASE Check(g)
    <3>1. \/ s.mine # "none" /\ t = [s EXCEPT !.pc = "stat"]
          \/ t = [s EXCEPT !.pc = "write"] \/ t = Done(s)
          \/ t = [s EXCEPT !.pc = "relRead", !.ino = s.mine, !.mine = "none"]
      BY <1>s, <1>t, <2>1, GoesOne DEF Check
    <3>2. \/ t.pc = "stat" /\ t.mine # "none"
          \/ t.pc \in {"write", "idle", "relRead"}
      BY <1>1, <2>d, <3>1 DEF Local
    <3> QED BY <3>2 DEF Steady, Writes
  <2>2. CASE StatMine(g)
    <3>1. s.pc = "stat"
      BY <1>s, <2>2 DEF StatMine, At
    <3>2. \/ t = [s EXCEPT !.pc = "truncate"]
          \/ t = [s EXCEPT !.pc = "write", !.mine = "none"]
      BY <1>s, <1>t, <2>2, GoesOne DEF StatMine
    <3>3. \/ t.pc = "truncate" /\ t.mine = s.mine
          \/ t.pc = "write"
      BY <1>1, <3>2 DEF Local
    <3> QED BY <2>0, <3>1, <3>3 DEF Steady, Writes
  <2>3. CASE Truncate(g)
    <3>1. s.pc = "truncate"
      BY <1>s, <2>3 DEF Truncate, At
    <3>2. PICK i : t = [s EXCEPT !.pc = "stamp", !.ino = i]
      BY <1>s, <1>t, <2>3, GoesOne DEF Truncate
    <3>3. t.pc = "stamp" /\ t.mine = s.mine
      BY <1>1, <3>2 DEF Local
    <3> QED BY <2>0, <3>1, <3>3 DEF Steady, Writes
  <2>4. CASE Look(g)
    <3>1. CASE lease = NoLease
      <4>1. t = Again(s)
        BY <1>s, <1>t, <2>4, <3>1, GoesOne DEF Look
      <4> QED BY <2>d, <4>1 DEF Steady, Writes
    <3>2. CASE lease # NoLease
      <4>1. t = [s EXCEPT !.pc = "read", !.ino = lease.ino, !.age = lease.age]
        BY <1>s, <1>t, <2>4, <3>2, GoesOne DEF Look
      <4>2. t.pc = "read" /\ t.ino = lease.ino /\ t.age = lease.age /\ lease' = lease
        BY <1>1, <2>4, <4>1 DEF Local, Look
      <4> QED BY <1>1, <1>2, <3>2, <4>2 DEF Steady, Writes
    <3> QED BY <3>1, <3>2
  <2>5. CASE ~(Check(g) \/ StatMine(g) \/ Truncate(g) \/ Look(g))
    <3>1. t.pc \in {"idle", "write", "link", "know", "look", "remove", "unlink",
                    "relStat", "relUnlink"}
      <4>1. CASE Stamp(g)
        <5>1. t = Done(s)
          BY <1>s, <1>t, <4>1, GoesOne DEF Stamp
        <5> QED BY <2>d, <5>1
      <4>2. CASE WriteClaim(g)
        <5>1. PICK i : t = [s EXCEPT !.pc = "link", !.ino = i]
          BY <1>s, <1>t, <4>2, GoesOne DEF WriteClaim
        <5> QED BY <1>1, <5>1 DEF Local
      <4>3. CASE Link(g)
        <5>1. \/ t = [s EXCEPT !.pc = "know", !.age = 0]
              \/ t = [s EXCEPT !.pc = "look", !.ino = "none", !.age = 0]
          BY <1>s, <1>t, <4>3, GoesOne DEF Link
        <5> QED BY <1>1, <5>1 DEF Local
      <4>4. CASE Know(g)
        <5>1. \/ t = [s EXCEPT !.pc = "look", !.ino = "none"]
              \/ \E i : t = Done([s EXCEPT !.mine = i])
          BY <1>s, <1>t, <4>4, GoesOne DEF Know
        <5>2. CASE t = [s EXCEPT !.pc = "look", !.ino = "none"]
          BY <1>1, <5>2 DEF Local
        <5>3. CASE \E i : t = Done([s EXCEPT !.mine = i])
          BY <2>d, <5>3
        <5> QED BY <5>1, <5>2, <5>3
      <4>5. CASE Read(g)
        <5>1. t = [s EXCEPT !.pc = "remove", !.age = 0] \/ t = Done(s)
          BY <1>s, <1>t, <4>5, GoesOne DEF Read
        <5> QED BY <1>1, <2>d, <5>1 DEF Local
      <4>6. CASE Remove(g)
        <5>1. t = [s EXCEPT !.pc = "unlink"] \/ t = Again(s)
          BY <1>s, <1>t, <4>6, GoesOne DEF Remove
        <5> QED BY <1>1, <2>d, <5>1 DEF Local
      <4>7. CASE Unlink(g)
        <5>1. t = Again(s)
          BY <1>s, <1>t, <4>7, GoesOne DEF Unlink
        <5> QED BY <2>d, <5>1
      <4>8. CASE ReleaseRead(g)
        <5>1. t = [s EXCEPT !.pc = "relStat"] \/ t = Done(s)
          BY <1>s, <1>t, <4>8, GoesOne DEF ReleaseRead
        <5> QED BY <1>1, <2>d, <5>1 DEF Local
      <4>9. CASE ReleaseStat(g)
        <5>1. t = [s EXCEPT !.pc = "relUnlink"] \/ t = Done(s)
          BY <1>s, <1>t, <4>9, GoesOne DEF ReleaseStat
        <5> QED BY <1>1, <2>d, <5>1 DEF Local
      <4>10. CASE ReleaseUnlink(g)
        <5>1. t = Done(s)
          BY <1>s, <1>t, <4>10, GoesOne DEF ReleaseUnlink
        <5> QED BY <2>d, <5>1
      <4> QED BY <2>5, <4>1, <4>2, <4>3, <4>4, <4>5, <4>6, <4>7, <4>8, <4>9, <4>10
              DEF Works
    <3> QED BY <3>1 DEF Steady, Writes
  <2> QED BY <2>1, <2>2, <2>3, <2>4, <2>5
<1> QED BY <1>t, <1>4, <1>5 DEF Steady

LEMMA WorksGap ==
    ASSUME TypesInv, GapInv, NEW g \in Engines, Works(g), Counts(0) PROVE GapInv'
<1>1. \A e \in Engines : Steady(engine[e])'
  BY WorksSteady DEF GapInv
<1>2. ASSUME NEW e \in Engines, gap'[e] > 0
      PROVE  Waits(e)' /\ (Closing(gap[e]) \/ Patient(engine[e], gap[e]))'
  <2>1. /\ ~Overtakes /\ Waits(e)' /\ gap[e] > 0
        /\ gap[e] \in Nat /\ gap'[e] \in Nat /\ gap'[e] <= gap[e]
    BY <1>2, GapWas
  <2>2. /\ Waits(e) /\ (Closing(gap[e]) \/ Patient(engine[e], gap[e]))
        /\ Steady(engine[g])
    BY <2>1 DEF GapInv
  <2>3. PICK n \in Nat : n = gap'[e]
    BY <2>1
  <2>4. n > 0 /\ (Closing(n) \/ Patient(engine[e], n))
    BY <1>2, <2>1, <2>2, <2>3, Shorter
  <2>5. Supervisors = {} /\ Supervisors' = {}
    BY <2>1, <2>2 DEF Waits
  <2>6. Closing(n)' \/ Patient(engine[e], n)'
    <3>1. CASE Closing(n)
      BY <2>1, <2>2, <2>5, <3>1, ClosingWorks
    <3>2. CASE Patient(engine[e], n) /\ e = g
      BY <2>2, <2>4, <2>5, <3>2, PatientWorks
    <3>3. CASE Patient(engine[e], n) /\ e # g
      BY <2>2, <2>5, <3>3, PatientOthers
    <3> QED BY <2>4, <3>1, <3>2, <3>3
  <2>7. Closing(n)' => Closing(gap[e])'
    BY <2>3 DEF Closing
  <2>8. Patient(engine[e], n)' => Patient(engine[e], gap[e])'
    BY <2>3 DEF Patient, Aged, OnTrack
  <2> QED BY <2>1, <2>6, <2>7, <2>8
<1> QED BY <1>1, <1>2 DEF GapInv

\* What happens to an engine leaves the others' gaps alone, or is a fault.
LEMMA HappensGap ==
    ASSUME TypesInv, GapInv, NEW g \in Engines, Happens(g), Counts(0) PROVE GapInv'
<1>s. PICK s : s = engine[g]
  OBVIOUS
<1>t. PICK t : t = engine'[g]
  OBVIOUS
<1>1. s \in Local /\ faults \in Nat /\ \A e \in Engines : engine[e].age \in Nat
  BY <1>s, GapNumbers, ServicesAssumption DEF TypesInv, TypeOK
<1>2. \A f \in Engines : f # g => engine'[f] = engine[f]
  BY GoesOne DEF Happens, Boot, Die, Freeze, Thaw, LoseMeans, GainMeans
<1>3. /\ lease'.age = lease.age /\ (lease'.by = "nobody" => lease.by = "nobody")
  <2>1. CASE Die(g)
    <3>1. lease' = [lease EXCEPT !.by = IF @ = g THEN "gone" ELSE @]
      BY <2>1 DEF Die
    <3>2. lease \in Leases
      BY DEF TypesInv, TypeOK
    <3> QED BY <3>1, <3>2, ServicesAssumption DEF Leases, NoLease
  <2>2. CASE ~Die(g)
    BY <2>2 DEF Happens, Boot, Freeze, Thaw, LoseMeans, GainMeans
  <2> QED BY <2>1, <2>2
<1>4. t = [Off EXCEPT !.able = s.able]
      \/ (t.pc = s.pc /\ t.mine = s.mine /\ t.ino = s.ino /\ t.age = s.age)
  <2>1. \/ t = [Off EXCEPT !.able = s.able]
        \/ t = [s EXCEPT !.up = "running"]
        \/ t = [s EXCEPT !.up = "frozen"]
        \/ t = [s EXCEPT !.up = "running", !.waited = 0]
        \/ t = [s EXCEPT !.able = FALSE]
        \/ t = [s EXCEPT !.able = TRUE]
    BY <1>s, <1>t, GoesOne DEF Happens, Boot, Die, Freeze, Thaw, LoseMeans, GainMeans
  <2> QED BY <1>1, <2>1 DEF Local
<1>5. Steady(t)'
  <2>1. Steady(s)
    BY <1>s DEF GapInv
  <2>2. CASE t = [Off EXCEPT !.able = s.able]
    BY <2>2 DEF Off, Steady, Writes
  <2>3. CASE t.pc = s.pc /\ t.mine = s.mine /\ t.ino = s.ino /\ t.age = s.age
    BY <1>3, <2>1, <2>3 DEF Steady
  <2> QED BY <1>4, <2>2, <2>3
<1>6. ASSUME NEW e \in Engines PROVE Steady(engine[e])'
  <2>1. CASE e = g
    BY <1>t, <1>5, <2>1 DEF Steady
  <2>2. CASE e # g
    BY <1>2, <1>3, <2>2 DEF GapInv, Steady
  <2> QED BY <2>1, <2>2
<1>7. ASSUME NEW e \in Engines, gap'[e] > 0
      PROVE  Waits(e)' /\ (Closing(gap[e]) \/ Patient(engine[e], gap[e]))'
  <2>1. /\ faults' = faults /\ Waits(e)' /\ gap[e] > 0
        /\ gap[e] \in Nat /\ gap'[e] \in Nat /\ gap'[e] <= gap[e]
    BY <1>7, GapWas
  <2>2. Waits(e) /\ (Closing(gap[e]) \/ Patient(engine[e], gap[e]))
    BY <2>1 DEF GapInv
  <2>3. PICK n \in Nat : n = gap'[e]
    BY <2>1
  <2>4. Closing(n) \/ Patient(engine[e], n)
    BY <2>1, <2>2, <2>3, Shorter
  <2>5. Boot(g) \/ Thaw(g) \/ GainMeans(g)
    <3>1. faults' # faults + 1
      BY <1>1, <2>1
    <3> QED BY <3>1 DEF Happens, Die, Freeze, LoseMeans, Fault
  <2>6. lease' = lease /\ (s.up = "running" => GainMeans(g)) /\ e # g
    BY <1>s, <2>2, <2>5 DEF Boot, Thaw, GainMeans, Waits
  <2>7. s.up = "running" => t.pc = s.pc /\ t.up = s.up /\ t.waited = s.waited
    <3>1. s.up = "running" => t = [s EXCEPT !.able = TRUE]
      BY <1>s, <1>t, <2>6, GoesOne DEF GainMeans
    <3> QED BY <1>1, <3>1 DEF Local
  <2>8. Closing(n) => Closing(n)'
    <3> SUFFICES ASSUME Closing(n) PROVE Closing(n)'
      OBVIOUS
    <3>1. PICK f \in Engines : At(f, "know") /\ n <= Overdue + Slack + engine[f].waited
      BY DEF Closing
    <3>2. At(f, "know")' /\ engine'[f].waited = engine[f].waited
      BY <1>s, <1>t, <1>2, <2>7, <3>1 DEF At
    <3> QED BY <2>6, <3>1, <3>2 DEF Closing
  <2>9. Patient(engine[e], n) => Patient(engine[e], n)'
    BY <1>2, <2>6 DEF Patient, Aged, OnTrack
  <2>10. Closing(n)' => Closing(gap[e])'
    BY <2>3 DEF Closing
  <2>11. Patient(engine[e], n)' => Patient(engine[e], gap[e])'
    BY <2>3 DEF Patient, Aged, OnTrack
  <2> QED BY <2>1, <2>4, <2>8, <2>9, <2>10, <2>11
<1> QED BY <1>6, <1>7 DEF GapInv

\* An interval makes the gaps, the checks and the files older together.
LEMMA TickAges ==
    ASSUME TypesInv, Tick
    PROVE  /\ lease'.by = lease.by /\ lease'.ino = lease.ino
           /\ lease'.age = Older(lease.ino, lease.age)
           /\ lease' = NoLease <=> lease = NoLease
           /\ \A e \in Engines :
                 /\ engine'[e].pc = engine[e].pc /\ engine'[e].up = engine[e].up
                 /\ engine'[e].mine = engine[e].mine /\ engine'[e].able = engine[e].able
                 /\ engine'[e].ino = engine[e].ino
                 /\ engine'[e].attempt = engine[e].attempt
                 /\ engine[e].up = "running" =>
                        engine'[e].waited = engine[e].waited + 1
                 /\ engine[e].pc = "read" =>
                        engine'[e].age = Older(engine[e].ino, engine[e].age)
<1>1. /\ lease'.by = lease.by /\ lease'.ino = lease.ino
      /\ lease'.age = Older(lease.ino, lease.age)
      /\ lease' = NoLease <=> lease = NoLease
  <2>1. lease \in Leases /\ lease' = [lease EXCEPT !.age = Older(lease.ino, @)]
    BY DEF Tick, TypesInv, TypeOK
  <2>2. /\ lease'.by = lease.by /\ lease'.ino = lease.ino
        /\ lease'.age = Older(lease.ino, lease.age)
    BY <2>1 DEF Leases, NoLease
  <2>3. lease = NoLease => lease' = NoLease
    BY <2>1 DEF Older, NoLease
  <2>4. lease # NoLease => lease' # NoLease
    BY <2>2, GapNumbers, ServicesAssumption DEF NoLease, TypesInv, TypeOK, Leases
  <2> QED BY <2>2, <2>3, <2>4
<1>2. ASSUME NEW e \in Engines
      PROVE  /\ engine'[e].pc = engine[e].pc /\ engine'[e].up = engine[e].up
             /\ engine'[e].mine = engine[e].mine /\ engine'[e].able = engine[e].able
             /\ engine'[e].ino = engine[e].ino /\ engine'[e].attempt = engine[e].attempt
             /\ engine[e].up = "running" => engine'[e].waited = engine[e].waited + 1
             /\ engine[e].pc = "read" =>
                    engine'[e].age = Older(engine[e].ino, engine[e].age)
  BY GapNumbers DEF Tick, Local
<1> QED BY <1>1, <1>2

\* What an engine that runs has been promised of a gap of m intervals it is
\* promised of one more.
LEMMA TickOnTrack ==
    ASSUME TypesInv, Tick, NEW e \in Engines, engine[e].up = "running",
           Steady(engine[e]), NEW m \in Nat, NEW n \in Nat, n <= m + 1
    PROVE  /\ Aged(m) => Aged(n)'
           /\ n > engine'[e].waited => m > engine[e].waited /\ m > 0
           /\ OnTrack(engine[e], m) => OnTrack(engine[e], n)'
<1>s. PICK s : s = engine[e]
  OBVIOUS
<1>t. PICK t : t = engine'[e]
  OBVIOUS
<1>1. /\ s.waited \in Nat /\ s.age \in Nat /\ s.age <= StaleTicks /\ StaleTicks \in Nat
      /\ lease.age \in Nat /\ lease.age <= StaleTicks
      /\ lease # NoLease => lease.ino # "none"
  BY <1>s, GapNumbers, ServicesAssumption
<1>2. /\ lease'.ino = lease.ino /\ lease'.age = Older(lease.ino, lease.age)
      /\ lease' = NoLease <=> lease = NoLease
  BY TickAges
<1>3. /\ t.pc = s.pc /\ t.ino = s.ino /\ t.attempt = s.attempt
      /\ t.waited = s.waited + 1
      /\ s.pc = "read" => t.age = Older(s.ino, s.age)
  BY <1>s, <1>t, TickAges
<1>4. Aged(m) => Aged(n)'
  BY <1>1, <1>2 DEF Aged, Older
<1>5. n > t.waited => m > s.waited /\ m > 0
  BY <1>1, <1>3
<1>6. OnTrack(s, m) => OnTrack(t, n)'
  <2> SUFFICES ASSUME OnTrack(s, m) PROVE OnTrack(t, n)'
    OBVIOUS
  <2>1. s.pc = "read" => n <= t.age \/ t.age = StaleTicks
    <3> SUFFICES ASSUME s.pc = "read" PROVE n <= t.age \/ t.age = StaleTicks
      OBVIOUS
    <3>1. s.ino # "none"
      BY <1>s DEF Steady
    <3>2. t.age = IF s.age < StaleTicks THEN s.age + 1 ELSE s.age
      BY <1>3, <3>1 DEF Older
    <3> QED BY <1>1, <3>2 DEF OnTrack
  <2> QED BY <1>2, <1>3, <2>1 DEF OnTrack
<1>7. OnTrack(engine[e], m) => OnTrack(engine[e], n)'
  BY <1>s, <1>t, <1>6 DEF OnTrack
<1> QED BY <1>s, <1>t, <1>4, <1>5, <1>7

LEMMA TickGap == ASSUME TypesInv, GapInv, Tick, Counts(1) PROVE GapInv'
<1>1. /\ Slack \in Nat /\ StaleTicks \in Nat \ {0}
      /\ Overdue \in Nat /\ StaleTicks - 1 <= Overdue /\ Slack <= Overdue
  BY GapBound, ServicesAssumption
<1>2. /\ lease'.by = lease.by /\ lease'.ino = lease.ino
      /\ lease'.age = Older(lease.ino, lease.age)
      /\ lease' = NoLease <=> lease = NoLease
  BY TickAges
<1>3. ASSUME NEW e \in Engines
      PROVE  /\ engine'[e].pc = engine[e].pc /\ engine'[e].up = engine[e].up
             /\ engine'[e].mine = engine[e].mine /\ engine'[e].ino = engine[e].ino
             /\ engine[e].up = "running" => engine'[e].waited = engine[e].waited + 1
             /\ engine[e].pc = "read" =>
                    engine'[e].age = Older(engine[e].ino, engine[e].age)
  BY TickAges
<1>4. \A e \in Engines :
         /\ engine[e].waited \in Nat /\ engine[e].age \in Nat /\ engine[e].age <= StaleTicks
         /\ lease.age \in Nat /\ lease.age <= StaleTicks /\ gap[e] \in Nat
         /\ lease # NoLease => lease.ino # "none"
  BY GapNumbers
<1>5. ASSUME NEW e \in Engines PROVE Steady(engine[e])'
  <2>1. Steady(engine[e])
    BY DEF GapInv
  <2>2. ASSUME engine[e].pc = "read", lease.by = "nobody"
        PROVE  Older(lease.ino, lease.age) <= Older(engine[e].ino, engine[e].age)
    BY <1>1, <1>4, <2>1, <2>2 DEF Steady, Older
  <2> QED BY <1>2, <1>3, <2>1, <2>2 DEF Steady
<1>6. ASSUME NEW e \in Engines, gap'[e] > 0
      PROVE  Waits(e)' /\ (Closing(gap[e]) \/ Patient(engine[e], gap[e]))'
  <2>1. /\ Waits(e)' /\ gap'[e] \in Nat /\ gap'[e] <= gap[e] + 1
    <3>1. gap[e] + 1 \in Nat
      BY <1>4
    <3> QED BY <1>6, <3>1, CappedLess DEF Counts
  <2>2. PICK s : s = engine[e]
    OBVIOUS
  <2>3. PICK t : t = engine'[e]
    OBVIOUS
  <2>4. PICK n \in Nat : n = gap'[e]
    BY <2>1
  <2>5. PICK m \in Nat : m = gap[e]
    BY <1>4
  <2>6. n > 0 /\ n <= m + 1
    BY <1>6, <2>1, <2>4, <2>5
  <2>7. s.up = "running" /\ t.waited = s.waited + 1 /\ s.waited \in Nat
    BY <1>3, <1>4, <2>1, <2>2, <2>3 DEF Waits
  <2>8. CASE m > 0 /\ Closing(m)
    <3>1. PICK f \in Engines : At(f, "know") /\ m <= Overdue + Slack + engine[f].waited
      BY <2>8 DEF Closing
    <3>2. At(f, "know")' /\ engine'[f].waited = engine[f].waited + 1
      BY <1>3, <3>1 DEF At
    <3>3. n <= Overdue + Slack + engine'[f].waited
      BY <1>1, <1>4, <2>6, <3>1, <3>2
    <3>4. lease' # NoLease
      BY <1>2, <2>8 DEF Closing
    <3>5. Closing(n)'
      BY <3>2, <3>3, <3>4 DEF Closing
    <3>6. Closing(n)' => Closing(gap[e])'
      BY <2>4 DEF Closing
    <3> QED BY <2>1, <3>5, <3>6
  <2>9. CASE m = 0 \/ (m > 0 /\ Patient(s, m))
    <3>1. n <= Overdue + t.waited
      BY <1>1, <2>6, <2>7, <2>9 DEF Patient
    <3>2. Aged(n)'
      <4>1. Aged(m)
        BY <1>4, <2>9 DEF Patient, Aged
      <4> QED BY <2>1, <2>2, <2>6, <2>7, <4>1, TickOnTrack DEF GapInv
    <3>3. ASSUME n > t.waited PROVE OnTrack(t, n)'
      <4>1. m > s.waited /\ m > 0
        BY <2>2, <2>3, <2>6, <2>7, <3>3, TickOnTrack DEF GapInv
      <4>2. OnTrack(s, m)
        BY <2>9, <4>1 DEF Patient
      <4>3. OnTrack(engine[e], n)'
        BY <2>2, <2>6, <2>7, <4>2, TickOnTrack DEF GapInv
      <4> QED BY <2>3, <4>3 DEF OnTrack
    <3>4. Patient(t, n)'
      BY <3>1, <3>2, <3>3 DEF Patient
    <3>5. Patient(engine[e], gap[e])'
      BY <2>3, <2>4, <3>4 DEF Patient, Aged, OnTrack
    <3> QED BY <2>1, <3>5
  <2> QED BY <2>2, <2>5, <2>8, <2>9 DEF GapInv
<1> QED BY <1>5, <1>6 DEF GapInv

LEMMA GapInit == Init => TypesInv /\ GapInv
<1> SUFFICES ASSUME Init PROVE GapInv
  BY TypesInit
<1>1. \A e \in Engines : engine[e] = Off /\ gap[e] = 0
  BY DEF Init
<1>2. Off.pc = "idle"
  BY DEF Off
<1> QED BY <1>1, <1>2 DEF GapInv, Steady, Writes

LEMMA GapStep == TypesInv /\ GapInv /\ [Next]_vars => (TypesInv /\ GapInv)'
<1> SUFFICES ASSUME TypesInv, GapInv, [Next]_vars PROVE GapInv'
  BY TypesStep
<1>1. CASE Tick /\ Counts(1)
  BY <1>1, TickGap
<1>2. ASSUME NEW e \in Engines, Works(e) \/ Happens(e), Counts(0) PROVE GapInv'
  BY <1>2, WorksGap, HappensGap
<1>3. CASE UNCHANGED vars
  BY <1>3 DEF vars, GapInv, Steady, Waits, Supervisors, Closing, Patient, Aged,
     OnTrack, At
<1> QED BY <1>1, <1>2, <1>3 DEF Next

\* Nothing waits for ever on a lease: while an engine is there and able, some
\* engine supervises within the stale window and the rest of two checks,
\* whatever was left in the file, however many engines try and whether or not
\* numbers are given out again (services-lease.ts:68-74, 297-357).
THEOREM GapsShort == Spec => []GapsAreShort
<1>1. TypesInv /\ GapInv => GapsAreShort
  <2> SUFFICES ASSUME TypesInv, GapInv, NEW e \in Engines PROVE gap[e] <= LongestGap
    BY DEF GapsAreShort
  <2>1. \A f \in Engines : engine[f].waited \in Nat /\ engine[f].waited <= Slack
    BY GapNumbers
  <2>2. gap[e] \in Nat /\ Slack \in Nat
    BY GapNumbers, ServicesAssumption
  <2>3. CASE gap[e] = 0
    BY <2>3, GapBound
  <2>4. CASE gap[e] > 0 /\ Closing(gap[e])
    BY <2>1, <2>2, <2>4, GapBound DEF Closing
  <2>5. CASE gap[e] > 0 /\ Patient(engine[e], gap[e])
    BY <2>1, <2>2, <2>5, GapBound DEF Patient
  <2> QED BY <2>2, <2>3, <2>4, <2>5 DEF GapInv
<1> QED BY <1>1, GapInit, GapStep, PTL DEF Spec

-----------------------------------------------------------------------------
(* How long a dead engine's lease is left.                                 *)

\* The age of a lease that names a dead engine plays no part, so the time is
\* that of the check in which it was made and of the next.
Prompt(s, n) ==
    /\ n <= Slack + s.waited
    /\ Aged(n)
    /\ n > s.waited => OnTrack(s, n)

DeadInv ==
    lease.by = "gone" /\ "recycle" \notin Faults =>
        \A e \in Engines : gap[e] > 0 => Prompt(engine[e], gap[e])

LEMMA PromptShorter ==
    ASSUME TypesInv, NEW e \in Engines, NEW n \in Nat, NEW m \in Nat, m <= n,
           Prompt(engine[e], n)
    PROVE  Prompt(engine[e], m)
<1>1. engine[e].waited \in Nat /\ engine[e].age \in Nat
  BY GapNumbers
<1>2. lease.age \in Nat /\ Slack \in Nat /\ StaleTicks \in Nat
  BY GapNumbers, ServicesAssumption
<1> QED BY <1>1, <1>2 DEF Prompt, Aged, OnTrack

\* An engine that waits and makes a step which leaves the lease.
LEMMA PromptWorks ==
    ASSUME TypesInv, NEW g \in Engines, Steady(engine[g]), Works(g), Waits(g),
           lease' = lease, lease.by = "gone", "recycle" \notin Faults,
           NEW n \in Nat, Prompt(engine[g], n)
    PROVE  Prompt(engine[g], n)'
<1>s. PICK s : s = engine[g]
  OBVIOUS
<1>t. PICK t : t = engine'[g]
  OBVIOUS
<1>1. s.waited \in Nat /\ s.waited <= Slack /\ Slack \in Nat
  BY <1>s, GapNumbers, ServicesAssumption
<1>2. n <= Slack + s.waited /\ Aged(n) /\ (n > s.waited => OnTrack(s, n))
  BY <1>s DEF Prompt
<1>3. Aged(n)'
  BY <1>2 DEF Aged
<1>4. CASE n <= s.waited
  <2>1. \/ t.waited = s.waited
        \/ t.waited = 0 /\ t.pc = "idle" /\ t.attempt = 0
    BY <1>s, <1>t, WaitedOrDone
  <2>2. n <= Slack + t.waited
    BY <1>1, <1>2, <1>4, <2>1
  <2>3. n > t.waited => OnTrack(t, n)'
    <3>1. CASE t.waited = s.waited
      BY <1>1, <1>4, <3>1
    <3>2. CASE t.waited = 0 /\ t.pc = "idle" /\ t.attempt = 0
      BY <3>2 DEF OnTrack
    <3> QED BY <2>1, <3>1, <3>2
  <2> QED BY <1>t, <1>3, <2>2, <2>3 DEF Prompt
<1>5. CASE n > s.waited
  <2>1. ~(lease = NoLease /\ Link(g))
    BY DEF NoLease
  <2>2. OnTrack(engine[g], n)' /\ engine'[g].waited = engine[g].waited
    BY <1>s, <1>2, <1>5, <2>1, OnTrackWorks
  <2> QED BY <1>s, <1>2, <1>3, <2>2 DEF Prompt
<1> QED BY <1>1, <1>4, <1>5

LEMMA WorksDead ==
    ASSUME TypesInv, GapInv, DeadInv, NEW g \in Engines, Works(g), Counts(0)
    PROVE  DeadInv'
<1> SUFFICES ASSUME lease'.by = "gone", "recycle" \notin Faults,
                    NEW e \in Engines, gap'[e] > 0
             PROVE  Prompt(engine[e], gap[e])'
  BY DEF DeadInv
<1>1. gap[e] > 0 /\ gap[e] \in Nat /\ gap'[e] \in Nat /\ gap'[e] <= gap[e]
  BY GapWas
<1>2. Waits(e) /\ Supervisors = {} /\ Steady(engine[g])
  BY <1>1 DEF GapInv, Waits
<1>3. lease' = lease
  <2>1. \/ lease' \in {lease, NoLease}
        \/ lease = NoLease /\ Link(g)
    BY <1>2, LeaseInGap
  <2>2. lease' # NoLease
    BY DEF NoLease
  <2>3. lease = NoLease /\ Link(g) => lease'.by = g
    BY DEF Link
  <2>4. g # "gone"
    BY ServicesAssumption
  <2> QED BY <2>1, <2>2, <2>3, <2>4
<1>4. PICK n \in Nat : n = gap'[e]
  BY <1>1
<1>5. Prompt(engine[e], n)
  BY <1>1, <1>3, <1>4, PromptShorter DEF DeadInv
<1>6. Prompt(engine[e], n)'
  <2>1. CASE e = g
    BY <1>2, <1>3, <1>5, <2>1, PromptWorks
  <2>2. CASE e # g
    BY <1>3, <1>5, <2>2, WorksOthers DEF Prompt, Aged, OnTrack
  <2> QED BY <2>1, <2>2
<1> QED BY <1>4, <1>6 DEF Prompt, Aged, OnTrack

LEMMA HappensDead ==
    ASSUME TypesInv, GapInv, DeadInv, NEW g \in Engines, Happens(g), Counts(0)
    PROVE  DeadInv'
<1> SUFFICES ASSUME lease'.by = "gone", "recycle" \notin Faults,
                    NEW e \in Engines, gap'[e] > 0
             PROVE  Prompt(engine[e], gap[e])'
  BY DEF DeadInv
<1>1. faults' = faults /\ gap[e] > 0 /\ gap[e] \in Nat /\ gap'[e] \in Nat
      /\ gap'[e] <= gap[e]
  BY GapWas
<1>2. Waits(e)
  BY <1>1 DEF GapInv
<1>3. Boot(g) \/ Thaw(g) \/ GainMeans(g)
  <2>1. faults' # faults + 1
    BY <1>1 DEF TypesInv, TypeOK
  <2> QED BY <2>1 DEF Happens, Die, Freeze, LoseMeans, Fault
<1>4. lease' = lease /\ engine'[e] = engine[e]
  <2>1. e # g
    BY <1>2, <1>3 DEF Boot, Thaw, GainMeans, Waits
  <2> QED BY <1>3, <2>1, GoesOne DEF Boot, Thaw, GainMeans
<1>5. PICK n \in Nat : n = gap'[e]
  BY <1>1
<1>6. Prompt(engine[e], n)
  BY <1>1, <1>4, <1>5, PromptShorter DEF DeadInv
<1> QED BY <1>4, <1>5, <1>6 DEF Prompt, Aged, OnTrack

LEMMA TickDead ==
    ASSUME TypesInv, GapInv, DeadInv, Tick, Counts(1) PROVE DeadInv'
<1> SUFFICES ASSUME lease'.by = "gone", "recycle" \notin Faults,
                    NEW e \in Engines, gap'[e] > 0
             PROVE  Prompt(engine[e], gap[e])'
  BY DEF DeadInv
<1>1. gap[e] \in Nat /\ engine[e].waited \in Nat /\ Slack \in Nat /\ lease.age \in Nat
  BY GapNumbers, ServicesAssumption
<1>2. Waits(e)' /\ gap'[e] \in Nat /\ gap'[e] <= gap[e] + 1
  <2>1. gap[e] + 1 \in Nat
    BY <1>1
  <2> QED BY <2>1, CappedLess DEF Counts
<1>3. lease.by = "gone"
  BY TickAges
<1>4. engine[e].up = "running" /\ engine'[e].waited = engine[e].waited + 1
  BY <1>2, TickAges DEF Waits
<1>5. PICK n \in Nat : n = gap'[e]
  BY <1>2
<1>6. PICK m \in Nat : m = gap[e]
  BY <1>1
<1>7. m = 0 \/ Prompt(engine[e], m)
  BY <1>3, <1>6 DEF DeadInv
<1>8. n <= m + 1 /\ Steady(engine[e])
  BY <1>2, <1>5, <1>6 DEF GapInv
<1>9. n <= Slack + engine'[e].waited
  BY <1>1, <1>4, <1>7, <1>8 DEF Prompt
<1>10. Aged(m)
  BY <1>1, <1>7 DEF Prompt, Aged
<1>11. Aged(n)'
  BY <1>4, <1>8, <1>10, TickOnTrack
<1>12. n > engine'[e].waited => OnTrack(engine[e], n)'
  <2> SUFFICES ASSUME n > engine'[e].waited PROVE OnTrack(engine[e], n)'
    OBVIOUS
  <2>1. m > engine[e].waited /\ m > 0
    BY <1>4, <1>8, TickOnTrack
  <2>2. OnTrack(engine[e], m)
    BY <1>7, <2>1 DEF Prompt
  <2> QED BY <1>4, <1>8, <2>2, TickOnTrack
<1>13. Prompt(engine[e], n)'
  BY <1>9, <1>11, <1>12 DEF Prompt
<1> QED BY <1>5, <1>13 DEF Prompt, Aged, OnTrack

\* A holder that died is replaced by the next engine that checks: while the file
\* names a pid that is gone, and no other process has got its number, no engine
\* waits past the rest of a check and the next (services-lease.ts:69, 323-341).
THEOREM DeadReplaced == Spec => []DeadAreReplaced
<1>1. Init => TypesInv /\ GapInv /\ DeadInv
  BY TypesInit, GapInit DEF Init, DeadInv, NoLease
<1>2. TypesInv /\ GapInv /\ DeadInv /\ [Next]_vars => (TypesInv /\ GapInv /\ DeadInv)'
  <2> SUFFICES ASSUME TypesInv, GapInv, DeadInv, [Next]_vars PROVE DeadInv'
    BY TypesStep, GapStep
  <2>1. CASE Tick /\ Counts(1)
    BY <2>1, TickDead
  <2>2. ASSUME NEW e \in Engines, Works(e) \/ Happens(e), Counts(0) PROVE DeadInv'
    BY <2>2, WorksDead, HappensDead
  <2>3. CASE UNCHANGED vars
    BY <2>3 DEF vars, DeadInv, Prompt, Aged, OnTrack
  <2> QED BY <2>1, <2>2, <2>3 DEF Next
<1>3. TypesInv /\ DeadInv => DeadAreReplaced
  <2> SUFFICES ASSUME TypesInv, DeadInv, lease.by = "gone", "recycle" \notin Faults,
                      NEW e \in Engines
               PROVE  gap[e] <= 2 * Slack
    BY DEF DeadAreReplaced
  <2>1. /\ gap[e] \in Nat /\ Slack \in Nat
        /\ engine[e].waited \in Nat /\ engine[e].waited <= Slack
    BY GapNumbers, ServicesAssumption
  <2>2. CASE gap[e] > 0
    <3>1. gap[e] <= Slack + engine[e].waited
      BY <2>2 DEF DeadInv, Prompt
    <3> QED BY <2>1, <3>1
  <2>3. CASE gap[e] = 0
    BY <2>1, <2>3
  <2> QED BY <2>1, <2>2, <2>3
<1> QED BY <1>1, <1>2, <1>3, PTL DEF Spec
=============================================================================
