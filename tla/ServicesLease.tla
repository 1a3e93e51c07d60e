--------------------------- MODULE ServicesLease ---------------------------
(***************************************************************************)
(* Which of a host's engines supervises one of its services: the lease     *)
(* file of runtime/services-lease.ts, and the checks of services.ts that   *)
(* ask for it.  Two unix accounts share the file and nothing else, so each *)
(* call to the file system is a step of its own, and the inode of the file *)
(* is what an engine knows its claim by.                                   *)
(*                                                                         *)
(* Time passes in ticks, one for a check interval.  An engine is a         *)
(* process: one that is started again has another pid and another claim    *)
(* id, so what the dead one wrote is signed by "gone" from its death on.   *)
(***************************************************************************)
EXTENDS Naturals

CONSTANTS
    Engines,    \* the accounts' engines
    Inodes,     \* inode numbers, as many as can be in use at once
    StaleTicks, \* staleMs in check intervals
    Slack,      \* bound: intervals a running engine may need for a check
    Reuse,      \* whether the file system gives out a freed number again
    Faults,     \* what may happen to an engine (see FaultKinds)
    MaxFaults   \* bound: how many faults per behaviour

FaultKinds == {"die", "freeze", "stall", "unable", "recycle"}

ASSUME ServicesAssumption ==
    /\ Engines \cap {"gone", "nobody"} = {}
    /\ "none" \notin Inodes
    /\ StaleTicks \in Nat \ {0}
    /\ Slack \in Nat \ {0}
    /\ Reuse \in BOOLEAN
    /\ Faults \subseteq FaultKinds
    /\ MaxFaults \in Nat

VARIABLES
    lease,  \* the file at the lease's name, or NoLease
    engine, \* [Engines -> Local]
    faults, \* faults so far
    astray, \* [Engines -> Nat]: history: ticks for which the engine has
            \* supervised by a claim that does not have the lease's name
    gap,    \* [Engines -> Nat]: history: ticks since the last fault or overtaking
            \* for which the engine was there and able and none has supervised
    overtaken \* history: whether a rival's call has ever come between two that
              \* an engine makes one right after the other

vars == <<lease, engine, faults, astray, gap, overtaken>>

(* by is who the body names: "nobody" in one that cannot be parsed.  age   *)
(* is that of its stamp, and of the file's mtime.                          *)
NoLease == [ino |-> "none", by |-> "nobody", age |-> 0]
Leases == {NoLease} \cup [ino : Inodes, by : Engines \cup {"gone", "nobody"},
                          age : 0 .. StaleTicks]

Steps == {"idle", "stat", "truncate", "stamp", "write", "link", "know",
          "look", "read", "remove", "unlink", "relRead", "relStat", "relUnlink"}

(* mine is HostLease.mine: while an engine has it, it answers that it      *)
(* supervises.  ino and age are of the file this check is about: its claim *)
(* that is not linked yet, the file it has open, or the one it looked at.  *)
Local == [up : {"off", "running", "frozen"}, able : BOOLEAN,
          mine : Inodes \cup {"none"}, pc : Steps,
          ino : Inodes \cup {"none"}, age : 0 .. StaleTicks,
          attempt : 0 .. 2, waited : 0 .. Slack]

TypeOK ==
    /\ lease \in Leases
    /\ engine \in [Engines -> Local]
    /\ faults \in 0 .. MaxFaults
    /\ astray \in [Engines -> Nat]
    /\ gap \in [Engines -> Nat]
    /\ overtaken \in BOOLEAN

Off == [up |-> "off", able |-> TRUE, mine |-> "none",
        pc |-> "idle", ino |-> "none", age |-> 0, attempt |-> 0, waited |-> 0]

Init ==
    /\ lease = NoLease
    /\ engine = [e \in Engines |-> Off]
    /\ faults = 0
    /\ astray = [e \in Engines |-> 0]
    /\ gap = [e \in Engines |-> 0]
    /\ overtaken = FALSE

-----------------------------------------------------------------------------
(* The file system. *)

\* Numbers in use: linked at the lease's name, at a claim's, or open.
InUse == {lease.ino} \cup {engine[e].ino : e \in {f \in Engines :
                          engine[f].pc \in {"link", "know", "stamp"}}}

\* Numbers an engine compares with.
Spoken == UNION {{engine[e].mine, engine[e].ino} : e \in Engines}

Free == Inodes \ (InUse \cup (IF Reuse THEN {} ELSE Spoken))

-----------------------------------------------------------------------------
(* One engine's steps.  At(e, p) is its turn at p; Goes its state after.   *)

At(e, p) == engine[e].up = "running" /\ engine[e].pc = p

Goes(e, s) == engine' = [engine EXCEPT ![e] = s]

\* A check is over.
Done(s) == [s EXCEPT !.pc = "idle", !.ino = "none", !.age = 0, !.attempt = 0,
                     !.waited = 0]

\* Mutant of Again: a fourth go.
AgainOnceMore(s) ==
    IF s.attempt <= 2 THEN [s EXCEPT !.pc = "write", !.ino = "none",
                                     !.age = 0, !.attempt = @ + 1]
    ELSE Done(s)
\* The next of three attempts to claim, or the end of them.
Again(s) ==
    IF s.attempt < 2 THEN [s EXCEPT !.pc = "write", !.ino = "none",
                                    !.age = 0, !.attempt = @ + 1]
    ELSE Done(s)

\* A check comes round: release when this engine cannot start the service,
\* else renew or claim.
Check(e) ==
    LET s == engine[e] IN
    /\ At(e, "idle")
    /\ Goes(e, IF s.able
               THEN [s EXCEPT !.pc = IF s.mine = "none" THEN "write" ELSE "stat"]
               ELSE IF s.mine = "none" THEN Done(s)
               ELSE [s EXCEPT !.pc = "relRead", !.ino = s.mine, !.mine = "none"])
    /\ UNCHANGED <<lease, faults>>

\* Mutant of StillMine: any file under the name is taken for one's own.
AnyFile(s) == lease # NoLease /\ s.mine # "none"
\* What an engine that holds the lease knows it by.
StillMine(s) == lease.ino = s.mine

StatMine(e) ==
    LET s == engine[e] IN
    /\ At(e, "stat")
    /\ Goes(e, IF StillMine(s) THEN [s EXCEPT !.pc = "truncate"]
               ELSE [s EXCEPT !.pc = "write", !.mine = "none"])
    /\ UNCHANGED <<lease, faults>>

\* writeFile opens whatever is at the name by now, or makes it.
Truncate(e) ==
    /\ At(e, "truncate")
    /\ \E i \in IF lease = NoLease THEN Free ELSE {lease.ino} :
        /\ lease' = [ino |-> i, by |-> "nobody", age |-> 0]
        /\ Goes(e, [engine[e] EXCEPT !.pc = "stamp", !.ino = i])
    /\ UNCHANGED faults

\* The stamp is as old as the opening; the file may be nameless by now.
Stamp(e) ==
    LET s == engine[e] IN
    /\ At(e, "stamp")
    /\ lease' = IF lease.ino = s.ino THEN [lease EXCEPT !.by = e] ELSE lease
    /\ Goes(e, Done(s))
    /\ UNCHANGED faults

\* The claim, complete under a name of its own before it is linked.
WriteClaim(e) ==
    /\ At(e, "write")
    /\ \E i \in Free : Goes(e, [engine[e] EXCEPT !.pc = "link", !.ino = i])
    /\ UNCHANGED <<lease, faults>>

\* One of the engines that try gets the name,
Link(e) ==
    LET s == engine[e] IN
    /\ At(e, "link")
    /\ IF lease = NoLease
       THEN /\ lease' = [ino |-> s.ino, by |-> e, age |-> s.age]
            /\ Goes(e, [s EXCEPT !.pc = "know", !.age = 0])
       ELSE /\ lease' = lease
            /\ Goes(e, [s EXCEPT !.pc = "look", !.ino = "none", !.age = 0])
    /\ UNCHANGED faults

\* and asks the name for the number of its file.
Know(e) ==
    LET s == engine[e] IN
    /\ At(e, "know")
    /\ Goes(e, IF lease = NoLease THEN [s EXCEPT !.pc = "look", !.ino = "none"]
               ELSE Done([s EXCEPT !.mine = lease.ino]))
    /\ UNCHANGED <<lease, faults>>

\* Somebody has it: which file, and how old.
Look(e) ==
    LET s == engine[e] IN
    /\ At(e, "look")
    /\ Goes(e, IF lease = NoLease THEN Again(s)
               ELSE [s EXCEPT !.pc = "read", !.ino = lease.ino, !.age = lease.age])
    /\ UNCHANGED <<lease, faults>>

\* Is the pid there?  Another process may have got a dead one's number.
PidAlive(by) == IF by # "gone" THEN {TRUE}
                ELSE {FALSE} \cup (IF "recycle" \in Faults THEN {TRUE} ELSE {})

\* Mutant of Over: a file that says nothing is honoured for ever.
OverIfNamed(by, age, alive) == by # "nobody" /\ (age >= StaleTicks \/ ~alive)
\* A lease is over when it is stale, or when the pid it names is gone.
Over(by, age, alive) == age >= StaleTicks \/ (by # "nobody" /\ ~alive)

\* Who has it; a body that is gone or says nothing is judged by the mtime.
Read(e) ==
    LET s == engine[e]
        age == IF lease.by = "nobody" THEN s.age ELSE lease.age
    IN /\ At(e, "read")
       /\ \E alive \in PidAlive(lease.by) :
            Goes(e, IF Over(lease.by, age, alive) THEN [s EXCEPT !.pc = "remove", !.age = 0]
                    ELSE Done(s))
       /\ UNCHANGED <<lease, faults>>

\* Whether the file at the name is the one this is about.
SameFile(s) == lease.ino = s.ino

\* The stat,
Remove(e) ==
    LET s == engine[e] IN
    /\ At(e, "remove")
    /\ Goes(e, IF SameFile(s) THEN [s EXCEPT !.pc = "unlink"] ELSE Again(s))
    /\ UNCHANGED <<lease, faults>>

\* and the unlink that follows it, of whatever is at the name by now.
Unlink(e) ==
    /\ At(e, "unlink")
    /\ lease' = NoLease
    /\ Goes(e, Again(engine[e]))
    /\ UNCHANGED faults

\* release(): only a file whose body carries this engine's claim,
ReleaseRead(e) ==
    LET s == engine[e] IN
    /\ At(e, "relRead")
    /\ Goes(e, IF lease.by = e THEN [s EXCEPT !.pc = "relStat"] ELSE Done(s))
    /\ UNCHANGED <<lease, faults>>

\* and whose number is the one it took,
ReleaseStat(e) ==
    LET s == engine[e] IN
    /\ At(e, "relStat")
    /\ Goes(e, IF SameFile(s) THEN [s EXCEPT !.pc = "relUnlink"] ELSE Done(s))
    /\ UNCHANGED <<lease, faults>>

\* is unlinked, or what has its name by then.
ReleaseUnlink(e) ==
    /\ At(e, "relUnlink")
    /\ lease' = NoLease
    /\ Goes(e, Done(engine[e]))
    /\ UNCHANGED faults

-----------------------------------------------------------------------------
(* What happens to engines. *)

Boot(e) ==
    /\ engine[e].up = "off"
    /\ Goes(e, [engine[e] EXCEPT !.up = "running"])
    /\ UNCHANGED <<lease, faults>>

Fault(kind) ==
    /\ kind \in Faults /\ faults < MaxFaults
    /\ faults' = faults + 1

\* No engine of the program releases on its way out.
Die(e) ==
    /\ engine[e].up # "off" /\ Fault("die")
    /\ lease' = [lease EXCEPT !.by = IF @ = e THEN "gone" ELSE @]
    /\ Goes(e, [Off EXCEPT !.able = engine[e].able])

\* The process is held up: between two checks, or in the middle of one.
Freeze(e) ==
    /\ engine[e].up = "running"
    /\ IF engine[e].pc = "idle" THEN Fault("freeze") ELSE Fault("stall")
    /\ Goes(e, [engine[e] EXCEPT !.up = "frozen"])
    /\ UNCHANGED lease

Thaw(e) ==
    /\ engine[e].up = "frozen"
    /\ Goes(e, [engine[e] EXCEPT !.up = "running", !.waited = 0])
    /\ UNCHANGED <<lease, faults>>

\* What the service needs on this account goes, or is there again.
LoseMeans(e) ==
    /\ engine[e].able /\ Fault("unable")
    /\ Goes(e, [engine[e] EXCEPT !.able = FALSE])
    /\ UNCHANGED lease

GainMeans(e) ==
    /\ ~engine[e].able
    /\ Goes(e, [engine[e] EXCEPT !.able = TRUE])
    /\ UNCHANGED <<lease, faults>>

\* One tick on a file's age, or on none.
Older(i, age) == IF i # "none" /\ age < StaleTicks THEN age + 1 ELSE age

\* An interval passes: every running engine has checked within Slack of them.
Tick ==
    /\ \A e \in Engines : engine[e].up = "running" => engine[e].waited < Slack
    /\ lease' = [lease EXCEPT !.age = Older(lease.ino, @)]
    /\ engine' = [e \in Engines |->
                     [engine[e] EXCEPT
                         !.waited = IF engine[e].up = "running" THEN @ + 1 ELSE @,
                         !.age = IF engine[e].pc \in {"link", "read"}
                                 THEN Older(engine[e].ino, @) ELSE @]]
    /\ UNCHANGED faults

Works(e) ==
    \/ Check(e) \/ StatMine(e) \/ Truncate(e) \/ Stamp(e)
    \/ WriteClaim(e) \/ Link(e) \/ Know(e)
    \/ Look(e) \/ Read(e) \/ Remove(e) \/ Unlink(e)
    \/ ReleaseRead(e) \/ ReleaseStat(e) \/ ReleaseUnlink(e)

Happens(e) ==
    Boot(e) \/ Die(e) \/ Freeze(e) \/ Thaw(e) \/ LoseMeans(e) \/ GainMeans(e)

-----------------------------------------------------------------------------
(* The history variables: how long what should not last has lasted.        *)

\* The engines that act on the service if it needs it.
Supervisors == {e \in Engines : engine[e].up = "running" /\ engine[e].mine # "none"}

\* Its claim was replaced, and it has not noticed.
Astray(e) == e \in Supervisors /\ engine[e].mine # lease.ino

Waits(e) == engine[e].up = "running" /\ engine[e].able /\ Supervisors = {}

\* Calls that follow one another at once: link and stat, stat and unlink.
InBetween(e) == engine[e].pc \in {"know", "unlink"} /\ engine'[e].pc = engine[e].pc

Overtakes == lease'.ino # lease.ino /\ \E e \in Engines : InBetween(e)

\* An engine that has just found a lease not yet stale, or whose check has come
\* to nothing, has waited this long at most.
Overdue == IF Slack < StaleTicks THEN StaleTicks - 1 ELSE Slack

\* Then come its next check and, where that finds a rival's new claim, the rest
\* of the rival's.
LongestGap == Overdue + 2 * Slack

\* Bound: counts go no further, past what the properties allow.
Capped(n) == IF n > LongestGap THEN LongestGap + 1 ELSE n

\* A step that takes n ticks.  A fault starts the count of a gap again, and so
\* does a call that comes between two of another engine.
Counts(n) ==
    /\ astray' = [e \in Engines |-> IF Astray(e)' THEN Capped(astray[e] + n) ELSE 0]
    /\ gap' = [e \in Engines |->
                  IF faults' = faults /\ ~Overtakes /\ Waits(e)'
                  THEN Capped(gap[e] + n) ELSE 0]
    /\ overtaken' = (overtaken \/ Overtakes)

Next ==
    \/ Tick /\ Counts(1)
    \/ \E e \in Engines : (Works(e) \/ Happens(e)) /\ Counts(0)

Spec == Init /\ [][Next]_vars

-----------------------------------------------------------------------------
(* What it is for. *)

\* No two engines know their claims by one file: what the renewal's test of
\* the inode rests on, which is all that makes one of two stand down.  Between
\* a stat and its unlink, or a link and its stat, a rival can break it.
DistinctClaims ==
    ~overtaken => \A e, f \in Engines :
        e # f /\ engine[e].mine # "none" => engine[e].mine # engine[f].mine

(* One supervisor per service per host (services-lease.ts:1): of two       *)
(* engines that supervise together one has a claim that was replaced, and  *)
(* it is done with that after the check it is at and the next.             *)
RivalsAreBrief == DistinctClaims /\ \A e \in Engines : astray[e] <= 2 * Slack

(* Nothing waits for ever on a lease (services-lease.ts:69): while an      *)
(* engine is there and able, some engine supervises within the stale       *)
(* window and the time of two checks, whatever was left in the file and    *)
(* however many engines try.                                               *)
GapsAreShort == \A e \in Engines : gap[e] <= LongestGap

(* A holder that dies is taken over by the next engine to tick             *)
(* (services-lease.ts:69): while the file names a pid that is gone, no     *)
(* engine waits past the rest of a check and the next.                     *)
DeadAreReplaced ==
    lease.by = "gone" /\ "recycle" \notin Faults =>
        \A e \in Engines : gap[e] <= 2 * Slack
=============================================================================
