-------------------------- MODULE DrainLeaseProofs --------------------------
(***************************************************************************)
(* What holds of the drain lease for any tabs, delays and freezes: what a  *)
(* tab believes of the lock agrees with the lock and with the answers the  *)
(* tab has not handled yet (lease.ts: held, pending).                      *)
(***************************************************************************)
EXTENDS DrainLease, FiniteSetTheorems, TLAPS

Ans(what, g) == [t |-> what, gen |-> g]
Req(t, g) == [by |-> t, gen |-> g]
Has(ev, x) == \E i \in DOMAIN ev : ev[i] = x

\* The generations a tab waits for.
Wait(q, t) == {q[i].gen : i \in {j \in DOMAIN q : q[j].by = t}}

\* Where its grants stand among its answers.
GrantsAt(ev) == {i \in DOMAIN ev : ev[i].t = "granted"}

\* No tab stands in the queue twice.
Solo(q) == \A i, j \in DOMAIN q : q[i].by = q[j].by => i = j

(* One tab, with l, h and p for leader, held and pending, W for what it    *)
(* waits for, and ev for its answers; own is the lock's owner.  An owner r *)
(* is about to hand the lock back, and need not lead through it.           *)

\* A grant is still good, or was broken after; and comes once.
GrantsFit(t, h, own, ev) ==
    /\ \A i \in DOMAIN ev : ev[i].gen # 0
    /\ \A i \in DOMAIN ev : ev[i].t = "granted" =>
         /\ ev[i].gen # h
         /\ \/ own = Req(t, ev[i].gen)
            \/ \E j \in DOMAIN ev : i < j /\ ev[j] = Ans("broken", ev[i].gen)
    /\ \A i, j \in DOMAIN ev : ev[i].t = "granted" /\ ev[j] = ev[i] => i = j
    /\ \A i \in DOMAIN ev : ev[i].t = "broken" => own # Req(t, ev[i].gen)

\* What a tab waits for is new to it.
WaitFits(t, h, own, W, ev) ==
    \A g \in W : /\ g # 0 /\ g # h /\ own # Req(t, g)
                 /\ \A i \in DOMAIN ev : ev[i].gen # g

\* Who has the lock leads through it, or will hear that it has it.
OwnerFits(t, l, h, own, ev, r) ==
    own.by = t => /\ own.gen # 0
                  /\ \/ own = r
                     \/ l /\ h = own.gen
                     \/ Has(ev, Ans("granted", own.gen))

\* Who leads through the lock has it, or will hear that it lost it.
HeldFits(t, l, h, own, ev) ==
    h # 0 => l /\ (own = Req(t, h) \/ Has(ev, Ans("broken", h)))

Counts(p, W, ev) == p = (IF W = {} THEN 0 ELSE 1) + Cardinality(GrantsAt(ev))

Tidy(t, l, h, p, own, W, ev, r) ==
    /\ GrantsFit(t, h, own, ev)
    /\ WaitFits(t, h, own, W, ev)
    /\ OwnerFits(t, l, h, own, ev, r)
    /\ HeldFits(t, l, h, own, ev)
    /\ Counts(p, W, ev)

-----------------------------------------------------------------------------
(* Sequences. *)

\* Append, Head and Tail, by names of their own.
Push(q, x) == Append(q, x)
First(q) == Head(q)
Rest(q) == Tail(q)

LEMMA AppendFacts ==
  ASSUME NEW S, NEW q, NEW x, q \in Seq(S), x \in S
  PROVE  /\ Push(q, x) \in Seq(S)
         /\ Len(q) \in Nat /\ DOMAIN q = 1..Len(q)
         /\ \A i : i \in DOMAIN Push(q, x) <=> i \in DOMAIN q \/ i = Len(q) + 1
         /\ Len(q) + 1 \notin DOMAIN q
         /\ \A i \in DOMAIN q : Push(q, x)[i] = q[i] /\ i < Len(q) + 1 /\ i \in Nat
         /\ Push(q, x)[Len(q) + 1] = x
  BY DEF Push

LEMMA TailFacts ==
  ASSUME NEW S, NEW q, q \in Seq(S), q # <<>>
  PROVE  /\ Rest(q) \in Seq(S) /\ First(q) \in S /\ First(q) = q[1] /\ 1 \in DOMAIN q
         /\ DOMAIN q \subseteq Nat /\ DOMAIN Rest(q) \subseteq Nat
         /\ \A i \in DOMAIN Rest(q) : i + 1 \in DOMAIN q /\ Rest(q)[i] = q[i + 1]
         /\ \A i \in DOMAIN q : i # 1 => i - 1 \in DOMAIN Rest(q) /\ Rest(q)[i - 1] = q[i]
  BY DEF First, Rest

LEMMA GrantsFinite ==
  ASSUME NEW S, NEW ev, ev \in Seq(S)
  PROVE  IsFiniteSet(GrantsAt(ev)) /\ Cardinality(GrantsAt(ev)) \in Nat
<1>1. PICK n \in Nat : DOMAIN ev = 1..n
  OBVIOUS
<1>2. IsFiniteSet(1..n)
  BY FS_Interval
<1>3. GrantsAt(ev) \in SUBSET (1..n)
  BY <1>1 DEF GrantsAt
<1>4. IsFiniteSet(GrantsAt(ev))
  BY <1>2, <1>3, FS_Subset
<1> QED
  BY <1>4, FS_CardinalityType

LEMMA GrantsAppend ==
  ASSUME NEW S, NEW ev, NEW x, ev \in Seq(S), x \in S
  PROVE  Cardinality(GrantsAt(Push(ev, x))) =
           Cardinality(GrantsAt(ev)) + IF x.t = "granted" THEN 1 ELSE 0
<1>n. PICK n : n = Push(ev, x)
  OBVIOUS
<1>1. IsFiniteSet(GrantsAt(ev)) /\ Cardinality(GrantsAt(ev)) \in Nat
  BY GrantsFinite
<1>2. PICK k : k = Len(ev) + 1
  OBVIOUS
<1>3. (\A i : i \in DOMAIN n <=> i \in DOMAIN ev \/ i = k) /\ k \notin DOMAIN ev /\ n[k] = x
      /\ \A i \in DOMAIN ev : n[i] = ev[i]
  BY <1>2, <1>n, AppendFacts
<1>4. CASE x.t = "granted"
  <2>1. GrantsAt(n) = GrantsAt(ev) \cup {k} /\ k \notin GrantsAt(ev)
    BY <1>3, <1>4 DEF GrantsAt
  <2> QED
    BY <1>1, <1>4, <1>n, <2>1, FS_AddElement
<1>5. CASE x.t # "granted"
  <2>1. GrantsAt(n) = GrantsAt(ev)
    BY <1>3, <1>5 DEF GrantsAt
  <2> QED
    BY <1>1, <1>5, <1>n, <2>1
<1> QED
  BY <1>4, <1>5

LEMMA GrantsTail ==
  ASSUME NEW S, NEW ev, ev \in Seq(S), ev # <<>>
  PROVE  Cardinality(GrantsAt(Rest(ev))) =
           Cardinality(GrantsAt(ev)) - IF First(ev).t = "granted" THEN 1 ELSE 0
<1>n. PICK n : n = Rest(ev)
  OBVIOUS
<1>a. PICK a : a = First(ev)
  OBVIOUS
<1> DEFINE A == GrantsAt(n)  B == GrantsAt(ev) \ {1}  f == [i \in A |-> i + 1]
<1>1. /\ a = ev[1] /\ 1 \in DOMAIN ev
      /\ DOMAIN ev \subseteq Nat /\ DOMAIN n \subseteq Nat
      /\ \A i \in DOMAIN n : i + 1 \in DOMAIN ev /\ n[i] = ev[i + 1]
      /\ \A i \in DOMAIN ev : i # 1 => i - 1 \in DOMAIN n /\ n[i - 1] = ev[i]
  BY <1>n, <1>a, TailFacts
<1>2. 0 \notin DOMAIN n
  <2>1. n \in Seq(S)
    BY <1>n, <1>a, TailFacts
  <2> QED BY <2>1
<1>3. \A i \in A : i \in Nat /\ i # 0 /\ i + 1 \in B
  BY <1>1, <1>2 DEF GrantsAt
<1>4. \A j \in B : j - 1 \in A /\ j = (j - 1) + 1 /\ j \in Nat
  BY <1>1 DEF GrantsAt
<1>5. f \in [A -> B]
  BY <1>3
<1>6. \A i, j \in A : f[i] = f[j] => i = j
  BY <1>3
<1>7. \A j \in B : \E i \in A : f[i] = j
  BY <1>4
<1>8. f \in Bijection(A, B)
  BY <1>5, <1>6, <1>7 DEF Bijection, Injection, Surjection, IsInjective
<1>9. IsFiniteSet(A)
  <2>1. n \in Seq(S)
    BY <1>n, <1>a, TailFacts
  <2> QED BY <2>1, GrantsFinite
<1>10. Cardinality(B) = Cardinality(A)
  BY <1>8, <1>9, FS_Bijection DEF ExistsBijection
<1>11. IsFiniteSet(GrantsAt(ev)) /\ Cardinality(GrantsAt(ev)) \in Nat
  BY GrantsFinite
<1>12. Cardinality(B) = IF 1 \in GrantsAt(ev) THEN Cardinality(GrantsAt(ev)) - 1
                                              ELSE Cardinality(GrantsAt(ev))
  BY <1>11, FS_RemoveElement
<1>13. (1 \in GrantsAt(ev)) <=> a.t = "granted"
  BY <1>1 DEF GrantsAt
<1> QED
  BY <1>n, <1>a, <1>10, <1>11, <1>12, <1>13


-----------------------------------------------------------------------------
(* What may happen to one tab. *)

\* Others pass the lock on.
LEMMA Aside ==
  ASSUME NEW t, NEW l, NEW h, NEW p, NEW own, NEW W, NEW ev, NEW r, NEW new,
         NEW x, Tidy(t, l, h, p, own, W, ev, r), own.by # t, new.by # t
  PROVE  Tidy(t, l, h, p, new, W, ev, x)
<1>1. \A g : own # Req(t, g) /\ new # Req(t, g)
  BY DEF Req
<1>2. GrantsFit(t, h, new, ev)
  BY <1>1 DEF Tidy, GrantsFit
<1>3. WaitFits(t, h, new, W, ev)
  BY <1>1 DEF Tidy, WaitFits
<1>4. OwnerFits(t, l, h, new, ev, x)
  BY DEF OwnerFits
<1>5. HeldFits(t, l, h, new, ev)
  BY <1>1 DEF Tidy, HeldFits
<1> QED
  BY <1>2, <1>3, <1>4, <1>5 DEF Tidy

\* The lock is given to a request that is new to the tab.
LEMMA GivenTo ==
  ASSUME NEW t, NEW l, NEW h, NEW p, NEW own, NEW W, NEW r, NEW g, NEW ev,
         NEW left, NEW q, p \in Nat, g \in Nat, ev \in Seq(Answers), q \in Nat,
         Tidy(t, l, h, p, own, W, ev, r), own.by # t, g # 0, g # h,
         \A i \in DOMAIN ev : ev[i].gen # g,
         \/ g \in W /\ (\A x \in W : x = g) /\ left = {} /\ q = p
         \/ g \notin W /\ left = W /\ q = p + 1
  PROVE  Tidy(t, l, h, q, Req(t, g), left, Push(ev, Ans("granted", g)), Nobody)
<1>n. PICK n : n = Push(ev, Ans("granted", g))
  OBVIOUS
<1>0. PICK new : new = Req(t, g)
  OBVIOUS
<1>1. /\ new.by = t /\ new.gen = g /\ \A x : own # Req(t, x)
      /\ \A x : new = Req(t, x) <=> x = g
  BY <1>0 DEF Req
<1>2. PICK a : a = Ans("granted", g)
  OBVIOUS
<1>3. a \in Answers /\ a.t = "granted" /\ a.gen = g
  BY <1>2 DEF Ans, Answers
<1>4. PICK k : k = Len(ev) + 1
  OBVIOUS
<1>5. /\ (\A i : i \in DOMAIN n <=> i \in DOMAIN ev \/ i = k) /\ k \notin DOMAIN ev /\ n[k] = a
      /\ \A i \in DOMAIN ev : n[i] = ev[i] /\ i < k
  BY <1>2, <1>3, <1>4, <1>n, AppendFacts
<1>6. GrantsFit(t, h, new, n)
  <2>1. \A i \in DOMAIN n : n[i].gen # 0
    BY <1>3, <1>5 DEF Tidy, GrantsFit
  <2>2. ASSUME NEW i \in DOMAIN n, n[i].t = "granted"
        PROVE  /\ n[i].gen # h
               /\ \/ new = Req(t, n[i].gen)
                  \/ \E j \in DOMAIN n : i < j /\ n[j] = Ans("broken", n[i].gen)
    <3>1. CASE i = k
      BY <1>1, <1>3, <1>5, <3>1
    <3>2. CASE i \in DOMAIN ev
      <4>1. ev[i].t = "granted"
        BY <1>5, <2>2, <3>2
      <4>2. PICK j \in DOMAIN ev : i < j /\ ev[j] = Ans("broken", ev[i].gen)
        BY <1>1, <3>2, <4>1 DEF Tidy, GrantsFit
      <4>3. ev[i].gen # h
        BY <3>2, <4>1 DEF Tidy, GrantsFit
      <4> QED
        BY <1>5, <3>2, <4>2, <4>3
    <3> QED
      BY <1>5, <3>1, <3>2
  <2>3. \A i, j \in DOMAIN n : n[i].t = "granted" /\ n[j] = n[i] => i = j
    <3>1. \A i \in DOMAIN ev : n[i] # a
      BY <1>3, <1>5
    <3>2. \A i, j \in DOMAIN ev : ev[i].t = "granted" /\ ev[j] = ev[i] => i = j
      BY DEF Tidy, GrantsFit
    <3> QED
      BY <1>5, <3>1, <3>2
  <2>4. \A i \in DOMAIN n : n[i].t = "broken" => new # Req(t, n[i].gen)
    BY <1>1, <1>3, <1>5
  <2> QED
    BY <2>1, <2>2, <2>3, <2>4 DEF GrantsFit
<1>7. WaitFits(t, h, new, left, n)
  <2> SUFFICES ASSUME NEW x \in left
               PROVE  /\ x # 0 /\ x # h /\ new # Req(t, x)
                      /\ \A i \in DOMAIN n : n[i].gen # x
    BY DEF WaitFits
  <2>1. x \in W /\ x # g
    OBVIOUS
  <2>2. /\ x # 0 /\ x # h
        /\ \A i \in DOMAIN ev : ev[i].gen # x
    BY <2>1 DEF Tidy, WaitFits
  <2> QED
    BY <1>1, <1>3, <1>5, <2>1, <2>2
<1>8. OwnerFits(t, l, h, new, n, Nobody)
  BY <1>1, <1>2, <1>5 DEF OwnerFits, Has
<1>9. HeldFits(t, l, h, new, n)
  <2>1. h # 0 => l /\ Has(ev, Ans("broken", h))
    BY <1>1 DEF Tidy, HeldFits
  <2>2. Has(ev, Ans("broken", h)) => Has(n, Ans("broken", h))
    BY <1>5 DEF Has
  <2> QED
    BY <2>1, <2>2 DEF HeldFits
<1>10. Counts(q, left, n)
  <2>1. Cardinality(GrantsAt(n)) = Cardinality(GrantsAt(ev)) + 1
    BY <1>2, <1>3, <1>n, GrantsAppend
  <2>2. Cardinality(GrantsAt(ev)) \in Nat
    BY GrantsFinite
  <2>3. p = (IF W = {} THEN 0 ELSE 1) + Cardinality(GrantsAt(ev))
    BY DEF Tidy, Counts
  <2> QED
    BY <2>1, <2>2, <2>3 DEF Counts
<1> QED
  BY <1>n, <1>0, <1>6, <1>7, <1>8, <1>9, <1>10 DEF Tidy

\* The lock is stolen from the tab.
LEMMA StolenFrom ==
  ASSUME NEW t, NEW l, NEW h, NEW p, NEW own, NEW W, NEW r, NEW ev, NEW g,
         p \in Nat, ev \in Seq(Answers), g \in Nat, own = Req(t, g),
         Nobody.by # t, Tidy(t, l, h, p, own, W, ev, r)
  PROVE  Tidy(t, l, h, p, Nobody, W, Push(ev, Ans("broken", g)), Nobody)
<1>n. PICK n : n = Push(ev, Ans("broken", g))
  OBVIOUS
<1>1. /\ own.by = t /\ own.gen = g
      /\ \A x : Nobody # Req(t, x)
      /\ \A x : own = Req(t, x) <=> x = g
  BY DEF Req
<1>2. PICK a : a = Ans("broken", g)
  OBVIOUS
<1>3. a \in Answers /\ a.t = "broken" /\ a.gen = g
  BY <1>2 DEF Ans, Answers
<1>4. PICK k : k = Len(ev) + 1
  OBVIOUS
<1>5. /\ (\A i : i \in DOMAIN n <=> i \in DOMAIN ev \/ i = k) /\ k \notin DOMAIN ev /\ n[k] = a
      /\ \A i \in DOMAIN ev : n[i] = ev[i] /\ i < k
  BY <1>2, <1>3, <1>4, <1>n, AppendFacts
<1>6. g # 0
  BY <1>1 DEF Tidy, OwnerFits
<1>7. GrantsFit(t, h, Nobody, n)
  <2>1. \A i \in DOMAIN n : n[i].gen # 0
    BY <1>3, <1>5, <1>6 DEF Tidy, GrantsFit
  <2>2. ASSUME NEW i \in DOMAIN n, n[i].t = "granted"
        PROVE  /\ n[i].gen # h
               /\ \E j \in DOMAIN n : i < j /\ n[j] = Ans("broken", n[i].gen)
    <3>1. i \in DOMAIN ev /\ n[i] = ev[i] /\ ev[i].t = "granted"
      BY <1>3, <1>5, <2>2
    <3>2. /\ ev[i].gen # h
          /\ \/ own = Req(t, ev[i].gen)
             \/ \E j \in DOMAIN ev : i < j /\ ev[j] = Ans("broken", ev[i].gen)
      BY <3>1 DEF Tidy, GrantsFit
    <3>3. CASE own = Req(t, ev[i].gen)
      BY <1>1, <1>2, <1>5, <3>1, <3>2, <3>3
    <3>4. CASE \E j \in DOMAIN ev : i < j /\ ev[j] = Ans("broken", ev[i].gen)
      BY <1>5, <3>1, <3>2, <3>4
    <3> QED
      BY <3>2, <3>3, <3>4
  <2>3. \A i, j \in DOMAIN n : n[i].t = "granted" /\ n[j] = n[i] => i = j
    <3>2. \A i, j \in DOMAIN ev : ev[i].t = "granted" /\ ev[j] = ev[i] => i = j
      BY DEF Tidy, GrantsFit
    <3> QED
      BY <1>3, <1>5, <3>2
  <2> QED
    BY <1>1, <2>1, <2>2, <2>3 DEF GrantsFit
<1>8. WaitFits(t, h, Nobody, W, n)
  BY <1>1, <1>3, <1>5 DEF Tidy, WaitFits
<1>9. OwnerFits(t, l, h, Nobody, n, Nobody)
  BY DEF OwnerFits
<1>10. HeldFits(t, l, h, Nobody, n)
  <2>1. h # 0 => l /\ (h = g \/ Has(ev, Ans("broken", h)))
    BY <1>1 DEF Tidy, HeldFits
  <2>2. Has(ev, Ans("broken", h)) => Has(n, Ans("broken", h))
    BY <1>5 DEF Has
  <2>3. Has(n, Ans("broken", g))
    BY <1>2, <1>5 DEF Has
  <2> QED
    BY <2>1, <2>2, <2>3 DEF HeldFits
<1>11. Counts(p, W, n)
  <2>1. Cardinality(GrantsAt(n)) = Cardinality(GrantsAt(ev)) + 0
    BY <1>2, <1>3, <1>n, GrantsAppend
  <2>2. Cardinality(GrantsAt(ev)) \in Nat
    BY GrantsFinite
  <2> QED
    BY <2>1, <2>2 DEF Tidy, Counts
<1> QED
  BY <1>n, <1>7, <1>8, <1>9, <1>10, <1>11 DEF Tidy


\* The tab queues for the lock.
LEMMA QueuesUp ==
  ASSUME NEW t, NEW l, NEW h, NEW own, NEW W, NEW r, NEW g, NEW ev,
         ev \in Seq(Answers), Tidy(t, l, h, 0, own, W, ev, r), g # 0, g # h,
         own # Req(t, g), \A i \in DOMAIN ev : ev[i].gen # g
  PROVE  W = {} /\ Tidy(t, l, h, 1, own, {g}, ev, r)
<1>1. Cardinality(GrantsAt(ev)) \in Nat
  BY GrantsFinite
<1>2. 0 = (IF W = {} THEN 0 ELSE 1) + Cardinality(GrantsAt(ev))
  BY DEF Tidy, Counts
<1>3. W = {} /\ Cardinality(GrantsAt(ev)) = 0
  BY <1>1, <1>2
<1>4. WaitFits(t, h, own, {g}, ev)
  BY DEF WaitFits
<1>5. Counts(1, {g}, ev)
  BY <1>3 DEF Counts
<1> QED
  BY <1>3, <1>4, <1>5 DEF Tidy

\* An owner that is to hand the lock back has nothing to do with it any more.
Spare(t, h, g, W, ev) ==
    /\ g # 0 /\ g # h /\ g \notin W
    /\ \A i \in DOMAIN ev : ev[i] # Ans("granted", g)

\* It hands it back,
LEMMA HandsBack ==
  ASSUME NEW t, NEW l, NEW h, NEW p, NEW W, NEW ev, NEW g, Nobody.by # t,
         Tidy(t, l, h, p, Req(t, g), W, ev, Req(t, g)), Spare(t, h, g, W, ev),
         \A i \in DOMAIN ev : ev[i] \in Answers
  PROVE  Tidy(t, l, h, p, Nobody, W, ev, Nobody)
<1>1. \A x : Nobody # Req(t, x)
  BY DEF Req
<1>2. \A x : Req(t, g) = Req(t, x) => x = g
  BY DEF Req
<1>3. GrantsFit(t, h, Nobody, ev)
  <2>1. ASSUME NEW i \in DOMAIN ev, ev[i].t = "granted"
        PROVE  ev[i].gen # g
    <3>1. ev[i] = Ans("granted", ev[i].gen)
      BY <2>1 DEF Answers, Ans
    <3> QED
      BY <3>1, <2>1 DEF Spare
  <2> QED
    BY <1>1, <1>2, <2>1 DEF Tidy, GrantsFit
<1>4. WaitFits(t, h, Nobody, W, ev)
  BY <1>1 DEF Tidy, WaitFits
<1>5. OwnerFits(t, l, h, Nobody, ev, Nobody)
  BY DEF OwnerFits
<1>6. HeldFits(t, l, h, Nobody, ev)
  BY <1>2 DEF Tidy, HeldFits, Spare
<1> QED
  BY <1>3, <1>4, <1>5, <1>6 DEF Tidy

\* and is told that it has.
LEMMA ToldReleased ==
  ASSUME NEW t, NEW l, NEW h, NEW p, NEW own, NEW W, NEW ev, NEW r, NEW g,
         ev \in Seq(Answers), g \in Nat, Tidy(t, l, h, p, own, W, ev, r),
         g # 0, g \notin W
  PROVE  Tidy(t, l, h, p, own, W, Push(ev, Ans("released", g)), r)
<1>n. PICK n : n = Push(ev, Ans("released", g))
  OBVIOUS
<1>2. PICK a : a = Ans("released", g)
  OBVIOUS
<1>3. a \in Answers /\ a.t = "released" /\ a.gen = g
  BY <1>2 DEF Ans, Answers
<1>4. PICK k : k = Len(ev) + 1
  OBVIOUS
<1>5. /\ (\A i : i \in DOMAIN n <=> i \in DOMAIN ev \/ i = k) /\ k \notin DOMAIN ev /\ n[k] = a
      /\ \A i \in DOMAIN ev : n[i] = ev[i] /\ i < k
  BY <1>2, <1>3, <1>4, <1>n, AppendFacts
<1>6. GrantsFit(t, h, own, n)
  <2>1. \A i \in DOMAIN n : n[i].gen # 0
    BY <1>3, <1>5 DEF Tidy, GrantsFit
  <2>2. ASSUME NEW i \in DOMAIN n, n[i].t = "granted"
        PROVE  /\ n[i].gen # h
               /\ \/ own = Req(t, n[i].gen)
                  \/ \E j \in DOMAIN n : i < j /\ n[j] = Ans("broken", n[i].gen)
    <3>1. i \in DOMAIN ev /\ n[i] = ev[i] /\ ev[i].t = "granted"
      BY <1>3, <1>5, <2>2
    <3>2. /\ ev[i].gen # h
          /\ \/ own = Req(t, ev[i].gen)
             \/ \E j \in DOMAIN ev : i < j /\ ev[j] = Ans("broken", ev[i].gen)
      BY <3>1 DEF Tidy, GrantsFit
    <3> QED
      BY <1>5, <3>1, <3>2
  <2>3. \A i, j \in DOMAIN n : n[i].t = "granted" /\ n[j] = n[i] => i = j
    <3>2. \A i, j \in DOMAIN ev : ev[i].t = "granted" /\ ev[j] = ev[i] => i = j
      BY DEF Tidy, GrantsFit
    <3> QED
      BY <1>3, <1>5, <3>2
  <2>4. \A i \in DOMAIN n : n[i].t = "broken" => own # Req(t, n[i].gen)
    BY <1>3, <1>5 DEF Tidy, GrantsFit
  <2> QED
    BY <2>1, <2>2, <2>3, <2>4 DEF GrantsFit
<1>7. WaitFits(t, h, own, W, n)
  BY <1>3, <1>5 DEF Tidy, WaitFits
<1>8. \A x : Has(ev, x) => Has(n, x)
  BY <1>5 DEF Has
<1>9. OwnerFits(t, l, h, own, n, r)
  BY <1>8 DEF Tidy, OwnerFits
<1>10. HeldFits(t, l, h, own, n)
  BY <1>8 DEF Tidy, HeldFits
<1>11. Counts(p, W, n)
  <2>1. Cardinality(GrantsAt(n)) = Cardinality(GrantsAt(ev)) + 0
    BY <1>2, <1>3, <1>n, GrantsAppend
  <2>2. Cardinality(GrantsAt(ev)) \in Nat
    BY GrantsFinite
  <2> QED
    BY <2>1, <2>2 DEF Tidy, Counts
<1> QED
  BY <1>n, <1>6, <1>7, <1>9, <1>10, <1>11 DEF Tidy

\* The first answer goes; what it was is for each case.
LEMMA Handling ==
  ASSUME NEW t, NEW l, NEW h, NEW p, NEW own, NEW W, NEW ev, NEW r, p \in Nat,
         ev \in Seq(Answers), Tidy(t, l, h, p, own, W, ev, r), ev # <<>>
  PROVE  /\ Rest(ev) \in Seq(Answers) /\ First(ev) \in Answers
         /\ First(ev).gen # 0 /\ First(ev).gen \in Nat
         /\ GrantsFit(t, h, own, Rest(ev)) /\ WaitFits(t, h, own, W, Rest(ev))
         /\ First(ev).gen \notin W
         /\ \A x : Has(ev, x) /\ x # First(ev) => Has(Rest(ev), x)
         /\ First(ev).t # "granted" => Counts(p, W, Rest(ev))
         /\ First(ev).t = "granted" =>
              /\ p - 1 \in Nat /\ Counts(p - 1, W, Rest(ev))
              /\ First(ev).gen # h
              /\ \A i \in DOMAIN Rest(ev) : Rest(ev)[i] # First(ev)
              /\ \/ own = Req(t, First(ev).gen)
                 \/ Has(Rest(ev), Ans("broken", First(ev).gen))
         /\ First(ev).t = "broken" => own # Req(t, First(ev).gen)
<1>n. PICK n : n = Rest(ev)
  OBVIOUS
<1>a. PICK a : a = First(ev)
  OBVIOUS
<1>1. /\ n \in Seq(Answers) /\ a \in Answers /\ a = ev[1] /\ 1 \in DOMAIN ev
      /\ DOMAIN ev \subseteq Nat /\ DOMAIN n \subseteq Nat
      /\ \A i \in DOMAIN n : i + 1 \in DOMAIN ev /\ n[i] = ev[i + 1]
      /\ \A i \in DOMAIN ev : i # 1 => i - 1 \in DOMAIN n /\ n[i - 1] = ev[i]
  BY <1>n, <1>a, TailFacts
<1>2. 0 \notin DOMAIN n /\ 0 \notin DOMAIN ev
  BY <1>1
<1>3. GrantsFit(t, h, own, ev) /\ WaitFits(t, h, own, W, ev) /\ Counts(p, W, ev)
  BY DEF Tidy
<1>4. /\ a.gen # 0 /\ a.gen \in Nat /\ a.gen \notin W
      /\ a.t = "broken" => own # Req(t, a.gen)
  BY <1>1, <1>3 DEF GrantsFit, WaitFits, Answers
<1>5. GrantsFit(t, h, own, n)
  <2>1. \A i \in DOMAIN n : n[i].gen # 0
    BY <1>1, <1>3 DEF GrantsFit
  <2>2. ASSUME NEW i \in DOMAIN n, n[i].t = "granted"
        PROVE  /\ n[i].gen # h
               /\ \/ own = Req(t, n[i].gen)
                  \/ \E j \in DOMAIN n : i < j /\ n[j] = Ans("broken", n[i].gen)
    <3>1. i \in Nat /\ i + 1 \in DOMAIN ev /\ n[i] = ev[i + 1]
      BY <1>1
    <3>2. /\ ev[i + 1].gen # h
          /\ \/ own = Req(t, ev[i + 1].gen)
             \/ \E j \in DOMAIN ev : i + 1 < j /\ ev[j] = Ans("broken", ev[i + 1].gen)
      BY <1>3, <2>2, <3>1 DEF GrantsFit
    <3>3. CASE own = Req(t, ev[i + 1].gen)
      BY <3>1, <3>2, <3>3
    <3>4. CASE \E j \in DOMAIN ev : i + 1 < j /\ ev[j] = Ans("broken", ev[i + 1].gen)
      <4>1. PICK j \in DOMAIN ev : i + 1 < j /\ ev[j] = Ans("broken", ev[i + 1].gen)
        BY <3>4
      <4>2. j \in Nat /\ j # 1 /\ i < j - 1 /\ j - 1 \in DOMAIN n /\ n[j - 1] = ev[j]
        BY <1>1, <3>1, <4>1
      <4> QED
        BY <3>1, <3>2, <4>1, <4>2
    <3> QED
      BY <3>2, <3>3, <3>4
  <2>3. \A i, j \in DOMAIN n : n[i].t = "granted" /\ n[j] = n[i] => i = j
    <3>1. \A i, j \in DOMAIN ev : ev[i].t = "granted" /\ ev[j] = ev[i] => i = j
      BY <1>3 DEF GrantsFit
    <3> SUFFICES ASSUME NEW i, NEW j, i \in DOMAIN n, j \in DOMAIN n,
                        n[i].t = "granted", n[j] = n[i]
                 PROVE  i = j
      OBVIOUS
    <3>2. i \in Nat /\ j \in Nat
      BY <1>1
    <3>3. /\ i + 1 \in DOMAIN ev /\ n[i] = ev[i + 1]
          /\ j + 1 \in DOMAIN ev /\ n[j] = ev[j + 1]
      BY <1>1
    <3>4. i + 1 = j + 1
      BY <3>1, <3>3
    <3> QED
      BY <3>2, <3>4
  <2>4. \A i \in DOMAIN n : n[i].t = "broken" => own # Req(t, n[i].gen)
    BY <1>1, <1>3 DEF GrantsFit
  <2> QED
    BY <2>1, <2>2, <2>3, <2>4 DEF GrantsFit
<1>6. WaitFits(t, h, own, W, n)
  BY <1>1, <1>3 DEF WaitFits
<1>7. \A x : Has(ev, x) /\ x # a => Has(n, x)
  BY <1>1 DEF Has
<1>8. Cardinality(GrantsAt(n)) =
        Cardinality(GrantsAt(ev)) - IF a.t = "granted" THEN 1 ELSE 0
  BY <1>n, <1>a, GrantsTail
<1>9. Cardinality(GrantsAt(n)) \in Nat /\ Cardinality(GrantsAt(ev)) \in Nat
  BY <1>1, GrantsFinite
<1>10. a.t # "granted" => Counts(p, W, n)
  BY <1>3, <1>8, <1>9 DEF Counts
<1>11. ASSUME a.t = "granted"
       PROVE  /\ p - 1 \in Nat /\ Counts(p - 1, W, n)
              /\ a.gen # h
              /\ \A i \in DOMAIN n : n[i] # a
              /\ \/ own = Req(t, a.gen)
                 \/ Has(n, Ans("broken", a.gen))
  <2>1. p - 1 \in Nat /\ Counts(p - 1, W, n)
    BY <1>3, <1>8, <1>9, <1>11 DEF Counts
  <2>2. \A i \in DOMAIN n : n[i] # a
    <3>1. \A i \in DOMAIN ev : ev[i] = a => i = 1
      BY <1>1, <1>3, <1>11 DEF GrantsFit
    <3> QED
      BY <1>1, <1>2, <3>1
  <2>3. /\ a.gen # h
        /\ \/ own = Req(t, a.gen)
           \/ Has(ev, Ans("broken", a.gen))
    BY <1>1, <1>3, <1>11 DEF GrantsFit, Has
  <2>4. Ans("broken", a.gen) # a
    <3>1. Ans("broken", a.gen).t = "broken"
      BY DEF Ans
    <3> QED BY <1>11, <3>1
  <2> QED
    BY <1>7, <2>1, <2>2, <2>3, <2>4
<1> QED
  BY <1>n, <1>a, <1>1, <1>4, <1>5, <1>6, <1>7, <1>10, <1>11


\* A grant, to a follower: it leads through it.
LEMMA LeadsThrough ==
  ASSUME NEW t, NEW p, NEW h, NEW own, NEW W, NEW ev, p \in Nat,
         ev \in Seq(Answers), Tidy(t, FALSE, h, p, own, W, ev, Nobody),
         ev # <<>>, Nobody.by # t, First(ev).t = "granted"
  PROVE  p - 1 \in Nat /\ First(ev).gen \in Nat
         /\ Tidy(t, TRUE, First(ev).gen, p - 1, own, W, Rest(ev), Nobody)
<1>n. PICK n : n = Rest(ev)
  OBVIOUS
<1>a. PICK a : a = First(ev)
  OBVIOUS
<1>3. PICK g : g = a.gen
  OBVIOUS
<1>0. PICK l : l = FALSE
  OBVIOUS
<1>1. Tidy(t, l, h, p, own, W, ev, Nobody)
  BY <1>0
<1>4. /\ n \in Seq(Answers) /\ a \in Answers /\ g # 0 /\ g \in Nat
      /\ GrantsFit(t, h, own, n) /\ WaitFits(t, h, own, W, n)
      /\ g \notin W
      /\ \A x : Has(ev, x) /\ x # a => Has(n, x)
      /\ p - 1 \in Nat /\ Counts(p - 1, W, n)
      /\ \A i \in DOMAIN n : n[i] # a
  BY <1>1, <1>n, <1>a, <1>3, Handling
<1>4a. own = Req(t, g) \/ Has(n, Ans("broken", g))
  BY <1>1, <1>n, <1>a, <1>3, Handling
<1>5. h = 0
  BY DEF Tidy, HeldFits
<1>6. a = Ans("granted", g)
  BY <1>a, <1>3, <1>4 DEF Answers, Ans
<1>7. GrantsFit(t, g, own, n)
  <2>1. \A i \in DOMAIN n : n[i].t = "granted" => n[i].gen # g
    <3>1. \A i \in DOMAIN n : n[i] \in Answers
      BY <1>4
    <3> QED
      BY <1>4, <1>6, <3>1 DEF Answers, Ans
  <2> QED
    BY <1>4, <2>1 DEF GrantsFit
<1>8. WaitFits(t, g, own, W, n)
  BY <1>4 DEF WaitFits
<1>9. OwnerFits(t, TRUE, g, own, n, Nobody)
  <2> SUFFICES ASSUME own.by = t
               PROVE  own.gen # 0 /\ (g = own.gen \/ Has(n, Ans("granted", own.gen)))
    BY DEF OwnerFits
  <2>1. own.gen # 0 /\ Has(ev, Ans("granted", own.gen))
    BY DEF Tidy, OwnerFits
  <2>2. Ans("granted", own.gen) = a => own.gen = g
    BY <1>6 DEF Ans
  <2> QED
    BY <1>4, <2>1, <2>2
<1>10. HeldFits(t, TRUE, g, own, n)
  BY <1>4, <1>4a DEF HeldFits
<1> QED
  BY <1>n, <1>a, <1>3, <1>4, <1>7, <1>8, <1>9, <1>10 DEF Tidy

\* A grant, to a tab that leads already: it is to go straight back.
LEMMA GoesBack ==
  ASSUME NEW t, NEW l, NEW p, NEW h, NEW own, NEW W, NEW ev, p \in Nat,
         ev \in Seq(Answers), own = [by |-> own.by, gen |-> own.gen],
         Tidy(t, l, h, p, own, W, ev, Nobody), ev # <<>>, Nobody.by # t,
         First(ev).t = "granted"
  PROVE  /\ p - 1 \in Nat
         /\ Tidy(t, l, h, p - 1, own, W, Rest(ev), Req(t, First(ev).gen))
         /\ Spare(t, h, First(ev).gen, W, Rest(ev))
<1>n. PICK n : n = Rest(ev)
  OBVIOUS
<1>a. PICK a : a = First(ev)
  OBVIOUS
<1>3. PICK g : g = a.gen
  OBVIOUS
<1>4. /\ n \in Seq(Answers) /\ a \in Answers /\ g # 0 /\ g \in Nat
      /\ GrantsFit(t, h, own, n) /\ WaitFits(t, h, own, W, n)
      /\ g \notin W /\ g # h
      /\ \A x : Has(ev, x) /\ x # a => Has(n, x)
      /\ p - 1 \in Nat /\ Counts(p - 1, W, n)
      /\ \A i \in DOMAIN n : n[i] # a
  BY <1>n, <1>a, <1>3, Handling
<1>6. a = Ans("granted", g)
  BY <1>a, <1>3, <1>4 DEF Answers, Ans
<1>7. Spare(t, h, g, W, n)
  BY <1>4, <1>6 DEF Spare
<1>8. OwnerFits(t, l, h, own, n, Req(t, g))
  <2> SUFFICES ASSUME own.by = t, own # Req(t, g)
               PROVE  /\ own.gen # 0
                      /\ (l /\ h = own.gen) \/ Has(n, Ans("granted", own.gen))
    <3>1. own.by = t => own.gen # 0
      BY DEF Tidy, OwnerFits
    <3> QED BY <3>1 DEF OwnerFits
  <2>1. /\ own.gen # 0
        /\ own = Nobody \/ (l /\ h = own.gen) \/ Has(ev, Ans("granted", own.gen))
    BY DEF Tidy, OwnerFits
  <2>2. own # Nobody
    BY DEF Nobody
  <2>3. Ans("granted", own.gen) = a => own = Req(t, g)
    BY <1>6 DEF Ans, Req
  <2> QED
    BY <1>4, <2>1, <2>2, <2>3
<1>9. HeldFits(t, l, h, own, n)
  <2>1. Ans("broken", h) # a
    <3>1. Ans("broken", h).t = "broken"
      BY DEF Ans
    <3> QED BY <1>a, <3>1
  <2>2. h # 0 => l /\ (own = Req(t, h) \/ Has(ev, Ans("broken", h)))
    BY DEF Tidy, HeldFits
  <2> QED
    BY <1>4, <2>1, <2>2 DEF HeldFits
<1> QED
  BY <1>n, <1>a, <1>3, <1>4, <1>7, <1>8, <1>9 DEF Tidy


\* Word that the lock is lost reaches the tab that leads through it.
LEMMA LosesIt ==
  ASSUME NEW t, NEW l, NEW p, NEW h, NEW own, NEW W, NEW ev, p \in Nat,
         ev \in Seq(Answers), own = [by |-> own.by, gen |-> own.gen],
         Tidy(t, l, h, p, own, W, ev, Nobody), ev # <<>>, Nobody.by # t,
         First(ev).t = "broken", First(ev).gen = h
  PROVE  Tidy(t, FALSE, 0, p, own, W, Rest(ev), Nobody)
<1>n. PICK n : n = Rest(ev)
  OBVIOUS
<1>a. PICK a : a = First(ev)
  OBVIOUS
<1>4. /\ n \in Seq(Answers) /\ a.t = "broken" /\ a.gen = h
      /\ GrantsFit(t, h, own, n) /\ WaitFits(t, h, own, W, n)
      /\ \A x : Has(ev, x) /\ x # a => Has(n, x)
      /\ Counts(p, W, n) /\ own # Req(t, h)
  BY <1>n, <1>a, Handling
<1>5. GrantsFit(t, 0, own, n)
  BY <1>4 DEF GrantsFit
<1>6. WaitFits(t, 0, own, W, n)
  BY <1>4 DEF WaitFits
<1>7. OwnerFits(t, FALSE, 0, own, n, Nobody)
  <2> SUFFICES ASSUME own.by = t
               PROVE  own.gen # 0 /\ Has(n, Ans("granted", own.gen))
    BY DEF OwnerFits
  <2>1. /\ own.gen # 0
        /\ own = Nobody \/ (l /\ h = own.gen) \/ Has(ev, Ans("granted", own.gen))
    BY DEF Tidy, OwnerFits
  <2>2. own # Nobody /\ h # own.gen
    BY <1>4 DEF Req
  <2>3. Ans("granted", own.gen) # a
    <3>1. Ans("granted", own.gen).t = "granted"
      BY DEF Ans
    <3> QED BY <1>4, <3>1
  <2> QED
    BY <1>4, <2>1, <2>2, <2>3
<1>8. HeldFits(t, FALSE, 0, own, n)
  BY DEF HeldFits
<1> QED
  BY <1>n, <1>a, <1>4, <1>5, <1>6, <1>7, <1>8 DEF Tidy

\* Word that says nothing to the tab any more.
LEMMA PassesOver ==
  ASSUME NEW t, NEW l, NEW p, NEW h, NEW own, NEW W, NEW ev, p \in Nat,
         ev \in Seq(Answers), Tidy(t, l, h, p, own, W, ev, Nobody), ev # <<>>,
         First(ev).t # "granted", First(ev).t = "broken" => First(ev).gen # h
  PROVE  Tidy(t, l, h, p, own, W, Rest(ev), Nobody)
<1>n. PICK n : n = Rest(ev)
  OBVIOUS
<1>a. PICK a : a = First(ev)
  OBVIOUS
<1>4. /\ n \in Seq(Answers)
      /\ GrantsFit(t, h, own, n) /\ WaitFits(t, h, own, W, n)
      /\ \A x : Has(ev, x) /\ x # a => Has(n, x)
      /\ Counts(p, W, n)
  BY <1>n, <1>a, Handling
<1>5. Ans("granted", own.gen) # a /\ Ans("broken", h) # a
  <2>1. Ans("granted", own.gen).t = "granted"
    BY DEF Ans
  <2>2. Ans("broken", h).t = "broken" /\ Ans("broken", h).gen = h
    BY DEF Ans
  <2> QED BY <1>a, <2>1, <2>2
<1>6. OwnerFits(t, l, h, own, n, Nobody)
  BY <1>4, <1>5 DEF Tidy, OwnerFits
<1>7. HeldFits(t, l, h, own, n)
  BY <1>4, <1>5 DEF Tidy, HeldFits
<1> QED
  BY <1>n, <1>a, <1>4, <1>6, <1>7 DEF Tidy

\* A tab that leads through the lock steps down: it is to hand it back.
LEMMA StepsDown ==
  ASSUME NEW t, NEW l, NEW p, NEW h, NEW own, NEW W, NEW ev,
         ev \in Seq(Answers), own = [by |-> own.by, gen |-> own.gen],
         Tidy(t, l, h, p, own, W, ev, Nobody), h # 0, Nobody.by # t
  PROVE  Tidy(t, FALSE, 0, p, own, W, ev, Req(t, h)) /\ Spare(t, 0, h, W, ev)
<1>1. GrantsFit(t, 0, own, ev)
  BY DEF Tidy, GrantsFit
<1>2. WaitFits(t, 0, own, W, ev)
  BY DEF Tidy, WaitFits
<1>3. OwnerFits(t, FALSE, 0, own, ev, Req(t, h))
  BY DEF Tidy, OwnerFits, Req
<1>4. HeldFits(t, FALSE, 0, own, ev)
  BY DEF HeldFits
<1>5. Spare(t, 0, h, W, ev)
  <2>1. \A i \in DOMAIN ev : ev[i] # Ans("granted", h)
    BY DEF Tidy, GrantsFit, Ans
  <2>2. h \notin W
    BY DEF Tidy, WaitFits
  <2> QED
    BY <2>1, <2>2 DEF Spare
<1> QED
  BY <1>1, <1>2, <1>3, <1>4, <1>5 DEF Tidy

\* A tab that leads through nothing may lead, or not.
LEMMA LeadsFree ==
  ASSUME NEW t, NEW l, NEW k, NEW p, NEW own, NEW W, NEW ev, NEW r,
         Tidy(t, l, 0, p, own, W, ev, r)
  PROVE  Tidy(t, k, 0, p, own, W, ev, r)
  BY DEF Tidy, OwnerFits, HeldFits

\* A tab that has nothing.
LEMMA Bare ==
  ASSUME NEW t, NEW own, own.by # t
  PROVE  Tidy(t, FALSE, 0, 0, own, {}, <<>>, Nobody)
<1>1. GrantsAt(<<>>) = {}
  BY DEF GrantsAt
<1>2. Cardinality(GrantsAt(<<>>)) = 0
  BY <1>1, FS_EmptySet
<1>3. DOMAIN <<>> = {}
  OBVIOUS
<1> QED
  BY <1>2, <1>3 DEF Tidy, GrantsFit, WaitFits, OwnerFits, HeldFits, Counts


-----------------------------------------------------------------------------
(* The queue. *)

\* What the lock passes to waits no more.
LEMMA WaitRest ==
  ASSUME NEW q, q \in Seq(Requests), Solo(q), q # <<>>
  PROVE  /\ First(q) \in Requests /\ Rest(q) \in Seq(Requests) /\ Solo(Rest(q))
         /\ First(q).gen \in Wait(q, First(q).by)
         /\ \A x \in Wait(q, First(q).by) : x = First(q).gen
         /\ Wait(Rest(q), First(q).by) = {}
         /\ \A u : u # First(q).by => Wait(Rest(q), u) = Wait(q, u)
<1>n. PICK n : n = Rest(q)
  OBVIOUS
<1>a. PICK a : a = First(q)
  OBVIOUS
<1>1. /\ n \in Seq(Requests) /\ a \in Requests /\ a = q[1] /\ 1 \in DOMAIN q
      /\ DOMAIN q \subseteq Nat /\ DOMAIN n \subseteq Nat
      /\ \A i \in DOMAIN n : i + 1 \in DOMAIN q /\ n[i] = q[i + 1]
      /\ \A i \in DOMAIN q : i # 1 => i - 1 \in DOMAIN n /\ n[i - 1] = q[i]
  BY <1>n, <1>a, TailFacts
<1>2. 0 \notin DOMAIN n
  BY <1>1
<1>3. \A i \in DOMAIN q : q[i].by = a.by => i = 1
  BY <1>1 DEF Solo
<1>4. \A i \in DOMAIN n : i \in Nat /\ i + 1 # 1
  BY <1>1, <1>2
<1>5. Solo(n)
  <2> SUFFICES ASSUME NEW i, NEW j, i \in DOMAIN n, j \in DOMAIN n,
                      n[i].by = n[j].by
               PROVE  i = j
    BY DEF Solo
  <2>1. i + 1 = j + 1
    BY <1>1 DEF Solo
  <2> QED
    BY <1>4, <2>1
<1>6. a.gen \in Wait(q, a.by) /\ \A x \in Wait(q, a.by) : x = a.gen
  BY <1>1, <1>3 DEF Wait
<1>7. \A i \in DOMAIN n : n[i].by # a.by
  BY <1>1, <1>3, <1>4
<1>8. Wait(n, a.by) = {}
  BY <1>7 DEF Wait
<1>9. ASSUME NEW u, u # a.by
      PROVE  Wait(n, u) = Wait(q, u)
  <2>1. ASSUME NEW x, x \in Wait(n, u)
        PROVE  x \in Wait(q, u)
    BY <1>1, <2>1 DEF Wait
  <2>2. ASSUME NEW x, x \in Wait(q, u)
        PROVE  x \in Wait(n, u)
    <3>1. PICK i \in DOMAIN q : q[i].by = u /\ x = q[i].gen
      BY <2>2 DEF Wait
    <3>2. i # 1
      BY <1>1, <1>9, <3>1
    <3> QED
      BY <1>1, <3>1, <3>2 DEF Wait
  <2> QED
    BY <2>1, <2>2
<1> QED
  BY <1>n, <1>a, <1>1, <1>5, <1>6, <1>8, <1>9

\* A tab that does not wait joins the queue.
LEMMA WaitPush ==
  ASSUME NEW q, NEW t, NEW g, q \in Seq(Requests), Req(t, g) \in Requests, Solo(q),
         Wait(q, t) = {}
  PROVE  /\ Push(q, Req(t, g)) \in Seq(Requests) /\ Push(q, Req(t, g)) # <<>>
         /\ Solo(Push(q, Req(t, g)))
         /\ g \in Wait(Push(q, Req(t, g)), t)
         /\ \A x \in Wait(Push(q, Req(t, g)), t) : x = g
         /\ \A u : u # t => Wait(Push(q, Req(t, g)), u) = Wait(q, u)
<1>r. PICK r : r = Req(t, g)
  OBVIOUS
<1>0. r \in Requests /\ r.by = t /\ r.gen = g
  BY <1>r DEF Req
<1>n. PICK n : n = Push(q, r)
  OBVIOUS
<1>k. PICK k : k = Len(q) + 1
  OBVIOUS
<1>1. /\ n \in Seq(Requests) /\ (\A i : i \in DOMAIN n <=> i \in DOMAIN q \/ i = k)
      /\ k \notin DOMAIN q /\ n[k] = r
      /\ \A i \in DOMAIN q : n[i] = q[i]
  BY <1>0, <1>n, <1>k, AppendFacts
<1>2. \A i \in DOMAIN q : q[i].by # t
  BY DEF Wait
<1>3. Solo(n)
  BY <1>0, <1>1, <1>2 DEF Solo
<1>4. g \in Wait(n, t) /\ \A x \in Wait(n, t) : x = g
  BY <1>0, <1>1, <1>2 DEF Wait
<1>5. ASSUME NEW u, u # t
      PROVE  Wait(n, u) = Wait(q, u)
  BY <1>0, <1>1, <1>5 DEF Wait
<1>6. n # <<>>
  <2>1. k \in DOMAIN n
    BY <1>1
  <2> QED BY <2>1
<1> QED
  BY <1>r, <1>n, <1>1, <1>3, <1>4, <1>5, <1>6

\* A tab leaves it.
LEMMA WaitWithout ==
  ASSUME NEW q, NEW t, q \in Seq(Requests), Solo(q)
  PROVE  /\ Without(q, t) \in Seq(Requests) /\ Solo(Without(q, t))
         /\ Wait(Without(q, t), t) = {}
         /\ \A u : u # t => Wait(Without(q, t), u) = Wait(q, u)
<1>1. CASE \A i \in DOMAIN q : q[i].by # t
  <2>1. Without(q, t) = q
    BY <1>1 DEF Without
  <2>2. Wait(q, t) = {}
    BY <1>1 DEF Wait
  <2> QED
    BY <2>1, <2>2
<1>2. CASE ~ \A i \in DOMAIN q : q[i].by # t
  <2>k. PICK k : k = CHOOSE i \in DOMAIN q : q[i].by = t
    OBVIOUS
  <2>1. k \in DOMAIN q /\ q[k].by = t
    BY <1>2, <2>k
  <2>l. PICK l : l = Len(q)
    OBVIOUS
  <2>2. l \in Nat /\ DOMAIN q = 1..l /\ \A i \in DOMAIN q : q[i] \in Requests
    BY <2>l
  <2>n. PICK n : n = Without(q, t)
    OBVIOUS
  <2>3. n = [i \in 1..(l - 1) |-> IF i < k THEN q[i] ELSE q[i + 1]]
    BY <1>2, <2>k, <2>l, <2>n DEF Without
  <2>4. l - 1 \in Nat /\ k \in 1..l
    BY <2>1, <2>2
  <2>5. DOMAIN n = 1..(l - 1) /\ \A i \in 1..(l - 1) : n[i] = IF i < k THEN q[i] ELSE q[i + 1]
    BY <2>3
  <2>6. \A i \in 1..(l - 1) : n[i] \in Requests
    BY <2>2, <2>4, <2>5
  <2>7. n \in Seq(Requests)
    <3>1. n \in [1..(l - 1) -> Requests]
      BY <2>3, <2>5, <2>6
    <3> QED
      BY <2>4, <3>1
  <2>8. \A i \in 1..l : q[i].by = t => i = k
    BY <2>1, <2>2 DEF Solo
  <2>9. ASSUME NEW i, i \in DOMAIN n
        PROVE  \E j \in DOMAIN q : n[i] = q[j] /\ j # k /\ i = IF j < k THEN j ELSE j - 1
    <3>1. CASE i < k
      <4>1. i \in DOMAIN q /\ n[i] = q[i]
        BY <2>2, <2>4, <2>5, <2>9, <3>1
      <4> QED
        BY <2>4, <2>5, <2>9, <3>1, <4>1
    <3>2. CASE ~(i < k)
      <4>1. i + 1 \in DOMAIN q /\ n[i] = q[i + 1]
        BY <2>2, <2>4, <2>5, <2>9, <3>2
      <4>2. i \in Nat /\ k \in Nat
        BY <2>4, <2>5, <2>9
      <4>3. i + 1 # k /\ ~(i + 1 < k) /\ (i + 1) - 1 = i
        BY <3>2, <4>2
      <4> QED
        BY <4>1, <4>3
    <3> QED
      BY <3>1, <3>2
  <2>10. ASSUME NEW j, j \in DOMAIN q, j # k
         PROVE  \E i \in DOMAIN n : n[i] = q[j]
    <3>1. CASE j < k
      <4>1. j \in Nat /\ k \in Nat /\ 1 <= j /\ k <= l
        BY <2>2, <2>4, <2>10
      <4>2. j \in 1..(l - 1)
        BY <2>2, <3>1, <4>1
      <4>3. j \in DOMAIN n
        BY <2>5, <4>2
      <4>4. n[j] = q[j]
        BY <2>5, <3>1, <4>2
      <4> QED
        BY <4>3, <4>4
    <3>2. CASE ~(j < k)
      <4>1. j \in Nat /\ k \in Nat /\ l \in Nat /\ j <= l /\ 1 <= k
        BY <2>2, <2>4, <2>10
      <4>2. j # k
        BY <2>10
      <4>3. j - 1 \in 1..(l - 1) /\ ~(j - 1 < k) /\ (j - 1) + 1 = j
        BY <3>2, <4>1, <4>2
      <4> QED
        BY <2>5, <4>3
    <3> QED
      BY <3>1, <3>2
  <2>11. Solo(n)
    <3> SUFFICES ASSUME NEW i, NEW m, i \in DOMAIN n, m \in DOMAIN n,
                        n[i].by = n[m].by
                 PROVE  i = m
      BY DEF Solo
    <3>1. PICK j \in DOMAIN q : n[i] = q[j] /\ i = IF j < k THEN j ELSE j - 1
      BY <2>9
    <3>2. PICK p \in DOMAIN q : n[m] = q[p] /\ m = IF p < k THEN p ELSE p - 1
      BY <2>9
    <3>3. j = p
      BY <3>1, <3>2 DEF Solo
    <3> QED
      BY <3>1, <3>2, <3>3
  <2>12. \A i \in DOMAIN n : n[i].by # t
    BY <2>2, <2>8, <2>9
  <2>13. Wait(n, t) = {}
    BY <2>12 DEF Wait
  <2>14. ASSUME NEW u, u # t
         PROVE  Wait(n, u) = Wait(q, u)
    <3>1. ASSUME NEW x, x \in Wait(n, u)
          PROVE  x \in Wait(q, u)
      BY <2>9, <3>1 DEF Wait
    <3>2. ASSUME NEW x, x \in Wait(q, u)
          PROVE  x \in Wait(n, u)
      <4>1. PICK j \in DOMAIN q : q[j].by = u /\ x = q[j].gen
        BY <3>2 DEF Wait
      <4>2. j # k
        BY <2>1, <2>14, <4>1
      <4> QED
        BY <2>10, <4>1, <4>2 DEF Wait
    <3> QED
      BY <3>1, <3>2
  <2> QED
    BY <2>n, <2>7, <2>11, <2>13, <2>14
<1> QED
  BY <1>1, <1>2


-----------------------------------------------------------------------------
(* A generation that nobody speaks of. *)

LEMMA GensFinite ==
  ASSUME NEW S, NEW q, q \in Seq(S)
  PROVE  IsFiniteSet({q[i].gen : i \in DOMAIN q})
<1> DEFINE D == DOMAIN q  G == {q[i].gen : i \in D}  f == [i \in D |-> q[i].gen]
<1>1. f \in Surjection(D, G)
  BY DEF Surjection
<1>2. PICK n \in Nat : D = 1..n
  OBVIOUS
<1>3. IsFiniteSet(D)
  BY <1>2, FS_Interval
<1> QED
  BY <1>1, <1>3, FS_Surjection

\* Nobody speaks of g to t.
Fresh(t, me, m, g) ==
    /\ g \in Nat /\ g # 0 /\ g # me.held /\ g # m.owner.gen
    /\ \A i \in DOMAIN m.queue : m.queue[i].gen # g
    /\ \A i \in DOMAIN m.events[t] : m.events[t][i].gen # g

LEMMA NewGenFresh ==
  ASSUME NEW t, NEW s, t \in Tabs, s.m \in Manager
  PROVE  Fresh(t, s.me, s.m, NewGen(t, s))
<1> DEFINE A == {s.me.held, s.m.owner.gen}
           B == {s.m.queue[i].gen : i \in DOMAIN s.m.queue}
           C == {s.m.events[t][i].gen : i \in DOMAIN s.m.events[t]}
<1>1. s.m.queue \in Seq(Requests) /\ s.m.events[t] \in Seq(Answers)
  BY DEF Manager
<1>2. IsFiniteSet(B) /\ IsFiniteSet(C)
  BY <1>1, GensFinite
<1>3. IsFiniteSet(A)
  <2>1. IsFiniteSet({s.me.held}) /\ IsFiniteSet({s.m.owner.gen})
    BY FS_Singleton
  <2>2. A = {s.me.held} \cup {s.m.owner.gen}
    OBVIOUS
  <2> HIDE DEF A
  <2> QED
    BY <2>1, <2>2, FS_Union
<1>4. PICK I : I = InUse(t, s)
  OBVIOUS
<1>5. I = (A \cup B) \cup C
  BY <1>4 DEF InUse
<1>6. IsFiniteSet(I)
  <2> HIDE DEF A, B, C
  <2>1. IsFiniteSet(A \cup B)
    BY <1>2, <1>3, FS_Union
  <2> QED
    BY <1>2, <1>5, <2>1, FS_Union
<1>7. PICK n : n = Cardinality(I)
  OBVIOUS
<1>8. n \in Nat
  BY <1>6, <1>7, FS_CardinalityType
<1>9. \E g \in 1..(n + 1) : g \notin I
  <2> SUFFICES ASSUME 1..(n + 1) \subseteq I
               PROVE  FALSE
    OBVIOUS
  <2>1. Cardinality(1..(n + 1)) <= n
    BY <1>6, <1>7, FS_Subset
  <2>2. Cardinality(1..(n + 1)) = n + 1
    <3>1. 1 \in Int /\ n + 1 \in Int /\ ~(1 > n + 1) /\ (n + 1) - 1 + 1 = n + 1
      BY <1>8
    <3> QED
      BY <3>1, FS_Interval
  <2> QED
    BY <1>8, <2>1, <2>2
<1>10. PICK g : g = NewGen(t, s)
  OBVIOUS
<1>11. g \in 1..(n + 1) /\ g \notin I
  BY <1>4, <1>7, <1>9, <1>10 DEF NewGen
<1>12. g \in Nat /\ g # 0
  BY <1>8, <1>11
<1> QED
  BY <1>5, <1>10, <1>11, <1>12 DEF Fresh

-----------------------------------------------------------------------------
(* The manager. *)

LEMMA ManagerFields ==
  ASSUME NEW m, m \in Manager
  PROVE  /\ m.owner \in Requests \/ m.owner = Nobody
         /\ m.queue \in Seq(Requests)
         /\ \A u \in Tabs : m.events[u] \in Seq(Answers)
         /\ m.owner = [by |-> m.owner.by, gen |-> m.owner.gen]
         /\ m.owner # Nobody => m.owner \in Requests /\ m.owner.by \in Tabs
         /\ m.owner.gen \in Nat
<1>1. m.owner \in Requests \cup {Nobody}
  BY DEF Manager
<1> QED
  BY <1>1 DEF Manager, Requests, Nobody

LEMMA NoTab ==
  ASSUME NEW t, t \in Tabs
  PROVE  Nobody.by # t /\ t # 0
  BY LeaseAssumption DEF Nobody

LEMMA TellFacts ==
  ASSUME NEW m, NEW r, NEW what, m \in Manager, r \in Requests,
         what \in {"granted", "broken", "released"}
  PROVE  /\ Tell(m, r, what) \in Manager
         /\ Tell(m, r, what).owner = m.owner
         /\ Tell(m, r, what).queue = m.queue
         /\ Tell(m, r, what).events[r.by] = Push(m.events[r.by], Ans(what, r.gen))
         /\ \A u \in Tabs : u # r.by => Tell(m, r, what).events[u] = m.events[u]
<1>1. r.by \in Tabs /\ Ans(what, r.gen) \in Answers
  BY DEF Requests, Answers, Ans
<1>2. PICK a : a = Ans(what, r.gen)
  OBVIOUS
<1>3. m.events[r.by] \in Seq(Answers)
  BY <1>1, ManagerFields
<1>4. PICK e : e = Push(m.events[r.by], a)
  OBVIOUS
<1>5. e \in Seq(Answers)
  BY <1>1, <1>2, <1>3, <1>4, AppendFacts
<1>6. Tell(m, r, what) = [m EXCEPT !.events[r.by] = e]
  BY <1>2, <1>4 DEF Tell, Push, Ans
<1>7. PICK f : f = [m.events EXCEPT ![r.by] = e]
  OBVIOUS
<1>8. m.events \in [Tabs -> Seq(Answers)]
  BY DEF Manager
<1>9. f \in [Tabs -> Seq(Answers)] /\ f[r.by] = e /\ \A u \in Tabs : u # r.by => f[u] = m.events[u]
  BY <1>1, <1>5, <1>7, <1>8
<1>10. PICK n : n = [m EXCEPT !.events = f]
  OBVIOUS
<1>11. n = Tell(m, r, what)
  BY <1>6, <1>7, <1>10 DEF Manager
<1>12. n \in Manager /\ n.owner = m.owner /\ n.queue = m.queue /\ n.events = f
  BY <1>9, <1>10 DEF Manager
<1> QED
  BY <1>2, <1>4, <1>9, <1>11, <1>12


-----------------------------------------------------------------------------
(* All the tabs, with T for their variables. *)

Fits(me, m, u, r) ==
    Tidy(u, me.leader, me.held, me.pending, m.owner, Wait(m.queue, u), m.events[u], r)

AllFit(T, m, r) == Solo(m.queue) /\ \A u \in Tabs : Fits(T[u], m, u, r)

LEMMA LocalFields ==
  ASSUME NEW me, me \in Local
  PROVE  me.leader \in BOOLEAN /\ me.held \in Nat /\ me.pending \in Nat
  BY DEF Local

\* The free lock passes to the first that waits.
LEMMA GrantAll ==
  ASSUME NEW T, NEW m, T \in [Tabs -> Local], m \in Manager,
         AllFit(T, m, Nobody), m.owner = Nobody
  PROVE  /\ Grant(m) \in Manager /\ AllFit(T, Grant(m), Nobody)
         /\ \A u \in Tabs : Wait(Grant(m).queue, u) \subseteq Wait(m.queue, u)
<1>1. CASE m.queue = <<>>
  <2>1. Grant(m) = m
    BY <1>1 DEF Grant
  <2> QED
    BY <2>1
<1>2. CASE m.queue # <<>>
  <2>q. PICK q : q = m.queue
    OBVIOUS
  <2>1. q \in Seq(Requests) /\ q # <<>> /\ Solo(q)
    BY <1>2, <2>q, ManagerFields DEF AllFit
  <2>r. PICK r : r = First(q)
    OBVIOUS
  <2>s. PICK s : s = Rest(q)
    OBVIOUS
  <2>2. /\ r \in Requests /\ s \in Seq(Requests) /\ Solo(s)
        /\ r.gen \in Wait(q, r.by)
        /\ \A x \in Wait(q, r.by) : x = r.gen
        /\ Wait(s, r.by) = {}
        /\ \A u : u # r.by => Wait(s, u) = Wait(q, u)
    BY <2>1, <2>r, <2>s, WaitRest
  <2>3. PICK b : b = [m EXCEPT !.owner = r, !.queue = s]
    OBVIOUS
  <2>4. b \in Manager /\ b.owner = r /\ b.queue = s /\ b.events = m.events
    BY <2>2, <2>3 DEF Manager
  <2>n. PICK n : n = Tell(b, r, "granted")
    OBVIOUS
  <2>5. n = Grant(m)
    BY <1>2, <2>q, <2>r, <2>s, <2>3, <2>n DEF Grant, First, Rest
  <2>6. /\ n \in Manager /\ n.owner = r /\ n.queue = s
        /\ n.events[r.by] = Push(m.events[r.by], Ans("granted", r.gen))
        /\ \A u \in Tabs : u # r.by => n.events[u] = m.events[u]
    BY <2>2, <2>4, <2>n, TellFacts
  <2>7. r.by \in Tabs /\ r.gen \in Nat /\ r = Req(r.by, r.gen)
    BY <2>2 DEF Requests, Req
  <2>8. ASSUME NEW u, u \in Tabs
        PROVE  Fits(T[u], n, u, Nobody)
    <3>1. PICK l : l = T[u].leader
      OBVIOUS
    <3>2. PICK h : h = T[u].held
      OBVIOUS
    <3>3. PICK p : p = T[u].pending
      OBVIOUS
    <3>4. PICK ev : ev = m.events[u]
      OBVIOUS
    <3>5. PICK W : W = Wait(q, u)
      OBVIOUS
    <3>6. p \in Nat /\ ev \in Seq(Answers)
      BY <2>8, <3>3, <3>4, LocalFields, ManagerFields
    <3>7. Tidy(u, l, h, p, Nobody, W, ev, Nobody)
      BY <2>8, <2>q, <3>1, <3>2, <3>3, <3>4, <3>5 DEF AllFit, Fits
    <3>8. Nobody.by # u
      BY <2>8, NoTab
    <3>9. CASE u = r.by
      <4>1. PICK g : g = r.gen
        OBVIOUS
      <4>2. g \in Nat /\ g \in W /\ \A x \in W : x = g
        BY <2>2, <2>7, <3>5, <3>9, <4>1
      <4>3. g # 0 /\ g # h /\ \A i \in DOMAIN ev : ev[i].gen # g
        BY <3>7, <4>2 DEF Tidy, WaitFits
      <4>4. Tidy(u, l, h, p, Req(u, g), {}, Push(ev, Ans("granted", g)), Nobody)
        BY <3>6, <3>7, <3>8, <4>2, <4>3, GivenTo
      <4> QED
        BY <2>2, <2>6, <2>7, <3>1, <3>2, <3>3, <3>4, <3>9, <4>1, <4>4 DEF Fits
    <3>10. CASE u # r.by
      <4>1. Tidy(u, l, h, p, r, W, ev, Nobody)
        BY <3>7, <3>8, <3>10, Aside
      <4> QED
        BY <2>2, <2>6, <2>8, <3>1, <3>2, <3>3, <3>4, <3>5, <3>10, <4>1 DEF Fits
    <3> QED
      BY <3>9, <3>10
  <2>9. \A u \in Tabs : Wait(s, u) \subseteq Wait(q, u)
    BY <2>2
  <2> QED
    BY <2>2, <2>5, <2>6, <2>8, <2>9, <2>q DEF AllFit
<1> QED
  BY <1>1, <1>2


LEMMA Whoever ==
  ASSUME NEW t, NEW l, NEW h, NEW p, NEW own, NEW W, NEW ev, NEW r,
         Nobody.by # t, Tidy(t, l, h, p, own, W, ev, Nobody)
  PROVE  Tidy(t, l, h, p, own, W, ev, r)
<1>1. OwnerFits(t, l, h, own, ev, r)
  BY DEF Tidy, OwnerFits
<1> QED
  BY <1>1 DEF Tidy

\* Only the variables and the answers of t change.
LEMMA OneChanges ==
  ASSUME NEW T, NEW U, NEW m, NEW n, NEW t, NEW r, AllFit(T, m, Nobody),
         n.owner = m.owner, n.queue = m.queue,
         \A u \in Tabs : u # t => U[u] = T[u] /\ n.events[u] = m.events[u],
         Fits(U[t], n, t, r)
  PROVE  AllFit(U, n, r)
<1>1. ASSUME NEW u, u \in Tabs, u # t
      PROVE  Fits(U[u], n, u, r)
  <2>1. Fits(T[u], m, u, Nobody)
    BY <1>1 DEF AllFit
  <2>2. Fits(T[u], m, u, r)
    BY <1>1, <2>1, NoTab, Whoever DEF Fits
  <2> QED
    BY <1>1, <2>2 DEF Fits
<1> QED
  BY <1>1 DEF AllFit

\* t queues.
LEMMA QueuedAll ==
  ASSUME NEW T, NEW U, NEW m, NEW t, NEW g, T \in [Tabs -> Local],
         U \in [Tabs -> Local], m \in Manager, t \in Tabs,
         AllFit(T, m, Nobody), T[t].pending = 0, Fresh(t, T[t], m, g),
         \A u \in Tabs : u # t => U[u] = T[u],
         U[t].leader = T[t].leader, U[t].held = T[t].held, U[t].pending = 1
  PROVE  Queued(m, Req(t, g)) \in Manager /\ AllFit(U, Queued(m, Req(t, g)), Nobody)
<1>r. PICK r : r = Req(t, g)
  OBVIOUS
<1>1. r \in Requests /\ r.by = t /\ r.gen = g
  BY <1>r DEF Req, Requests, Fresh
<1>2. PICK q : q = m.queue
  OBVIOUS
<1>3. q \in Seq(Requests) /\ Solo(q)
  BY <1>2, ManagerFields DEF AllFit
<1>4. PICK ev : ev = m.events[t]
  OBVIOUS
<1>5. PICK l : l = T[t].leader
  OBVIOUS
<1>6. PICK h : h = T[t].held
  OBVIOUS
<1>7. PICK own : own = m.owner
  OBVIOUS
<1>8. PICK W : W = Wait(q, t)
  OBVIOUS
<1>9. ev \in Seq(Answers) /\ Tidy(t, l, h, 0, own, W, ev, Nobody)
  BY <1>2, <1>4, <1>5, <1>6, <1>7, <1>8, ManagerFields DEF AllFit, Fits
<1>10. /\ g # 0 /\ g # h /\ own # Req(t, g)
       /\ \A i \in DOMAIN ev : ev[i].gen # g
  BY <1>4, <1>6, <1>7 DEF Fresh, Req
<1>11. W = {} /\ Tidy(t, l, h, 1, own, {g}, ev, Nobody)
  BY <1>9, <1>10, QueuesUp
<1>12. PICK p : p = Push(q, r)
  OBVIOUS
<1>13. /\ p \in Seq(Requests) /\ p # <<>> /\ Solo(p) /\ Wait(p, t) = {g}
       /\ \A u : u # t => Wait(p, u) = Wait(q, u)
  <2>1. Wait(q, t) = {}
    BY <1>8, <1>11
  <2>2. /\ p \in Seq(Requests) /\ p # <<>> /\ Solo(p)
        /\ g \in Wait(p, t) /\ \A x \in Wait(p, t) : x = g
        /\ \A u : u # t => Wait(p, u) = Wait(q, u)
    BY <1>1, <1>3, <1>12, <1>r, <2>1, WaitPush
  <2> QED
    BY <2>2
<1>14. PICK n : n = [m EXCEPT !.queue = p]
  OBVIOUS
<1>15. n \in Manager /\ n.owner = m.owner /\ n.queue = p /\ n.events = m.events
  BY <1>13, <1>14 DEF Manager
<1>16. Fits(U[t], n, t, Nobody)
  BY <1>4, <1>5, <1>6, <1>7, <1>11, <1>13, <1>15 DEF Fits
<1>17. ASSUME NEW u, u \in Tabs, u # t
       PROVE  Fits(U[u], n, u, Nobody)
  <2>1. Fits(T[u], m, u, Nobody)
    BY <1>17 DEF AllFit
  <2> QED
    BY <1>2, <1>13, <1>15, <1>17, <2>1 DEF Fits
<1>18. AllFit(U, n, Nobody)
  BY <1>13, <1>15, <1>16, <1>17 DEF AllFit
<1>19. Queued(m, r) = IF m.owner = Nobody THEN Grant(n) ELSE n
  BY <1>2, <1>12, <1>14 DEF Queued, Push
<1>20. CASE m.owner = Nobody
  BY <1>15, <1>18, <1>19, <1>20, <1>r, GrantAll
<1>21. CASE m.owner # Nobody
  BY <1>15, <1>18, <1>19, <1>21, <1>r
<1> QED
  BY <1>20, <1>21

\* t takes the lock with steal.
LEMMA StolenAll ==
  ASSUME NEW T, NEW U, NEW m, NEW t, NEW g, T \in [Tabs -> Local],
         U \in [Tabs -> Local], m \in Manager, t \in Tabs,
         AllFit(T, m, Nobody), Fresh(t, T[t], m, g),
         \A u \in Tabs : u # t => U[u] = T[u],
         U[t].leader = T[t].leader, U[t].held = T[t].held,
         U[t].pending = T[t].pending + 1
  PROVE  Stolen(m, Req(t, g)) \in Manager /\ AllFit(U, Stolen(m, Req(t, g)), Nobody)
<1>r. PICK r : r = Req(t, g)
  OBVIOUS
<1>1. r \in Requests /\ r.by = t /\ r.gen = g
  BY <1>r DEF Req, Requests, Fresh
<1>2. PICK own : own = m.owner
  OBVIOUS
<1>n. PICK n : n = IF own = Nobody THEN m ELSE Tell(m, own, "broken")
  OBVIOUS
<1>3. /\ n \in Manager /\ n.queue = m.queue
      /\ own # Nobody => n.events[own.by] = Push(m.events[own.by], Ans("broken", own.gen))
      /\ \A u \in Tabs : own = Nobody \/ u # own.by => n.events[u] = m.events[u]
  <2>1. CASE own = Nobody
    BY <1>n, <2>1
  <2>2. CASE own # Nobody
    <3>1. own \in Requests
      BY <1>2, <2>2, ManagerFields
    <3>2. n = Tell(m, own, "broken")
      BY <1>n, <2>2
    <3> QED
      BY <2>2, <3>1, <3>2, TellFacts
  <2> QED
    BY <2>1, <2>2
<1>4. ASSUME NEW u, u \in Tabs
      PROVE  Tidy(u, T[u].leader, T[u].held, T[u].pending, Nobody, Wait(m.queue, u),
                  n.events[u], Nobody)
  <2>1. PICK l : l = T[u].leader
    OBVIOUS
  <2>2. PICK h : h = T[u].held
    OBVIOUS
  <2>3. PICK p : p = T[u].pending
    OBVIOUS
  <2>4. PICK ev : ev = m.events[u]
    OBVIOUS
  <2>5. PICK W : W = Wait(m.queue, u)
    OBVIOUS
  <2>6. p \in Nat /\ ev \in Seq(Answers)
    BY <1>4, <2>3, <2>4, LocalFields, ManagerFields
  <2>7. Tidy(u, l, h, p, own, W, ev, Nobody)
    BY <1>2, <1>4, <2>1, <2>2, <2>3, <2>4, <2>5 DEF AllFit, Fits
  <2>8. Nobody.by # u
    BY <1>4, NoTab
  <2>9. CASE own = Nobody
    BY <1>3, <1>4, <2>1, <2>2, <2>3, <2>4, <2>5, <2>7, <2>9
  <2>10. CASE own # Nobody /\ own.by = u
    <3>1. PICK x : x = own.gen
      OBVIOUS
    <3>2. x \in Nat /\ own = Req(u, x)
      BY <1>2, <2>10, <3>1, ManagerFields DEF Req
    <3>3. Tidy(u, l, h, p, Nobody, W, Push(ev, Ans("broken", x)), Nobody)
      BY <2>6, <2>7, <2>8, <3>2, StolenFrom
    <3> QED
      BY <1>3, <2>1, <2>2, <2>3, <2>4, <2>5, <2>10, <3>1, <3>3
  <2>11. CASE own # Nobody /\ own.by # u
    <3>1. Tidy(u, l, h, p, Nobody, W, ev, Nobody)
      BY <2>7, <2>8, <2>11, Aside
    <3> QED
      BY <1>3, <1>4, <2>1, <2>2, <2>3, <2>4, <2>5, <2>11, <3>1
  <2> QED
    BY <2>9, <2>10, <2>11
<1>5. \A i \in DOMAIN n.events[t] : n.events[t][i].gen # g
  <2>1. CASE own # Nobody /\ own.by = t
    <3>1. PICK a : a = Ans("broken", own.gen)
      OBVIOUS
    <3>2. a \in Answers /\ a.gen # g
      BY <1>2, <2>1, <3>1, ManagerFields DEF Ans, Answers, Fresh
    <3>3. PICK ev : ev = m.events[t]
      OBVIOUS
    <3>4. ev \in Seq(Answers) /\ n.events[t] = Push(ev, a)
      BY <1>3, <2>1, <3>1, <3>3, ManagerFields
    <3>5. \A i \in DOMAIN ev : ev[i].gen # g
      BY <3>3 DEF Fresh
    <3>6. PICK e : e = Push(ev, a)
      OBVIOUS
    <3>7. PICK k : k = Len(ev) + 1
      OBVIOUS
    <3>8. /\ \A i : i \in DOMAIN e <=> i \in DOMAIN ev \/ i = k
          /\ e[k] = a
          /\ \A i \in DOMAIN ev : e[i] = ev[i]
      BY <3>2, <3>4, <3>6, <3>7, AppendFacts
    <3> QED
      BY <3>2, <3>4, <3>5, <3>6, <3>8
  <2>2. CASE ~(own # Nobody /\ own.by = t)
    <3>1. n.events[t] = m.events[t]
      BY <1>3, <2>2
    <3> QED
      BY <3>1 DEF Fresh
  <2> QED
    BY <2>1, <2>2
<1>6. PICK b : b = [n EXCEPT !.owner = r]
  OBVIOUS
<1>7. b \in Manager /\ b.owner = r /\ b.queue = m.queue /\ b.events = n.events
  BY <1>1, <1>3, <1>6 DEF Manager
<1>8. PICK c : c = Tell(b, r, "granted")
  OBVIOUS
<1>9. c = Stolen(m, r)
  BY <1>2, <1>n, <1>6, <1>8 DEF Stolen
<1>10. /\ c \in Manager /\ c.owner = r /\ c.queue = m.queue
       /\ c.events[t] = Push(n.events[t], Ans("granted", g))
       /\ \A u \in Tabs : u # t => c.events[u] = n.events[u]
  BY <1>1, <1>7, <1>8, TellFacts
<1>11. Fits(U[t], c, t, Nobody)
  <2>1. PICK l : l = T[t].leader
    OBVIOUS
  <2>2. PICK h : h = T[t].held
    OBVIOUS
  <2>3. PICK p : p = T[t].pending
    OBVIOUS
  <2>4. PICK ev : ev = n.events[t]
    OBVIOUS
  <2>5. PICK W : W = Wait(m.queue, t)
    OBVIOUS
  <2>6. p \in Nat /\ ev \in Seq(Answers) /\ g \in Nat /\ g # 0 /\ g # h
    BY <1>3, <2>2, <2>3, <2>4, LocalFields, ManagerFields DEF Fresh
  <2>7. Tidy(t, l, h, p, Nobody, W, ev, Nobody) /\ Nobody.by # t
    BY <1>4, <2>1, <2>2, <2>3, <2>4, <2>5, NoTab
  <2>8. g \notin W
    BY <2>5 DEF Wait, Fresh
  <2>9. \A i \in DOMAIN ev : ev[i].gen # g
    BY <1>5, <2>4
  <2>10. PICK k : k = p + 1
    OBVIOUS
  <2>11. k \in Nat
    BY <2>6, <2>10
  <2>12. Tidy(t, l, h, k, r, W, Push(ev, Ans("granted", g)), Nobody)
    BY <1>r, <2>6, <2>7, <2>8, <2>9, <2>10, <2>11, GivenTo
  <2> QED
    BY <1>10, <2>1, <2>2, <2>3, <2>4, <2>5, <2>10, <2>12 DEF Fits
<1>12. ASSUME NEW u, u \in Tabs, u # t
       PROVE  Fits(U[u], c, u, Nobody)
  <2>1. PICK l : l = T[u].leader
    OBVIOUS
  <2>2. PICK h : h = T[u].held
    OBVIOUS
  <2>3. PICK p : p = T[u].pending
    OBVIOUS
  <2>4. PICK ev : ev = n.events[u]
    OBVIOUS
  <2>5. PICK W : W = Wait(m.queue, u)
    OBVIOUS
  <2>6. Tidy(u, l, h, p, Nobody, W, ev, Nobody) /\ Nobody.by # u /\ r.by # u
    BY <1>1, <1>4, <1>12, <2>1, <2>2, <2>3, <2>4, <2>5, NoTab
  <2>7. Tidy(u, l, h, p, r, W, ev, Nobody)
    BY <2>6, Aside
  <2> QED
    BY <1>10, <1>12, <2>1, <2>2, <2>3, <2>4, <2>5, <2>7 DEF Fits
<1>13. AllFit(U, c, Nobody)
  BY <1>10, <1>11, <1>12 DEF AllFit
<1> QED
  BY <1>r, <1>9, <1>10, <1>13

\* t hands back the lock that it has through g, or that it has lost since.
LEMMA ReleasedAll ==
  ASSUME NEW T, NEW m, NEW t, NEW g, T \in [Tabs -> Local], m \in Manager,
         t \in Tabs, g \in Nat, AllFit(T, m, Req(t, g)),
         Spare(t, T[t].held, g, Wait(m.queue, t), m.events[t])
  PROVE  Released(m, Req(t, g)) \in Manager /\ AllFit(T, Released(m, Req(t, g)), Nobody)
<1>r. PICK r : r = Req(t, g)
  OBVIOUS
<1>1. r \in Requests /\ r.by = t /\ r.gen = g /\ r # Nobody
  BY <1>r, NoTab DEF Req, Requests
<1>2. CASE m.owner # r
  <2>1. Released(m, r) = m
    BY <1>2 DEF Released
  <2>2. ASSUME NEW u, u \in Tabs
        PROVE  Fits(T[u], m, u, Nobody)
    <3>1. Fits(T[u], m, u, r)
      BY <1>r, <2>2 DEF AllFit
    <3>2. OwnerFits(u, T[u].leader, T[u].held, m.owner, m.events[u], Nobody)
      BY <1>2, <3>1 DEF Fits, Tidy, OwnerFits
    <3> QED
      BY <3>1, <3>2 DEF Fits, Tidy
  <2> QED
    BY <1>r, <2>1, <2>2 DEF AllFit
<1>3. CASE m.owner = r
  <2>1. PICK b : b = [m EXCEPT !.owner = Nobody]
    OBVIOUS
  <2>2. b \in Manager /\ b.owner = Nobody /\ b.queue = m.queue /\ b.events = m.events
    BY <2>1 DEF Manager
  <2>3. ASSUME NEW u, u \in Tabs
        PROVE  Fits(T[u], b, u, Nobody)
    <3>1. PICK l : l = T[u].leader
      OBVIOUS
    <3>2. PICK h : h = T[u].held
      OBVIOUS
    <3>3. PICK p : p = T[u].pending
      OBVIOUS
    <3>4. PICK ev : ev = m.events[u]
      OBVIOUS
    <3>5. PICK W : W = Wait(m.queue, u)
      OBVIOUS
    <3>6. Nobody.by # u /\ Tidy(u, l, h, p, r, W, ev, r)
      BY <1>r, <1>3, <2>3, <3>1, <3>2, <3>3, <3>4, <3>5, NoTab DEF AllFit, Fits
    <3>7. Tidy(u, l, h, p, Nobody, W, ev, Nobody)
      <4>1. CASE u # t
        BY <1>1, <3>6, <4>1, Aside
      <4>2. CASE u = t
        <5>1. Spare(u, h, g, W, ev)
          BY <3>2, <3>4, <3>5, <4>2
        <5>2. \A i \in DOMAIN ev : ev[i] \in Answers
          <6>1. ev \in Seq(Answers)
            BY <2>3, <3>4, ManagerFields
          <6> QED
            BY <6>1
        <5>3. r = Req(u, g)
          BY <1>r, <4>2
        <5> QED
          BY <3>6, <5>1, <5>2, <5>3, HandsBack
      <4> QED
        BY <4>1, <4>2
    <3> QED
      BY <2>2, <3>1, <3>2, <3>3, <3>4, <3>5, <3>7 DEF Fits
  <2>4. AllFit(T, b, Nobody)
    BY <2>2, <2>3 DEF AllFit
  <2>5. PICK c : c = Grant(b)
    OBVIOUS
  <2>6. /\ c \in Manager /\ AllFit(T, c, Nobody)
        /\ Wait(c.queue, t) \subseteq Wait(m.queue, t)
    BY <2>2, <2>4, <2>5, GrantAll
  <2>7. PICK n : n = Tell(c, r, "released")
    OBVIOUS
  <2>8. n = Released(m, r)
    BY <1>3, <2>1, <2>5, <2>7 DEF Released
  <2>9. /\ n \in Manager /\ n.owner = c.owner /\ n.queue = c.queue
        /\ n.events[t] = Push(c.events[t], Ans("released", g))
        /\ \A u \in Tabs : u # t => n.events[u] = c.events[u]
    BY <1>1, <2>6, <2>7, TellFacts
  <2>10. g # 0 /\ g \notin Wait(c.queue, t)
    BY <2>6 DEF Spare
  <2>11. Fits(T[t], n, t, Nobody)
    <3>1. PICK l : l = T[t].leader
      OBVIOUS
    <3>2. PICK h : h = T[t].held
      OBVIOUS
    <3>3. PICK p : p = T[t].pending
      OBVIOUS
    <3>4. PICK ev : ev = c.events[t]
      OBVIOUS
    <3>5. PICK W : W = Wait(c.queue, t)
      OBVIOUS
    <3>6. PICK own : own = c.owner
      OBVIOUS
    <3>7. Tidy(t, l, h, p, own, W, ev, Nobody) /\ ev \in Seq(Answers)
      BY <2>6, <3>1, <3>2, <3>3, <3>4, <3>5, <3>6, ManagerFields DEF AllFit, Fits
    <3>8. Tidy(t, l, h, p, own, W, Push(ev, Ans("released", g)), Nobody)
      BY <2>10, <3>5, <3>7, ToldReleased
    <3> QED
      BY <2>9, <3>1, <3>2, <3>3, <3>4, <3>5, <3>6, <3>8 DEF Fits
  <2>12. AllFit(T, n, Nobody)
    BY <2>6, <2>9, <2>11, OneChanges
  <2> QED
    BY <1>r, <2>8, <2>9, <2>12
<1> QED
  BY <1>2, <1>3


-----------------------------------------------------------------------------
(* The parts of a task: s is the pair [me, m] as t changes it, T the        *)
(* variables of the others.                                                *)

Pairs == [me : Local, m : Manager]

Ok(T, t, s, r) ==
    /\ T \in [Tabs -> Local] /\ t \in Tabs /\ s \in Pairs
    /\ AllFit([T EXCEPT ![t] = s.me], s.m, r)

\* z leads, or not, as s does.
LeadsAs(z, s) == z.me.leader = s.me.leader /\ z.me.held = s.me.held

LEMMA OkMade ==
  ASSUME NEW T, NEW t, NEW s, NEW r, NEW U, T \in [Tabs -> Local], t \in Tabs,
         s \in Pairs, \A u \in Tabs : u # t => U[u] = T[u], U[t] = s.me,
         AllFit(U, s.m, r)
  PROVE  Ok(T, t, s, r)
<1>1. PICK V : V = [T EXCEPT ![t] = s.me]
  OBVIOUS
<1>2. V[t] = s.me /\ \A u \in Tabs : u # t => V[u] = T[u]
  BY <1>1
<1>3. \A u \in Tabs : V[u] = U[u]
  BY <1>2
<1>4. AllFit(V, s.m, r)
  BY <1>3 DEF AllFit
<1> QED
  BY <1>1, <1>4 DEF Ok

LEMMA OkOpened ==
  ASSUME NEW T, NEW t, NEW s, NEW r, Ok(T, t, s, r)
  PROVE  \E U \in [Tabs -> Local] : /\ U[t] = s.me
                                    /\ \A u \in Tabs : u # t => U[u] = T[u]
                                    /\ AllFit(U, s.m, r)
<1> T \in [Tabs -> Local] /\ t \in Tabs
  BY DEF Ok
<1>1. PICK V : V = [T EXCEPT ![t] = s.me]
  OBVIOUS
<1>2. s.me \in Local
  BY DEF Ok, Pairs
<1>3. V \in [Tabs -> Local] /\ V[t] = s.me /\ \A u \in Tabs : u # t => V[u] = T[u]
  BY <1>1, <1>2
<1>4. AllFit(V, s.m, r)
  BY <1>1 DEF Ok
<1> QED
  BY <1>3, <1>4

\* The tab asks for the lock, or takes it.
Ask(t, s) == RequestLock(t, s, FALSE)
Take(t, s) == RequestLock(t, s, TRUE)

LEMMA RequestOk ==
  ASSUME NEW T, NEW t, NEW s, Ok(T, t, s, Nobody)
  PROVE  /\ Ok(T, t, Ask(t, s), Nobody)
         /\ LeadsAs(Ask(t, s), s)
         /\ Ok(T, t, Take(t, s), Nobody)
         /\ LeadsAs(Take(t, s), s)
<1> T \in [Tabs -> Local] /\ t \in Tabs
  BY DEF Ok
<1>1. PICK U \in [Tabs -> Local] : /\ U[t] = s.me
                                   /\ \A u \in Tabs : u # t => U[u] = T[u]
                                   /\ AllFit(U, s.m, Nobody)
  BY OkOpened
<1>2. s \in Pairs /\ s.me \in Local /\ s.m \in Manager
  BY DEF Ok, Pairs
<1>g. PICK g : g = NewGen(t, s)
  OBVIOUS
<1>3. Fresh(t, U[t], s.m, g)
  <2>1. Fresh(t, s.me, s.m, g)
    BY <1>2, <1>g, NewGenFresh
  <2> QED
    BY <1>1, <2>1
<1>e. PICK e : e = [s.me EXCEPT !.pending = @ + 1]
  OBVIOUS
<1>4. /\ e \in Local /\ e.leader = s.me.leader /\ e.held = s.me.held
      /\ e.pending = s.me.pending + 1
  <2>1. PICK c : c = s.me
    OBVIOUS
  <2>2. c \in Local /\ c.pending + 1 \in Nat
    BY <1>2, <2>1, LocalFields
  <2>3. e = [c EXCEPT !.pending = c.pending + 1]
    BY <1>e, <2>1, <2>2 DEF Local
  <2>4. e \in Local /\ e.leader = c.leader /\ e.held = c.held /\ e.pending = c.pending + 1
    BY <2>2, <2>3 DEF Local
  <2> QED
    BY <2>1, <2>4
<1>5. PICK V : V = [T EXCEPT ![t] = e]
  OBVIOUS
<1>6. V \in [Tabs -> Local] /\ V[t] = e /\ \A u \in Tabs : u # t => V[u] = U[u] /\ V[u] = T[u]
  BY <1>1, <1>4, <1>5
<1>z. PICK z : z = Ask(t, s)
  OBVIOUS
<1>7. ASSUME s.me.pending > 0
      PROVE  Ok(T, t, z, Nobody) /\ LeadsAs(z, s)
  <2>1. z = s
    BY <1>7, <1>z DEF Ask, RequestLock
  <2> QED
    BY <2>1 DEF LeadsAs
<1>8. ASSUME ~(s.me.pending > 0)
      PROVE  Ok(T, t, z, Nobody) /\ LeadsAs(z, s)
  <2>0. s.me.pending = 0
    <3>1. s.me.pending \in Nat
      BY <1>2, LocalFields
    <3> QED
      BY <1>8, <3>1
  <2>1. PICK n : n = Queued(s.m, Req(t, g))
    OBVIOUS
  <2>2. z = [me |-> e, m |-> n]
    BY <1>8, <1>g, <1>e, <1>z, <2>1 DEF Ask, RequestLock, Req
  <2>3. n \in Manager /\ AllFit(V, n, Nobody)
    <3>1. U[t].pending = 0 /\ V[t].leader = U[t].leader /\ V[t].held = U[t].held /\ V[t].pending = 1
      BY <1>1, <1>4, <1>6, <2>0
    <3> QED
      BY <1>1, <1>2, <1>3, <1>6, <2>1, <3>1, QueuedAll
  <2>4. z \in Pairs /\ z.me = e /\ z.m = n
    BY <1>4, <2>2, <2>3 DEF Pairs
  <2>5. Ok(T, t, z, Nobody)
    BY <1>6, <2>3, <2>4, OkMade
  <2> QED
    BY <1>4, <2>4, <2>5 DEF LeadsAs
<1>y. PICK y : y = Take(t, s)
  OBVIOUS
<1>9. Ok(T, t, y, Nobody) /\ LeadsAs(y, s)
  <2>1. PICK n : n = Stolen(s.m, Req(t, g))
    OBVIOUS
  <2>2. y = [me |-> e, m |-> n]
    BY <1>g, <1>e, <1>y, <2>1 DEF Take, RequestLock, Req
  <2>3. n \in Manager /\ AllFit(V, n, Nobody)
    <3>1. V[t].leader = U[t].leader /\ V[t].held = U[t].held /\ V[t].pending = U[t].pending + 1
      BY <1>1, <1>4, <1>6
    <3> QED
      BY <1>1, <1>2, <1>3, <1>6, <2>1, <3>1, StolenAll
  <2>4. y \in Pairs /\ y.me = e /\ y.m = n
    BY <1>4, <2>2, <2>3 DEF Pairs
  <2>5. Ok(T, t, y, Nobody)
    BY <1>6, <2>3, <2>4, OkMade
  <2> QED
    BY <1>4, <2>4, <2>5 DEF LeadsAs
<1> QED
  BY <1>7, <1>8, <1>9, <1>z, <1>y

\* Only what the lock has nothing to do with changes: the timer, the beat.
Beside(z, s) ==
    /\ z \in Pairs /\ z.m = s.m
    /\ z.me.held = s.me.held /\ z.me.pending = s.me.pending
    /\ z.me.leader = s.me.leader \/ s.me.held = 0

LEMMA AsideOk ==
  ASSUME NEW T, NEW t, NEW s, NEW z, Ok(T, t, s, Nobody), Beside(z, s)
  PROVE  Ok(T, t, z, Nobody)
<1> T \in [Tabs -> Local] /\ t \in Tabs
  BY DEF Ok
<1>0. /\ z \in Pairs /\ z.m = s.m
      /\ z.me.held = s.me.held /\ z.me.pending = s.me.pending
      /\ z.me.leader = s.me.leader \/ s.me.held = 0
  BY DEF Beside
<1>1. PICK U \in [Tabs -> Local] : /\ U[t] = s.me
                                   /\ \A u \in Tabs : u # t => U[u] = T[u]
                                   /\ AllFit(U, s.m, Nobody)
  BY OkOpened
<1>2. PICK V : V = [T EXCEPT ![t] = z.me]
  OBVIOUS
<1>3. V[t] = z.me /\ \A u \in Tabs : u # t => V[u] = U[u] /\ V[u] = T[u]
  BY <1>1, <1>2
<1>4. Fits(s.me, s.m, t, Nobody)
  BY <1>1 DEF AllFit
<1>5. Fits(z.me, s.m, t, Nobody)
  <2>1. CASE z.me.leader = s.me.leader
    BY <1>0, <1>4, <2>1 DEF Fits
  <2>2. CASE s.me.held = 0
    BY <1>0, <1>4, <2>2, LeadsFree DEF Fits
  <2> QED
    BY <1>0, <2>1, <2>2
<1>6. AllFit(V, s.m, Nobody)
  BY <1>1, <1>3, <1>5, OneChanges
<1> QED
  BY <1>0, <1>3, <1>6, OkMade

LEMMA RearmOk ==
  ASSUME NEW T, NEW t, NEW s, NEW d, Ok(T, t, s, Nobody), d \in Delays
  PROVE  Ok(T, t, Rearm(s, d), Nobody) /\ LeadsAs(Rearm(s, d), s)
<1> T \in [Tabs -> Local] /\ t \in Tabs
  BY DEF Ok
<1>1. PICK z : z = Rearm(s, d)
  OBVIOUS
<1>2. s \in Pairs
  BY DEF Ok
<1>3. Armed(d) \in [on : BOOLEAN, age : Nat, delay : Nat]
  <2>1. d \in Nat
    BY LeaseAssumption DEF Delays
  <2> QED
    BY <2>1 DEF Armed
<1>4. PICK a : a = Armed(d)
  OBVIOUS
<1>5. PICK e : e = [s.me EXCEPT !.timer = a]
  OBVIOUS
<1>6. /\ e \in Local /\ e.leader = s.me.leader /\ e.held = s.me.held
      /\ e.pending = s.me.pending
  BY <1>2, <1>3, <1>4, <1>5 DEF Pairs, Local
<1>7. z = [s EXCEPT !.me = e]
  BY <1>1, <1>2, <1>4, <1>5 DEF Rearm, Pairs
<1>8. z \in Pairs /\ z.me = e /\ z.m = s.m
  BY <1>2, <1>6, <1>7 DEF Pairs
<1>9. Beside(z, s) /\ LeadsAs(z, s)
  BY <1>6, <1>8 DEF Beside, LeadsAs
<1> QED
  BY <1>1, <1>9, AsideOk

\* A pair, by a name of its own.
Pair(e, n) == [me |-> e, m |-> n]

LEMMA PairFacts ==
  ASSUME NEW e, NEW n, e \in Local, n \in Manager
  PROVE  Pair(e, n) \in Pairs /\ Pair(e, n).me = e /\ Pair(e, n).m = n
  BY DEF Pair, Pairs

\* A tab that led through the lock hands it back.
LEMMA StepsBackOk ==
  ASSUME NEW T, NEW t, NEW s, NEW e, NEW h, Ok(T, t, s, Nobody),
         h = s.me.held, h # 0, e \in Local, ~e.leader,
         e.held = 0, e.pending = s.me.pending
  PROVE  Ok(T, t, Pair(e, Released(s.m, Req(t, h))), Nobody)
<1> T \in [Tabs -> Local] /\ t \in Tabs
  BY DEF Ok
<1>1. PICK U \in [Tabs -> Local] : /\ U[t] = s.me
                                   /\ \A u \in Tabs : u # t => U[u] = T[u]
                                   /\ AllFit(U, s.m, Nobody)
  BY OkOpened
<1>m. PICK m : m = s.m
  OBVIOUS
<1>2. m \in Manager /\ s.me \in Local /\ h \in Nat
  BY <1>m, LocalFields DEF Ok, Pairs
<1>3. PICK V : V = [T EXCEPT ![t] = e]
  OBVIOUS
<1>4. /\ V \in [Tabs -> Local] /\ V[t] = e
      /\ \A u \in Tabs : u # t => V[u] = U[u] /\ V[u] = T[u]
  BY <1>1, <1>3
<1>5. PICK l : l = s.me.leader
  OBVIOUS
<1>6. PICK p : p = s.me.pending
  OBVIOUS
<1>7. PICK ev : ev = m.events[t]
  OBVIOUS
<1>8. PICK W : W = Wait(m.queue, t)
  OBVIOUS
<1>9. PICK own : own = m.owner
  OBVIOUS
<1>10. /\ ev \in Seq(Answers) /\ own = [by |-> own.by, gen |-> own.gen]
       /\ Nobody.by # t
  BY <1>2, <1>7, <1>9, ManagerFields, NoTab
<1>11. Fits(s.me, m, t, Nobody)
  BY <1>1, <1>m DEF AllFit
<1>12. Tidy(t, l, h, p, own, W, ev, Nobody)
  BY <1>5, <1>6, <1>7, <1>8, <1>9, <1>11 DEF Fits
<1>13. Tidy(t, FALSE, 0, p, own, W, ev, Req(t, h)) /\ Spare(t, 0, h, W, ev)
  BY <1>10, <1>12, StepsDown
<1>14. PICK r : r = Req(t, h)
  OBVIOUS
<1>15. e.leader = FALSE
  BY LocalFields
<1>16. Fits(e, m, t, r)
  BY <1>6, <1>7, <1>8, <1>9, <1>13, <1>14, <1>15 DEF Fits
<1>17. AllFit(V, m, r)
  BY <1>1, <1>4, <1>m, <1>16, OneChanges
<1>18. PICK n : n = Released(m, r)
  OBVIOUS
<1>19. n \in Manager /\ AllFit(V, n, Nobody)
  <2>1. Spare(t, V[t].held, h, Wait(m.queue, t), m.events[t])
    BY <1>4, <1>7, <1>8, <1>13
  <2> QED
    BY <1>2, <1>4, <1>14, <1>17, <1>18, <2>1, ReleasedAll
<1>20. PICK z : z = Pair(e, n)
  OBVIOUS
<1>21. z \in Pairs /\ z.me = e /\ z.m = n
  BY <1>19, <1>20, PairFacts
<1>22. Ok(T, t, z, Nobody)
  BY <1>4, <1>19, <1>21, OkMade
<1> QED
  BY <1>m, <1>14, <1>18, <1>20, <1>22

\* A tab that led and was not running for longer than the TTL.
LEMMA LapseOk ==
  ASSUME NEW T, NEW t, NEW s, NEW d, Ok(T, t, s, Nobody), d \in Delays
  PROVE  Ok(T, t, Lapse(t, s, d), Nobody) /\ ~Lapse(t, s, d).me.leader
<1>m. PICK m : m = s.m
  OBVIOUS
<1>c. PICK c : c = s.me
  OBVIOUS
<1>1. m \in Manager /\ c \in Local /\ s = [me |-> c, m |-> m]
  BY <1>m, <1>c DEF Ok, Pairs
<1>2. PICK f : f = [YieldTo(c) EXCEPT !.timer = NoTimer]
  OBVIOUS
<1>3. f \in Local /\ ~f.leader /\ f.held = c.held /\ f.pending = c.pending
  <2>1. YieldTo(c) \in Local /\ YieldTo(c).leader = FALSE
        /\ YieldTo(c).held = c.held /\ YieldTo(c).pending = c.pending
    BY <1>1 DEF YieldTo, Local
  <2>2. NoTimer \in [on : BOOLEAN, age : Nat, delay : Nat]
    BY DEF NoTimer
  <2>3. PICK y : y = YieldTo(c)
    OBVIOUS
  <2>4. PICK n : n = NoTimer
    OBVIOUS
  <2> QED
    BY <1>2, <2>1, <2>2, <2>3, <2>4 DEF Local
<1>4. PICK down : down = [s EXCEPT !.me = f]
  OBVIOUS
<1>5. down = [s EXCEPT !.me = [YieldTo(@) EXCEPT !.timer = NoTimer]]
  BY <1>1, <1>2, <1>4
<1>6. down \in Pairs /\ down.me = f /\ down.m = m
  BY <1>1, <1>3, <1>4 DEF Pairs
<1>z. PICK z : z = Lapse(t, s, d)
  OBVIOUS
<1>7. CASE c.held = 0
  <2>1. z = Rearm(down, d)
    BY <1>5, <1>7, <1>c, <1>z DEF Lapse
  <2>2. Ok(T, t, down, Nobody)
    <3>1. Beside(down, s)
      BY <1>3, <1>6, <1>7, <1>m, <1>c DEF Beside
    <3> QED
      BY <3>1, AsideOk
  <2>3. Ok(T, t, z, Nobody) /\ LeadsAs(z, down)
    BY <2>1, <2>2, RearmOk
  <2> QED
    BY <1>3, <1>6, <1>z, <2>3 DEF LeadsAs
<1>8. CASE c.held # 0
  <2>1. PICK b : b = HandBack(t, down)
    OBVIOUS
  <2>2. PICK a : a = Ask(t, b)
    OBVIOUS
  <2>3. z = Rearm(a, d)
    BY <1>5, <1>8, <1>c, <1>z, <2>1, <2>2 DEF Lapse, Ask
  <2>4. PICK e : e = [f EXCEPT !.held = 0]
    OBVIOUS
  <2>5. e \in Local /\ ~e.leader /\ e.held = 0 /\ e.pending = c.pending
    BY <1>3, <2>4 DEF Local
  <2>6. PICK h : h = c.held
    OBVIOUS
  <2>7. b = Pair(e, Released(m, Req(t, h)))
    BY <1>3, <1>6, <2>1, <2>4, <2>6 DEF HandBack, Pair, Req
  <2>8. Ok(T, t, b, Nobody)
    BY <1>8, <1>m, <1>c, <2>5, <2>6, <2>7, StepsBackOk
  <2>9. b.me = e
    BY <2>7 DEF Pair
  <2>10. Ok(T, t, a, Nobody) /\ LeadsAs(a, b)
    BY <2>2, <2>8, RequestOk
  <2>11. Ok(T, t, z, Nobody) /\ LeadsAs(z, a)
    BY <2>3, <2>10, RearmOk
  <2> QED
    BY <1>z, <2>5, <2>9, <2>10, <2>11 DEF LeadsAs
<1> QED
  BY <1>7, <1>8

\* onLockRequestDone.
LEMMA RequestDoneOk ==
  ASSUME NEW T, NEW t, NEW s, NEW d, Ok(T, t, s, Nobody), d \in Delays
  PROVE  Ok(T, t, RequestDone(t, s, d), Nobody) /\ LeadsAs(RequestDone(t, s, d), s)
<1>1. CASE s.me.leader \/ s.me.held # 0
  <2>1. RequestDone(t, s, d) = s
    BY <1>1 DEF RequestDone
  <2> QED
    BY <2>1 DEF LeadsAs
<1>2. CASE ~(s.me.leader \/ s.me.held # 0)
  <2>1. PICK a : a = Ask(t, s)
    OBVIOUS
  <2>2. RequestDone(t, s, d) = Rearm(a, d)
    BY <1>2, <2>1 DEF RequestDone, Ask
  <2>3. Ok(T, t, a, Nobody) /\ LeadsAs(a, s)
    BY <2>1, RequestOk
  <2>4. Ok(T, t, Rearm(a, d), Nobody) /\ LeadsAs(Rearm(a, d), a)
    BY <2>3, RearmOk
  <2> QED
    BY <2>2, <2>3, <2>4 DEF LeadsAs
<1> QED
  BY <1>1, <1>2


-----------------------------------------------------------------------------
(* The answers of the manager. *)

\* The manager, less the first answer of t.
Taken(m, t) == [m EXCEPT !.events[t] = Tail(@)]

\* The first answer of t in s.
Word(s, t) == First(s.m.events[t])
Left(s, t) == Rest(s.m.events[t])

Answerable(s, t) == s.m.events[t] # <<>>

\* What there is to say of t, with e for its variables, once that answer is handled.
FitsAfter(s, t, e, r) ==
    Tidy(t, e.leader, e.held, e.pending, s.m.owner, Wait(s.m.queue, t), Left(s, t), r)

LEMMA TakenFacts ==
  ASSUME NEW m, NEW t, m \in Manager, t \in Tabs, m.events[t] # <<>>
  PROVE  /\ Taken(m, t) \in Manager /\ Taken(m, t).owner = m.owner
         /\ Taken(m, t).queue = m.queue
         /\ Taken(m, t).events[t] = Rest(m.events[t])
         /\ \A u \in Tabs : u # t => Taken(m, t).events[u] = m.events[u]
<1>1. PICK ev : ev = m.events[t]
  OBVIOUS
<1>2. ev \in Seq(Answers) /\ ev # <<>>
  BY <1>1, ManagerFields
<1>3. PICK e : e = Rest(ev)
  OBVIOUS
<1>4. e \in Seq(Answers)
  BY <1>2, <1>3, TailFacts
<1>5. Taken(m, t) = [m EXCEPT !.events[t] = e]
  BY <1>1, <1>3 DEF Taken, Rest
<1>6. PICK f : f = [m.events EXCEPT ![t] = e]
  OBVIOUS
<1>7. m.events \in [Tabs -> Seq(Answers)]
  BY DEF Manager
<1>8. f \in [Tabs -> Seq(Answers)] /\ f[t] = e /\ \A u \in Tabs : u # t => f[u] = m.events[u]
  BY <1>4, <1>6, <1>7
<1>9. PICK n : n = [m EXCEPT !.events = f]
  OBVIOUS
<1>10. n = Taken(m, t)
  BY <1>5, <1>6, <1>9 DEF Manager
<1>11. n \in Manager /\ n.owner = m.owner /\ n.queue = m.queue /\ n.events = f
  BY <1>8, <1>9 DEF Manager
<1> QED
  BY <1>1, <1>3, <1>8, <1>10, <1>11

LEMMA AnswerOk ==
  ASSUME NEW T, NEW t, NEW s, NEW e, NEW r, Ok(T, t, s, Nobody), e \in Local,
         Answerable(s, t), FitsAfter(s, t, e, r)
  PROVE  /\ Taken(s.m, t) \in Manager
         /\ Ok(T, t, Pair(e, Taken(s.m, t)), r)
<1> T \in [Tabs -> Local] /\ t \in Tabs
  BY DEF Ok
<1>1. PICK U \in [Tabs -> Local] : /\ U[t] = s.me
                                   /\ \A u \in Tabs : u # t => U[u] = T[u]
                                   /\ AllFit(U, s.m, Nobody)
  BY OkOpened
<1>m. PICK m : m = s.m
  OBVIOUS
<1>2. m \in Manager
  BY <1>m DEF Ok, Pairs
<1>3. PICK V : V = [T EXCEPT ![t] = e]
  OBVIOUS
<1>4. /\ V \in [Tabs -> Local] /\ V[t] = e
      /\ \A u \in Tabs : u # t => V[u] = U[u] /\ V[u] = T[u]
  BY <1>1, <1>3
<1>5. PICK n : n = Taken(m, t)
  OBVIOUS
<1>6. /\ n \in Manager /\ n.owner = m.owner /\ n.queue = m.queue
      /\ n.events[t] = Rest(m.events[t])
      /\ \A u \in Tabs : u # t => n.events[u] = m.events[u]
  BY <1>2, <1>5, <1>m, TakenFacts DEF Answerable
<1>7. Fits(e, n, t, r)
  BY <1>6, <1>m DEF Fits, FitsAfter, Left
<1>8. AllFit(V, n, r)
  BY <1>1, <1>4, <1>6, <1>7, <1>m, OneChanges
<1>9. PICK z : z = Pair(e, n)
  OBVIOUS
<1>10. z \in Pairs /\ z.me = e /\ z.m = n
  BY <1>6, <1>9, PairFacts
<1>11. Ok(T, t, z, r)
  BY <1>4, <1>8, <1>10, OkMade
<1> QED
  BY <1>5, <1>6, <1>9, <1>11, <1>m

\* What the lemmas about one tab ask for.
LEMMA Given ==
  ASSUME NEW T, NEW t, NEW s, Ok(T, t, s, Nobody), Answerable(s, t)
  PROVE  /\ s.me.pending \in Nat /\ s.m.events[t] \in Seq(Answers)
         /\ s.m.events[t] # <<>> /\ Nobody.by # t
         /\ s.m.owner = [by |-> s.m.owner.by, gen |-> s.m.owner.gen]
         /\ Tidy(t, s.me.leader, s.me.held, s.me.pending, s.m.owner,
                 Wait(s.m.queue, t), s.m.events[t], Nobody)
<1> T \in [Tabs -> Local] /\ t \in Tabs
  BY DEF Ok
<1>1. PICK U \in [Tabs -> Local] : /\ U[t] = s.me
                                   /\ \A u \in Tabs : u # t => U[u] = T[u]
                                   /\ AllFit(U, s.m, Nobody)
  BY OkOpened
<1>2. Fits(s.me, s.m, t, Nobody)
  BY <1>1 DEF AllFit
<1>m. PICK m : m = s.m
  OBVIOUS
<1>3. m \in Manager /\ s.me \in Local
  BY <1>m DEF Ok, Pairs
<1>4. m.events[t] \in Seq(Answers) /\ m.owner = [by |-> m.owner.by, gen |-> m.owner.gen]
  BY <1>3, ManagerFields
<1>5. s.me.pending \in Nat
  BY <1>3, LocalFields
<1> QED
  BY <1>2, <1>4, <1>5, <1>m, NoTab DEF Fits, Answerable


\* A grant, to a follower.
LEMMA LeadOk ==
  ASSUME NEW T, NEW t, NEW s, NEW e, NEW g, Ok(T, t, s, Nobody), Answerable(s, t),
         g = Word(s, t).gen, Word(s, t).t = "granted", ~s.me.leader,
         e \in Local, e.leader, e.held = g, e.pending = s.me.pending - 1
  PROVE  /\ Ok(T, t, Pair(e, Taken(s.m, t)), Nobody)
         /\ g # 0
<1>1. PICK l \in BOOLEAN : l = s.me.leader
  BY LocalFields DEF Ok, Pairs
<1>2. PICK h : h = s.me.held
  OBVIOUS
<1>3. PICK p : p = s.me.pending
  OBVIOUS
<1>4. PICK ev : ev = s.m.events[t]
  OBVIOUS
<1>5. PICK W : W = Wait(s.m.queue, t)
  OBVIOUS
<1>6. PICK own : own = s.m.owner
  OBVIOUS
<1>7. /\ p \in Nat /\ ev \in Seq(Answers) /\ ev # <<>> /\ Nobody.by # t
      /\ Tidy(t, l, h, p, own, W, ev, Nobody)
  BY <1>1, <1>2, <1>3, <1>4, <1>5, <1>6, Given
<1>8. l = FALSE
  BY <1>1
<1>9. Tidy(t, FALSE, h, p, own, W, ev, Nobody)
  BY <1>7, <1>8
<1>10. PICK a : a = First(ev)
  OBVIOUS
<1>11. a.t = "granted" /\ a.gen = g
  BY <1>4, <1>10 DEF Word
<1>12. g # 0
  BY <1>7, <1>10, <1>11, Handling
<1>13. PICK k : k = p - 1
  OBVIOUS
<1>14. Tidy(t, TRUE, g, k, own, W, Rest(ev), Nobody)
  BY <1>7, <1>9, <1>10, <1>11, <1>13, LeadsThrough
<1>15. e.leader = TRUE
  BY LocalFields
<1>16. FitsAfter(s, t, e, Nobody)
  BY <1>3, <1>4, <1>5, <1>6, <1>13, <1>14, <1>15 DEF FitsAfter, Left
<1> QED
  BY <1>12, <1>16, AnswerOk

\* A grant, to a tab that leads already.
LEMMA GiveBackOk ==
  ASSUME NEW T, NEW t, NEW s, NEW e, NEW g, Ok(T, t, s, Nobody), Answerable(s, t),
         g = Word(s, t).gen, Word(s, t).t = "granted",
         e \in Local, e.leader = s.me.leader, e.held = s.me.held,
         e.pending = s.me.pending - 1
  PROVE  Ok(T, t, Pair(e, Released(Taken(s.m, t), Req(t, g))), Nobody)
<1> T \in [Tabs -> Local] /\ t \in Tabs
  BY DEF Ok
<1>1. PICK l : l = s.me.leader
  OBVIOUS
<1>2. PICK h : h = s.me.held
  OBVIOUS
<1>3. PICK p : p = s.me.pending
  OBVIOUS
<1>4. PICK ev : ev = s.m.events[t]
  OBVIOUS
<1>5. PICK W : W = Wait(s.m.queue, t)
  OBVIOUS
<1>6. PICK own : own = s.m.owner
  OBVIOUS
<1>7. /\ p \in Nat /\ ev \in Seq(Answers) /\ ev # <<>> /\ Nobody.by # t
      /\ own = [by |-> own.by, gen |-> own.gen]
      /\ Tidy(t, l, h, p, own, W, ev, Nobody)
  BY <1>1, <1>2, <1>3, <1>4, <1>5, <1>6, Given
<1>8. PICK a : a = First(ev)
  OBVIOUS
<1>9. a.t = "granted" /\ a.gen = g
  BY <1>4, <1>8 DEF Word
<1>10. PICK n : n = Rest(ev)
  OBVIOUS
<1>11. PICK k : k = p - 1
  OBVIOUS
<1>12. PICK r : r = Req(t, g)
  OBVIOUS
<1>13. Tidy(t, l, h, k, own, W, n, r) /\ Spare(t, h, g, W, n) /\ g \in Nat
  BY <1>7, <1>8, <1>9, <1>10, <1>11, <1>12, GoesBack, Handling
<1>14. FitsAfter(s, t, e, r)
  BY <1>1, <1>2, <1>3, <1>4, <1>5, <1>6, <1>10, <1>11, <1>13 DEF FitsAfter, Left
<1>15. PICK m : m = Taken(s.m, t)
  OBVIOUS
<1>16. PICK z : z = Pair(e, m)
  OBVIOUS
<1>17. m \in Manager /\ Ok(T, t, z, r)
  BY <1>14, <1>15, <1>16, AnswerOk
<1>18. z.me = e /\ z.m = m
  BY <1>16 DEF Pair
<1>19. PICK U \in [Tabs -> Local] : /\ U[t] = z.me
                                    /\ \A u \in Tabs : u # t => U[u] = T[u]
                                    /\ AllFit(U, z.m, r)
  BY <1>17, OkOpened
<1>20. m.queue = s.m.queue /\ m.events[t] = n
  <2>1. s.m \in Manager
    BY DEF Ok, Pairs
  <2> QED
    BY <1>4, <1>10, <1>15, <2>1, TakenFacts DEF Answerable
<1>21. Spare(t, U[t].held, g, Wait(m.queue, t), m.events[t])
  BY <1>2, <1>5, <1>13, <1>18, <1>19, <1>20
<1>22. PICK c : c = Released(m, r)
  OBVIOUS
<1>23. c \in Manager /\ AllFit(U, c, Nobody)
  BY <1>12, <1>13, <1>17, <1>18, <1>19, <1>21, <1>22, ReleasedAll
<1>24. PICK y : y = Pair(e, c)
  OBVIOUS
<1>25. y \in Pairs /\ y.me = e /\ y.m = c
  BY <1>23, <1>24, PairFacts
<1>26. Ok(T, t, y, Nobody)
  BY <1>18, <1>19, <1>23, <1>25, OkMade
<1> QED
  BY <1>12, <1>15, <1>22, <1>24, <1>26

\* The lock that the tab leads through is lost.
LEMMA LoseOk ==
  ASSUME NEW T, NEW t, NEW s, NEW e, Ok(T, t, s, Nobody), Answerable(s, t),
         Word(s, t).t = "broken", Word(s, t).gen = s.me.held,
         e \in Local, ~e.leader, e.held = 0, e.pending = s.me.pending
  PROVE  Ok(T, t, Pair(e, Taken(s.m, t)), Nobody)
<1>1. PICK l : l = s.me.leader
  OBVIOUS
<1>2. PICK h : h = s.me.held
  OBVIOUS
<1>3. PICK p : p = s.me.pending
  OBVIOUS
<1>4. PICK ev : ev = s.m.events[t]
  OBVIOUS
<1>5. PICK W : W = Wait(s.m.queue, t)
  OBVIOUS
<1>6. PICK own : own = s.m.owner
  OBVIOUS
<1>7. /\ p \in Nat /\ ev \in Seq(Answers) /\ ev # <<>> /\ Nobody.by # t
      /\ own = [by |-> own.by, gen |-> own.gen]
      /\ Tidy(t, l, h, p, own, W, ev, Nobody)
  BY <1>1, <1>2, <1>3, <1>4, <1>5, <1>6, Given
<1>8. PICK a : a = First(ev)
  OBVIOUS
<1>9. a.t = "broken" /\ a.gen = h
  BY <1>2, <1>4, <1>8 DEF Word
<1>10. Tidy(t, FALSE, 0, p, own, W, Rest(ev), Nobody)
  BY <1>7, <1>8, <1>9, LosesIt
<1>11. e.leader = FALSE
  BY LocalFields
<1>12. FitsAfter(s, t, e, Nobody)
  BY <1>3, <1>4, <1>5, <1>6, <1>10, <1>11 DEF FitsAfter, Left
<1> QED
  BY <1>12, AnswerOk

\* Word that says nothing to the tab any more.
LEMMA PassOk ==
  ASSUME NEW T, NEW t, NEW s, Ok(T, t, s, Nobody), Answerable(s, t),
         Word(s, t).t # "granted", Word(s, t).t = "broken" => Word(s, t).gen # s.me.held
  PROVE  Ok(T, t, Pair(s.me, Taken(s.m, t)), Nobody)
<1>1. PICK l : l = s.me.leader
  OBVIOUS
<1>2. PICK h : h = s.me.held
  OBVIOUS
<1>3. PICK p : p = s.me.pending
  OBVIOUS
<1>4. PICK ev : ev = s.m.events[t]
  OBVIOUS
<1>5. PICK W : W = Wait(s.m.queue, t)
  OBVIOUS
<1>6. PICK own : own = s.m.owner
  OBVIOUS
<1>7. /\ p \in Nat /\ ev \in Seq(Answers) /\ ev # <<>> /\ Nobody.by # t
      /\ Tidy(t, l, h, p, own, W, ev, Nobody)
  BY <1>1, <1>2, <1>3, <1>4, <1>5, <1>6, Given
<1>8. PICK a : a = First(ev)
  OBVIOUS
<1>9. a.t # "granted" /\ (a.t = "broken" => a.gen # h)
  BY <1>2, <1>4, <1>8 DEF Word
<1>10. Tidy(t, l, h, p, own, W, Rest(ev), Nobody)
  BY <1>7, <1>8, <1>9, PassesOver
<1>11. PICK e : e = s.me
  OBVIOUS
<1>12. e \in Local
  BY <1>11 DEF Ok, Pairs
<1>13. FitsAfter(s, t, e, Nobody)
  BY <1>1, <1>2, <1>3, <1>4, <1>5, <1>6, <1>10, <1>11 DEF FitsAfter, Left
<1> QED
  BY <1>11, <1>12, <1>13, AnswerOk

\* A page goes away.
LEMMA GoneAll ==
  ASSUME NEW T, NEW U, NEW m, NEW t, U \in [Tabs -> Local], m \in Manager,
         t \in Tabs, AllFit(T, m, Nobody),
         \A u \in Tabs : u # t => U[u] = T[u], U[t] = Follower
  PROVE  Gone(m, t) \in Manager /\ AllFit(U, Gone(m, t), Nobody)
<1>q. PICK q : q = m.queue
  OBVIOUS
<1>1. q \in Seq(Requests) /\ Solo(q)
  BY <1>q, ManagerFields DEF AllFit
<1>w. PICK w : w = Without(q, t)
  OBVIOUS
<1>2. /\ w \in Seq(Requests) /\ Solo(w) /\ Wait(w, t) = {}
      /\ \A u : u # t => Wait(w, u) = Wait(q, u)
  BY <1>1, <1>w, WaitWithout
<1>f. PICK f : f = [m.events EXCEPT ![t] = <<>>]
  OBVIOUS
<1>3. /\ f \in [Tabs -> Seq(Answers)] /\ f[t] = <<>>
      /\ \A u \in Tabs : u # t => f[u] = m.events[u]
  BY <1>f DEF Manager
<1>n. PICK n : n = [m EXCEPT !.queue = w, !.events = f]
  OBVIOUS
<1>4. n \in Manager /\ n.owner = m.owner /\ n.queue = w /\ n.events = f
  BY <1>2, <1>3, <1>n DEF Manager
<1>b. PICK b : b = [n EXCEPT !.owner = Nobody]
  OBVIOUS
<1>5. b \in Manager /\ b.owner = Nobody /\ b.queue = w /\ b.events = f
  BY <1>4, <1>b DEF Manager
<1>6. Gone(m, t) = IF m.owner.by # t THEN n ELSE Grant(b)
  <2>1. n = [m EXCEPT !.queue = Without(@, t), !.events[t] = <<>>]
    BY <1>q, <1>w, <1>f, <1>n DEF Manager
  <2> QED
    BY <1>b, <2>1 DEF Gone
<1>7. /\ Follower.leader = FALSE /\ Follower.held = 0 /\ Follower.pending = 0
      /\ Nobody.by # t
  BY NoTab DEF Follower
<1>8. ASSUME NEW u, u \in Tabs, u # t
      PROVE  /\ Fits(T[u], m, u, Nobody) /\ U[u] = T[u]
             /\ Wait(w, u) = Wait(q, u) /\ f[u] = m.events[u]
  BY <1>2, <1>3, <1>8 DEF AllFit
<1>9. CASE m.owner.by # t
  <2>1. Fits(U[t], n, t, Nobody)
    <3>1. PICK own : own = m.owner
      OBVIOUS
    <3>2. Tidy(t, FALSE, 0, 0, own, {}, <<>>, Nobody)
      BY <1>9, <3>1, Bare
    <3> QED
      BY <1>2, <1>3, <1>4, <1>7, <3>1, <3>2 DEF Fits
  <2>2. ASSUME NEW u, u \in Tabs, u # t
        PROVE  Fits(U[u], n, u, Nobody)
    BY <1>4, <1>8, <1>q, <2>2 DEF Fits
  <2>3. AllFit(U, n, Nobody)
    BY <1>2, <1>4, <2>1, <2>2 DEF AllFit
  <2> QED
    BY <1>4, <1>6, <1>9, <2>3
<1>10. CASE m.owner.by = t
  <2>1. Fits(U[t], b, t, Nobody)
    <3>1. Tidy(t, FALSE, 0, 0, Nobody, {}, <<>>, Nobody)
      BY <1>7, Bare
    <3> QED
      BY <1>2, <1>3, <1>5, <1>7, <3>1 DEF Fits
  <2>2. ASSUME NEW u, u \in Tabs, u # t
        PROVE  Fits(U[u], b, u, Nobody)
    <3>1. PICK l : l = T[u].leader
      OBVIOUS
    <3>2. PICK h : h = T[u].held
      OBVIOUS
    <3>3. PICK p : p = T[u].pending
      OBVIOUS
    <3>4. PICK ev : ev = m.events[u]
      OBVIOUS
    <3>5. PICK W : W = Wait(q, u)
      OBVIOUS
    <3>6. PICK own : own = m.owner
      OBVIOUS
    <3>7. Tidy(u, l, h, p, own, W, ev, Nobody) /\ own.by # u /\ Nobody.by # u
      BY <1>8, <1>10, <1>q, <2>2, <3>1, <3>2, <3>3, <3>4, <3>5, <3>6, NoTab DEF Fits
    <3>8. Tidy(u, l, h, p, Nobody, W, ev, Nobody)
      BY <3>7, Aside
    <3> QED
      BY <1>5, <1>8, <2>2, <3>1, <3>2, <3>3, <3>4, <3>5, <3>8 DEF Fits
  <2>3. AllFit(U, b, Nobody)
    BY <1>2, <1>5, <2>1, <2>2 DEF AllFit
  <2> QED
    BY <1>5, <1>6, <1>10, <2>3, GrantAll
<1> QED
  BY <1>9, <1>10


-----------------------------------------------------------------------------
(* The invariant, and each action. *)

\* Under the locks a tab leads through a request, or not at all.
ByRequest == locks => \A t \in Tabs : tab[t].leader => tab[t].held # 0

Sound == TypeOK /\ AllFit(tab, lock, Nobody) /\ ByRequest

\* The variables that a task of the lock leaves to the others.
FrameOK ==
    /\ locks \in BOOLEAN /\ page \in [Tabs -> Pages]
    /\ heard \in [Tabs -> SUBSET Tabs]
    /\ moves \in Nat /\ rivalry \in [Tabs -> Nat]

LEMMA NowOk ==
  ASSUME NEW t, t \in Tabs, Sound
  PROVE  Ok(tab, t, Now(t), Nobody) /\ Now(t).me = tab[t] /\ Now(t).m = lock
<1>1. tab \in [Tabs -> Local] /\ lock \in Manager /\ AllFit(tab, lock, Nobody)
  BY DEF Sound, TypeOK
<1>2. PICK s : s = Now(t)
  OBVIOUS
<1>3. s \in Pairs /\ s.me = tab[t] /\ s.m = lock
  BY <1>1, <1>2 DEF Now, Pairs
<1> QED
  BY <1>1, <1>2, <1>3, OkMade

LEMMA Settled ==
  ASSUME NEW t, NEW s, Sound, Ok(tab, t, s, Nobody), Set(t, s), FrameOK',
         locks' = locks, locks /\ s.me.leader => s.me.held # 0
  PROVE  Sound'
<1>1. tab \in [Tabs -> Local] /\ t \in Tabs /\ s.me \in Local /\ s.m \in Manager
  BY DEF Ok, Pairs
<1>2. PICK U : U = [tab EXCEPT ![t] = s.me]
  OBVIOUS
<1>3. /\ U \in [Tabs -> Local] /\ U[t] = s.me
      /\ \A u \in Tabs : u # t => U[u] = tab[u]
  BY <1>1, <1>2
<1>4. tab' = U /\ lock' = s.m
  BY <1>2 DEF Set
<1>5. AllFit(U, s.m, Nobody)
  BY <1>2 DEF Ok
<1>6. AllFit(tab', lock', Nobody)
  BY <1>4, <1>5
<1>7. ByRequest'
  BY <1>3, <1>4 DEF ByRequest, Sound
<1>8. TypeOK'
  BY <1>1, <1>3, <1>4 DEF TypeOK, FrameOK
<1> QED
  BY <1>6, <1>7, <1>8 DEF Sound

LEMMA SoundInit == Init => Sound
<1> SUFFICES ASSUME Init PROVE Sound
  OBVIOUS
<1>1. Follower \in Local /\ Follower.leader = FALSE
      /\ Follower.held = 0 /\ Follower.pending = 0
  BY DEF Follower, Local, NoTimer
<1>2. /\ lock.owner = Nobody /\ lock.queue = <<>>
      /\ lock.events = [t \in Tabs |-> <<>>]
  BY DEF Init
<1>3. lock \in Manager
  BY DEF Init, Manager
<1>4. TypeOK
  BY <1>1, <1>3 DEF Init, TypeOK, Pages
<1>5. ASSUME NEW t, t \in Tabs
      PROVE  Fits(tab[t], lock, t, Nobody)
  <2>1. tab[t] = Follower /\ lock.events[t] = <<>>
    BY <1>2, <1>5 DEF Init
  <2>2. Wait(lock.queue, t) = {}
    BY <1>2 DEF Wait
  <2>3. Nobody.by # t
    BY <1>5, NoTab
  <2>4. PICK own : own = Nobody
    OBVIOUS
  <2>5. Tidy(t, FALSE, 0, 0, own, {}, <<>>, Nobody)
    BY <2>3, <2>4, Bare
  <2> QED
    BY <1>1, <1>2, <2>1, <2>2, <2>4, <2>5 DEF Fits
<1>6. AllFit(tab, lock, Nobody)
  BY <1>2, <1>5 DEF AllFit, Solo
<1>7. ByRequest
  BY <1>1 DEF Init, ByRequest
<1> QED
  BY <1>4, <1>6, <1>7 DEF Sound

\* A frame that t sends.
LEMMA PostedOk ==
  ASSUME NEW t, t \in Tabs, FrameOK, Posted(t)
  PROVE  heard' \in [Tabs -> SUBSET Tabs]
  BY DEF Posted, FrameOK

LEMMA SoundFrame == Sound => FrameOK
  BY DEF Sound, TypeOK, FrameOK

LEMMA SoundOpen ==
  ASSUME NEW t, t \in Tabs, Sound, Open(t)
  PROVE  Sound'
<1>1. PICK d \in Delays :
         Set(t, Rearm(IF locks THEN RequestLock(t, Now(t), FALSE) ELSE Now(t), d))
  BY DEF Open
<1>2. PICK n : n = Now(t)
  OBVIOUS
<1>3. Ok(tab, t, n, Nobody) /\ n.me = tab[t]
  BY <1>2, NowOk
<1>4. PICK a : a = IF locks THEN Ask(t, n) ELSE n
  OBVIOUS
<1>5. Ok(tab, t, a, Nobody) /\ LeadsAs(a, n)
  <2>1. LeadsAs(n, n)
    BY DEF LeadsAs
  <2> QED
    BY <1>3, <1>4, <2>1, RequestOk
<1>6. PICK z : z = Rearm(a, d)
  OBVIOUS
<1>7. Ok(tab, t, z, Nobody) /\ LeadsAs(z, a)
  BY <1>5, <1>6, RearmOk
<1>8. Set(t, z)
  BY <1>1, <1>2, <1>4, <1>6 DEF Ask
<1>9. locks /\ z.me.leader => z.me.held # 0
  BY <1>3, <1>5, <1>7 DEF LeadsAs, Sound, ByRequest
<1>10. FrameOK' /\ locks' = locks
  <2>1. "running" \in Pages
    BY DEF Pages
  <2> QED
    BY <2>1, SoundFrame DEF Open, FrameOK
<1> QED
  BY <1>7, <1>8, <1>9, <1>10, Settled


LEMMA SoundIs ==
  ASSUME Sound
  PROVE  tab \in [Tabs -> Local] /\ lock \in Manager
  BY DEF Sound, TypeOK

LEMMA HandledIs ==
  ASSUME NEW t, t \in Tabs, Sound
  PROVE  Handled(t) = Pair(tab[t], Taken(lock, t))
<1>1. lock \in Manager
  BY SoundIs
<1>2. PICK f : f = [lock.events EXCEPT ![t] = Tail(lock.events[t])]
  OBVIOUS
<1>3. PICK n : n = [lock EXCEPT !.events = f]
  OBVIOUS
<1>4. n = Taken(lock, t)
  BY <1>1, <1>2, <1>3 DEF Taken, Manager
<1>5. PICK c : c = tab[t]
  OBVIOUS
<1>6. Now(t) = [me |-> c, m |-> lock]
  BY <1>5 DEF Now
<1>7. Handled(t) = [Now(t) EXCEPT !.m = n]
  BY <1>2, <1>3, <1>4, <1>6 DEF Handled, Taken
<1>8. Handled(t) = [me |-> c, m |-> n]
  BY <1>6, <1>7
<1> QED
  BY <1>4, <1>5, <1>8 DEF Pair

\* A grant is one of the answers that pending counts.
LEMMA GrantCounted ==
  ASSUME NEW T, NEW t, NEW s, Ok(T, t, s, Nobody), Answerable(s, t),
         Word(s, t).t = "granted"
  PROVE  s.me.pending - 1 \in Nat /\ Word(s, t).gen \in Nat
<1>1. PICK l : l = s.me.leader
  OBVIOUS
<1>2. PICK h : h = s.me.held
  OBVIOUS
<1>3. PICK p : p = s.me.pending
  OBVIOUS
<1>4. PICK ev : ev = s.m.events[t]
  OBVIOUS
<1>5. PICK W : W = Wait(s.m.queue, t)
  OBVIOUS
<1>6. PICK own : own = s.m.owner
  OBVIOUS
<1>7. /\ p \in Nat /\ ev \in Seq(Answers) /\ ev # <<>>
      /\ Tidy(t, l, h, p, own, W, ev, Nobody)
  BY <1>1, <1>2, <1>3, <1>4, <1>5, <1>6, Given
<1>8. PICK a : a = First(ev)
  OBVIOUS
<1>9. a.t = "granted"
  BY <1>4, <1>8 DEF Word
<1>10. p - 1 \in Nat /\ a.gen \in Nat
  BY <1>7, <1>8, <1>9, Handling
<1> QED
  BY <1>3, <1>4, <1>8, <1>10 DEF Word

LEMMA SoundGranted ==
  ASSUME NEW t, t \in Tabs, Sound, OnGranted(t)
  PROVE  Sound'
<1>n. PICK n : n = Now(t)
  OBVIOUS
<1>1. Ok(tab, t, n, Nobody) /\ n.me = tab[t] /\ n.m = lock
  BY <1>n, NowOk
<1>2. Answerable(n, t) /\ Word(n, t).t = "granted"
  BY <1>1 DEF OnGranted, Answered, Answerable, Word, First
<1>c. PICK c : c = tab[t]
  OBVIOUS
<1>3. c \in Local
  BY <1>c, SoundIs
<1>4. c.pending - 1 \in Nat
  BY <1>1, <1>2, <1>c, GrantCounted
<1>e. PICK e : e = [c EXCEPT !.pending = c.pending - 1]
  OBVIOUS
<1>5. /\ e \in Local /\ e.leader = c.leader /\ e.held = c.held
      /\ e.pending = c.pending - 1
  BY <1>3, <1>4, <1>e DEF Local
<1>m. PICK m : m = Taken(lock, t)
  OBVIOUS
<1>s. PICK s : s = Counted(Handled(t))
  OBVIOUS
<1>6. s = Pair(e, m)
  <2>1. PICK b : b = Handled(t)
    OBVIOUS
  <2>2. b = [me |-> c, m |-> m]
    BY <1>c, <1>m, <2>1, HandledIs DEF Pair
  <2>3. s = [b EXCEPT !.me.pending = @ - 1]
    BY <1>s, <2>1 DEF Counted
  <2>4. s = [b EXCEPT !.me = e]
    BY <1>3, <1>e, <2>2, <2>3 DEF Local
  <2> QED
    BY <2>2, <2>4 DEF Pair
<1>g. PICK g : g = Word(n, t).gen
  OBVIOUS
<1>7. g = Head(lock.events[t]).gen
  BY <1>1, <1>g DEF Word, First
<1>8. \/ /\ c.leader
         /\ Set(t, [s EXCEPT !.m = Released(s.m, [by |-> t, gen |-> g])])
         /\ UNCHANGED heard
      \/ /\ ~c.leader
         /\ Set(t, [s EXCEPT !.me = [Become(s.me) EXCEPT !.held = g]])
         /\ Posted(t)
  BY <1>7, <1>c, <1>s DEF OnGranted
<1>9. s.me = e /\ s.m = m
  BY <1>6 DEF Pair
<1>f. locks' = locks
  BY DEF OnGranted
<1>10. CASE c.leader /\ UNCHANGED heard
            /\ Set(t, [s EXCEPT !.m = Released(s.m, [by |-> t, gen |-> g])])
  <2>1. PICK z : z = Pair(e, Released(m, Req(t, g)))
    OBVIOUS
  <2>2. Ok(tab, t, z, Nobody)
    BY <1>1, <1>2, <1>5, <1>c, <1>g, <1>m, <2>1, GiveBackOk
  <2>3. z = [s EXCEPT !.m = Released(s.m, [by |-> t, gen |-> g])]
    <3>1. PICK k : k = Released(m, Req(t, g))
      OBVIOUS
    <3>2. k = Released(s.m, [by |-> t, gen |-> g])
      BY <1>9, <3>1 DEF Req
    <3>3. [s EXCEPT !.m = k] = Pair(e, k)
      BY <1>6 DEF Pair
    <3> QED
      BY <2>1, <3>1, <3>2, <3>3
  <2>4. z.me = e
    BY <2>1 DEF Pair
  <2>5. locks /\ z.me.leader => z.me.held # 0
    BY <1>5, <1>c, <2>4 DEF Sound, ByRequest
  <2>6. FrameOK'
    BY <1>10, SoundFrame DEF OnGranted, FrameOK
  <2>7. Set(t, z)
    BY <1>10, <2>3
  <2> QED
    BY <1>f, <2>2, <2>5, <2>6, <2>7, Settled
<1>11. CASE ~c.leader /\ Posted(t)
            /\ Set(t, [s EXCEPT !.me = [Become(s.me) EXCEPT !.held = g]])
  <2>1. PICK b : b = Become(e)
    OBVIOUS
  <2>2. b \in Local /\ b.leader = TRUE /\ b.pending = e.pending
    <3>1. NoTimer \in [on : BOOLEAN, age : Nat, delay : Nat]
      BY DEF NoTimer
    <3> QED
      BY <1>5, <2>1, <3>1 DEF Become, Local
  <2>3. g \in Nat
    BY <1>1, <1>2, <1>g, GrantCounted
  <2>4. PICK f : f = [b EXCEPT !.held = g]
    OBVIOUS
  <2>5. f \in Local /\ f.leader /\ f.held = g /\ f.pending = c.pending - 1
    BY <1>5, <2>2, <2>3, <2>4 DEF Local
  <2>6. PICK z : z = Pair(f, m)
    OBVIOUS
  <2>7. Ok(tab, t, z, Nobody) /\ g # 0
    BY <1>1, <1>2, <1>11, <1>c, <1>g, <1>m, <2>5, <2>6, LeadOk
  <2>8. z = [s EXCEPT !.me = [Become(s.me) EXCEPT !.held = g]]
    <3>1. f = [Become(s.me) EXCEPT !.held = g]
      BY <1>9, <2>1, <2>4
    <3>2. [s EXCEPT !.me = f] = Pair(f, m)
      BY <1>6 DEF Pair
    <3> QED
      BY <2>6, <3>1, <3>2
  <2>9. z.me = f
    BY <2>6 DEF Pair
  <2>10. locks /\ z.me.leader => z.me.held # 0
    BY <2>5, <2>7, <2>9
  <2>11. FrameOK'
    BY <1>11, SoundFrame, PostedOk DEF OnGranted, FrameOK
  <2>12. Set(t, z)
    BY <1>11, <2>8
  <2> QED
    BY <1>f, <2>7, <2>10, <2>11, <2>12, Settled
<1> QED
  BY <1>8, <1>10, <1>11


LEMMA SoundBroken ==
  ASSUME NEW t, t \in Tabs, Sound, OnBroken(t)
  PROVE  Sound'
<1>n. PICK n : n = Now(t)
  OBVIOUS
<1>1. Ok(tab, t, n, Nobody) /\ n.me = tab[t] /\ n.m = lock
  BY <1>n, NowOk
<1>2. Answerable(n, t) /\ Word(n, t).t = "broken"
  BY <1>1 DEF OnBroken, Answered, Answerable, Word, First
<1>c. PICK c : c = tab[t]
  OBVIOUS
<1>3. c \in Local
  BY <1>c, SoundIs
<1>m. PICK m : m = Taken(lock, t)
  OBVIOUS
<1>s. PICK s : s = Handled(t)
  OBVIOUS
<1>4. s = Pair(c, m) /\ s.me = c /\ s.m = m
  BY <1>c, <1>m, <1>s, HandledIs DEF Pair
<1>g. PICK g : g = Word(n, t).gen
  OBVIOUS
<1>5. g = Head(lock.events[t]).gen
  BY <1>1, <1>g DEF Word, First
<1>6. PICK d \in Delays :
         Set(t, IF c.held = g
                THEN Rearm(RequestLock(t, [s EXCEPT !.me = [YieldTo(@) EXCEPT !.held = 0]],
                                       FALSE), d)
                ELSE RequestDone(t, s, d))
  BY <1>5, <1>c, <1>s DEF OnBroken
<1>f. FrameOK' /\ locks' = locks
  BY SoundFrame DEF OnBroken, FrameOK
<1>7. CASE c.held = g
  <2>1. PICK e : e = [YieldTo(c) EXCEPT !.held = 0]
    OBVIOUS
  <2>2. e \in Local /\ e.leader = FALSE /\ e.held = 0 /\ e.pending = c.pending
    BY <1>3, <2>1 DEF YieldTo, Local
  <2>3. PICK b : b = Pair(e, m)
    OBVIOUS
  <2>4. b = [s EXCEPT !.me = [YieldTo(@) EXCEPT !.held = 0]] /\ b.me = e
    BY <1>4, <2>1, <2>3 DEF Pair
  <2>5. Ok(tab, t, b, Nobody)
    BY <1>1, <1>2, <1>7, <1>c, <1>g, <1>m, <2>2, <2>3, LoseOk
  <2>6. PICK a : a = Ask(t, b)
    OBVIOUS
  <2>7. Ok(tab, t, a, Nobody) /\ LeadsAs(a, b)
    BY <2>5, <2>6, RequestOk
  <2>8. PICK z : z = Rearm(a, d)
    OBVIOUS
  <2>9. Ok(tab, t, z, Nobody) /\ LeadsAs(z, a)
    BY <2>7, <2>8, RearmOk
  <2>10. Set(t, z)
    BY <1>6, <1>7, <2>4, <2>6, <2>8 DEF Ask
  <2>11. locks /\ z.me.leader => z.me.held # 0
    BY <2>2, <2>4, <2>7, <2>9 DEF LeadsAs
  <2> QED
    BY <1>f, <2>9, <2>10, <2>11, Settled
<1>8. CASE c.held # g
  <2>1. Ok(tab, t, s, Nobody)
    <3>1. Ok(tab, t, Pair(n.me, Taken(n.m, t)), Nobody)
      BY <1>1, <1>2, <1>8, <1>c, <1>g, PassOk
    <3> QED
      BY <1>1, <1>4, <1>c, <1>m, <3>1
  <2>2. PICK z : z = RequestDone(t, s, d)
    OBVIOUS
  <2>3. Ok(tab, t, z, Nobody) /\ LeadsAs(z, s)
    BY <2>1, <2>2, RequestDoneOk
  <2>4. Set(t, z)
    BY <1>6, <1>8, <2>2
  <2>5. locks /\ z.me.leader => z.me.held # 0
    BY <1>4, <1>c, <2>3 DEF LeadsAs, Sound, ByRequest
  <2> QED
    BY <1>f, <2>3, <2>4, <2>5, Settled
<1> QED
  BY <1>7, <1>8

LEMMA SoundReleased ==
  ASSUME NEW t, t \in Tabs, Sound, OnReleased(t)
  PROVE  Sound'
<1>n. PICK n : n = Now(t)
  OBVIOUS
<1>1. Ok(tab, t, n, Nobody) /\ n.me = tab[t] /\ n.m = lock
  BY <1>n, NowOk
<1>2. Answerable(n, t) /\ Word(n, t).t = "released"
  BY <1>1 DEF OnReleased, Answered, Answerable, Word, First
<1>3. PICK s : s = Handled(t)
  OBVIOUS
<1>4. s = Pair(n.me, Taken(n.m, t)) /\ s.me = tab[t]
  BY <1>1, <1>3, HandledIs DEF Pair
<1>5. Ok(tab, t, s, Nobody)
  BY <1>1, <1>2, <1>4, PassOk
<1>6. PICK d \in Delays : Set(t, RequestDone(t, s, d))
  BY <1>3 DEF OnReleased
<1>7. PICK z : z = RequestDone(t, s, d)
  OBVIOUS
<1>8. Ok(tab, t, z, Nobody) /\ LeadsAs(z, s)
  BY <1>5, <1>7, RequestDoneOk
<1>9. locks /\ z.me.leader => z.me.held # 0
  BY <1>4, <1>8 DEF LeadsAs, Sound, ByRequest
<1>10. FrameOK' /\ locks' = locks
  BY SoundFrame DEF OnReleased, FrameOK
<1> QED
  BY <1>6, <1>7, <1>8, <1>9, <1>10, Settled

\* Only t's timer, its beat, or, where it leads through nothing, whether it leads.
LEMMA BesideOk ==
  ASSUME NEW t, NEW e, t \in Tabs, Sound, e \in Local, e.held = tab[t].held,
         e.pending = tab[t].pending, e.leader = tab[t].leader \/ tab[t].held = 0
  PROVE  Ok(tab, t, Pair(e, lock), Nobody)
<1>1. PICK n : n = Now(t)
  OBVIOUS
<1>2. Ok(tab, t, n, Nobody) /\ n.me = tab[t] /\ n.m = lock
  BY <1>1, NowOk
<1>3. PICK z : z = Pair(e, lock)
  OBVIOUS
<1>4. z \in Pairs /\ z.me = e /\ z.m = lock
  BY <1>3, SoundIs, PairFacts
<1>5. Beside(z, n)
  BY <1>2, <1>4 DEF Beside
<1> QED
  BY <1>2, <1>3, <1>5, AsideOk

LEMMA SoundOnFrame ==
  ASSUME NEW t, NEW u, t \in Tabs, Sound, OnFrame(t, u)
  PROVE  Sound'
<1>c. PICK c : c = tab[t]
  OBVIOUS
<1>1. c \in Local
  BY <1>c, SoundIs
<1>n. PICK n : n = Now(t)
  OBVIOUS
<1>2. Ok(tab, t, n, Nobody) /\ n.me = c /\ n.m = lock /\ n = Pair(c, lock)
  BY <1>c, <1>n, NowOk DEF Now, Pair
<1>3. locks /\ c.leader => c.held # 0
  BY <1>c DEF Sound, ByRequest
<1>e. PICK e : e = YieldTo(c)
  OBVIOUS
<1>4. e \in Local /\ e.leader = FALSE /\ e.held = c.held /\ e.pending = c.pending
  BY <1>1, <1>e DEF YieldTo, Local
<1>y. PICK y : y = Pair(e, lock)
  OBVIOUS
<1>5. y = [Now(t) EXCEPT !.me = YieldTo(@)] /\ y.me = e
  BY <1>2, <1>c, <1>e, <1>n, <1>y DEF Pair
<1>6. PICK d \in Delays :
         Set(t, CASE c.held # 0 -> n
                  [] c.held = 0 /\ c.leader ->
                       IF Outranks(u, t) THEN Rearm(y, d) ELSE n
                  [] OTHER -> Rearm(n, d))
  BY <1>5, <1>c, <1>n DEF OnFrame
<1>7. \/ Set(t, n)
      \/ c.held = 0 /\ Set(t, Rearm(y, d))
      \/ Set(t, Rearm(n, d))
  BY <1>6
<1>f. FrameOK' /\ locks' = locks
  <2>1. heard' \in [Tabs -> SUBSET Tabs]
    BY SoundFrame DEF OnFrame, FrameOK
  <2> QED
    BY <2>1, SoundFrame DEF OnFrame, FrameOK
<1>8. CASE Set(t, n)
  BY <1>2, <1>3, <1>8, <1>f, Settled
<1>9. CASE c.held = 0 /\ Set(t, Rearm(y, d))
  <2>1. Ok(tab, t, y, Nobody)
    BY <1>4, <1>9, <1>c, <1>y, BesideOk
  <2>2. PICK z : z = Rearm(y, d)
    OBVIOUS
  <2>3. Ok(tab, t, z, Nobody) /\ LeadsAs(z, y)
    BY <2>1, <2>2, RearmOk
  <2>4. locks /\ z.me.leader => z.me.held # 0
    BY <1>4, <1>5, <2>3 DEF LeadsAs
  <2> QED
    BY <1>9, <1>f, <2>2, <2>3, <2>4, Settled
<1>10. CASE Set(t, Rearm(n, d))
  <2>1. PICK z : z = Rearm(n, d)
    OBVIOUS
  <2>2. Ok(tab, t, z, Nobody) /\ LeadsAs(z, n)
    BY <1>2, <2>1, RearmOk
  <2>3. locks /\ z.me.leader => z.me.held # 0
    BY <1>2, <1>3, <2>2 DEF LeadsAs
  <2> QED
    BY <1>10, <1>f, <2>1, <2>2, <2>3, Settled
<1> QED
  BY <1>7, <1>8, <1>9, <1>10


LEMMA SoundClaim ==
  ASSUME NEW t, t \in Tabs, Sound, Claim(t)
  PROVE  Sound'
<1>c. PICK c : c = tab[t]
  OBVIOUS
<1>1. c \in Local
  BY <1>c, SoundIs
<1>e. PICK e : e = Become(c)
  OBVIOUS
<1>2. e \in Local /\ e.leader = TRUE /\ e.held = c.held /\ e.pending = c.pending
  <2>1. NoTimer \in [on : BOOLEAN, age : Nat, delay : Nat]
    BY DEF NoTimer
  <2> QED
    BY <1>1, <1>e, <2>1 DEF Become, Local
<1>3. c.leader = TRUE \/ c.held = 0
  <2>1. Fits(c, lock, t, Nobody)
    BY <1>c DEF Sound, AllFit
  <2>2. c.held # 0 => c.leader
    BY <2>1 DEF Fits, Tidy, HeldFits
  <2>3. c.leader \in BOOLEAN
    BY <1>1, LocalFields
  <2> QED
    BY <2>2, <2>3
<1>z. PICK z : z = Pair(e, lock)
  OBVIOUS
<1>4. Ok(tab, t, z, Nobody) /\ z.me = e /\ z.m = lock
  <2>1. e.leader = tab[t].leader \/ tab[t].held = 0
    BY <1>2, <1>3, <1>c
  <2>2. Ok(tab, t, z, Nobody)
    BY <1>2, <1>c, <1>z, <2>1, BesideOk
  <2> QED
    BY <1>z, <2>2 DEF Pair
<1>5. Set(t, z)
  BY <1>4, <1>c, <1>e DEF Claim, Set
<1>6. FrameOK' /\ locks' = locks /\ ~locks
  BY SoundFrame, PostedOk DEF Claim, FrameOK
<1> QED
  BY <1>4, <1>5, <1>6, Settled

LEMMA SoundSteal ==
  ASSUME NEW t, t \in Tabs, Sound, Steal(t)
  PROVE  Sound'
<1>c. PICK c : c = tab[t]
  OBVIOUS
<1>1. c \in Local
  BY <1>c, SoundIs
<1>n. PICK n : n = Now(t)
  OBVIOUS
<1>2. Ok(tab, t, n, Nobody) /\ n.me = c /\ n = Pair(c, lock)
  BY <1>c, <1>n, NowOk DEF Now, Pair
<1>3. locks /\ c.leader => c.held # 0
  BY <1>c DEF Sound, ByRequest
<1>e. PICK e : e = [c EXCEPT !.timer = NoTimer]
  OBVIOUS
<1>4. e \in Local /\ e.leader = c.leader /\ e.held = c.held /\ e.pending = c.pending
  <2>1. NoTimer \in [on : BOOLEAN, age : Nat, delay : Nat]
    BY DEF NoTimer
  <2>2. PICK o : o = NoTimer
    OBVIOUS
  <2> QED
    BY <1>1, <1>e, <2>1, <2>2 DEF Local
<1>y. PICK y : y = Pair(e, lock)
  OBVIOUS
<1>5. y = [Now(t) EXCEPT !.me.timer = NoTimer] /\ y.me = e
  <2>1. n = [me |-> c, m |-> lock]
    BY <1>2 DEF Pair
  <2>2. [n EXCEPT !.me.timer = NoTimer] = [me |-> e, m |-> lock]
    BY <1>e, <2>1
  <2> QED
    BY <1>n, <1>y, <2>2 DEF Pair
<1>6. PICK d \in Delays : Set(t, Rearm(n, d)) \/ Set(t, Take(t, y))
  BY <1>5, <1>n DEF Steal, ListenAgain, Take
<1>f. FrameOK' /\ locks' = locks
  BY SoundFrame DEF Steal, FrameOK
<1>7. CASE Set(t, Rearm(n, d))
  <2>1. PICK z : z = Rearm(n, d)
    OBVIOUS
  <2>2. Ok(tab, t, z, Nobody) /\ LeadsAs(z, n)
    BY <1>2, <2>1, RearmOk
  <2>3. locks /\ z.me.leader => z.me.held # 0
    BY <1>2, <1>3, <2>2 DEF LeadsAs
  <2> QED
    BY <1>7, <1>f, <2>1, <2>2, <2>3, Settled
<1>8. CASE Set(t, Take(t, y))
  <2>1. Ok(tab, t, y, Nobody)
    BY <1>4, <1>c, <1>y, BesideOk
  <2>2. PICK z : z = Take(t, y)
    OBVIOUS
  <2>3. Ok(tab, t, z, Nobody) /\ LeadsAs(z, y)
    BY <2>1, <2>2, RequestOk
  <2>4. locks /\ z.me.leader => z.me.held # 0
    BY <1>3, <1>4, <1>5, <2>3 DEF LeadsAs
  <2> QED
    BY <1>8, <1>f, <2>2, <2>3, <2>4, Settled
<1> QED
  BY <1>6, <1>7, <1>8

LEMMA SoundLapse ==
  ASSUME NEW t, NEW d, t \in Tabs, Sound, d \in Delays, Set(t, Lapse(t, Now(t), d)),
         FrameOK', locks' = locks
  PROVE  Sound'
<1>n. PICK n : n = Now(t)
  OBVIOUS
<1>1. Ok(tab, t, n, Nobody)
  BY <1>n, NowOk
<1>2. PICK z : z = Lapse(t, n, d)
  OBVIOUS
<1>3. Ok(tab, t, z, Nobody) /\ ~z.me.leader
  BY <1>1, <1>2, LapseOk
<1>4. Set(t, z)
  BY <1>n, <1>2
<1> QED
  BY <1>3, <1>4, Settled

LEMMA SoundBeat ==
  ASSUME NEW t, t \in Tabs, Sound, Beat(t)
  PROVE  Sound'
<1>1. CASE /\ tab' = [tab EXCEPT ![t].beat = 0]
           /\ Posted(t) /\ UNCHANGED lock
  <2>c. PICK c : c = tab[t]
    OBVIOUS
  <2>1. c \in Local
    BY <2>c, SoundIs
  <2>e. PICK e : e = [c EXCEPT !.beat = 0]
    OBVIOUS
  <2>2. e \in Local /\ e.leader = c.leader /\ e.held = c.held /\ e.pending = c.pending
    BY <2>1, <2>e DEF Local
  <2>z. PICK z : z = Pair(e, lock)
    OBVIOUS
  <2>3. Ok(tab, t, z, Nobody) /\ z.me = e /\ z.m = lock
    <3>1. Ok(tab, t, z, Nobody)
      BY <2>2, <2>c, <2>z, BesideOk
    <3> QED
      BY <2>z, <3>1 DEF Pair
  <2>4. Set(t, z)
    BY <1>1, <2>3, <2>c, <2>e DEF Set
  <2>5. FrameOK' /\ locks' = locks
    BY <1>1, SoundFrame, PostedOk DEF Beat, FrameOK
  <2>6. locks /\ z.me.leader => z.me.held # 0
    BY <2>2, <2>3, <2>c DEF Sound, ByRequest
  <2> QED
    BY <2>3, <2>4, <2>5, <2>6, Settled
<1>2. CASE (\E d \in Delays : Set(t, Lapse(t, Now(t), d))) /\ UNCHANGED heard
  <2>1. PICK d \in Delays : Set(t, Lapse(t, Now(t), d))
    BY <1>2
  <2>2. FrameOK' /\ locks' = locks
    BY <1>2, SoundFrame DEF Beat, FrameOK
  <2> QED
    BY <2>1, <2>2, SoundLapse
<1> QED
  BY <1>1, <1>2 DEF Beat

LEMMA SoundAskLeader ==
  ASSUME NEW t, t \in Tabs, Sound, AskLeader(t)
  PROVE  Sound'
<1>1. PICK d \in Delays : Set(t, Lapse(t, Now(t), d))
  BY DEF AskLeader
<1>2. FrameOK' /\ locks' = locks
  BY SoundFrame DEF AskLeader, FrameOK
<1> QED
  BY <1>1, <1>2, SoundLapse

LEMMA SoundFreeze ==
  ASSUME NEW t, t \in Tabs, Sound, Freeze(t) \/ Thaw(t)
  PROVE  Sound'
<1>1. UNCHANGED <<tab, lock, locks>>
  BY DEF Freeze, Thaw
<1>2. FrameOK'
  <2>1. FrameOK /\ "frozen" \in Pages /\ "running" \in Pages /\ {} \in SUBSET Tabs
    BY SoundFrame DEF Pages
  <2>2. CASE Freeze(t)
    <3>1. rivalry' \in [Tabs -> Nat]
      BY <2>2 DEF Freeze
    <3>2. moves' \in Nat
      BY <2>1, <2>2 DEF Freeze, Move, FrameOK
    <3> QED
      BY <2>1, <2>2, <3>1, <3>2 DEF Freeze, FrameOK
  <2>3. CASE Thaw(t)
    <3>1. heard' \in [Tabs -> SUBSET Tabs]
      BY <2>1, <2>3 DEF Thaw, FrameOK
    <3> QED
      BY <2>1, <2>3, <3>1 DEF Thaw, FrameOK
  <2> QED
    BY <2>2, <2>3
<1>3. TypeOK'
  BY <1>1, <1>2 DEF Sound, TypeOK, FrameOK
<1>4. AllFit(tab', lock', Nobody)
  BY <1>1 DEF Sound
<1>5. ByRequest'
  BY <1>1 DEF Sound, ByRequest
<1> QED
  BY <1>3, <1>4, <1>5 DEF Sound

LEMMA SoundClose ==
  ASSUME NEW t, t \in Tabs, Sound, Close(t)
  PROVE  Sound'
<1>1. tab \in [Tabs -> Local] /\ lock \in Manager /\ AllFit(tab, lock, Nobody)
  BY SoundIs DEF Sound
<1>2. Follower \in Local /\ Follower.leader = FALSE
  BY DEF Follower, Local, NoTimer
<1>U. PICK U : U = [tab EXCEPT ![t] = Follower]
  OBVIOUS
<1>3. /\ U \in [Tabs -> Local] /\ U[t] = Follower
      /\ \A u \in Tabs : u # t => U[u] = tab[u]
  BY <1>1, <1>2, <1>U
<1>m. PICK m : m = lock
  OBVIOUS
<1>g. PICK g : g = Gone(m, t)
  OBVIOUS
<1>4. tab' = U /\ lock' = g
  BY <1>U, <1>m, <1>g DEF Close
<1>5. g \in Manager /\ AllFit(U, g, Nobody)
  BY <1>1, <1>3, <1>m, <1>g, GoneAll
<1>6. FrameOK' /\ locks' = locks
  <2>1. FrameOK /\ "closed" \in Pages /\ {} \in SUBSET Tabs
    BY SoundFrame DEF Pages
  <2>2. moves' \in Nat
    BY <2>1 DEF Close, Move, FrameOK
  <2> QED
    BY <2>1, <2>2 DEF Close, FrameOK
<1>7. TypeOK'
  BY <1>3, <1>4, <1>5, <1>6 DEF TypeOK, FrameOK
<1>8. AllFit(tab', lock', Nobody)
  BY <1>4, <1>5
<1>9. ByRequest'
  BY <1>2, <1>3, <1>4, <1>6 DEF Sound, ByRequest
<1> QED
  BY <1>7, <1>8, <1>9 DEF Sound

LEMMA SoundTick ==
  ASSUME Sound, Tick
  PROVE  Sound'
<1>1. tab \in [Tabs -> Local] /\ FrameOK
  BY SoundIs, SoundFrame
<1>2. \A i, j : i \in Nat => UpTo(i, j) \in Nat
  BY DEF UpTo
<1>3. ASSUME NEW u, u \in Tabs
      PROVE  /\ tab'[u] \in Local /\ tab'[u].leader = tab[u].leader
             /\ tab'[u].held = tab[u].held /\ tab'[u].pending = tab[u].pending
  <2>c. PICK c : c = tab[u]
    OBVIOUS
  <2>1. c \in Local
    BY <1>1, <1>3, <2>c
  <2>b. PICK b : b = IF c.leader THEN UpTo(c.beat, LEASE_TTL_MS + 1) ELSE c.beat
    OBVIOUS
  <2>a. PICK a : a = IF c.timer.on
                     THEN UpTo(c.timer.age, c.timer.delay + HEARTBEAT_MS + 1)
                     ELSE c.timer.age
    OBVIOUS
  <2>2. a \in Nat /\ b \in Nat
    BY <1>2, <2>1, <2>a, <2>b DEF Local
  <2>3. tab'[u] = [c EXCEPT !.beat = b, !.timer.age = a]
    BY <1>3, <2>a, <2>b, <2>c, Zenon DEF Tick
  <2>r. PICK r : r = [c.timer EXCEPT !.age = a]
    OBVIOUS
  <2>4. r \in [on : BOOLEAN, age : Nat, delay : Nat]
    BY <2>1, <2>2, <2>r DEF Local
  <2>5. PICK e : e = [c EXCEPT !.beat = b]
    OBVIOUS
  <2>6. /\ e \in Local /\ e.leader = c.leader /\ e.held = c.held
        /\ e.pending = c.pending /\ e.timer = c.timer
    BY <2>1, <2>2, <2>5 DEF Local
  <2>7. tab'[u] = [e EXCEPT !.timer = r]
    BY <2>1, <2>3, <2>5, <2>r DEF Local
  <2> QED
    BY <2>4, <2>6, <2>7, <2>c DEF Local
<1>4. tab' \in [Tabs -> Local]
  <2>1. DOMAIN tab' = Tabs /\ tab' = [u \in Tabs |-> tab'[u]]
    BY DEF Tick
  <2> QED
    BY <1>3, <2>1
<1>5. UNCHANGED <<locks, page, heard, lock, moves>>
  BY DEF Tick
<1>6. rivalry' \in [Tabs -> Nat]
  BY <1>1, <1>2 DEF Tick, FrameOK
<1>7. TypeOK'
  BY <1>4, <1>5, <1>6 DEF Sound, TypeOK
<1>8. AllFit(tab', lock', Nobody)
  BY <1>3, <1>5 DEF Sound, AllFit, Fits
<1>9. ByRequest'
  BY <1>3, <1>5 DEF Sound, ByRequest
<1> QED
  BY <1>7, <1>8, <1>9 DEF Sound

LEMMA SoundNext == Sound /\ [Next]_vars => Sound'
<1> SUFFICES ASSUME Sound, [Next]_vars PROVE Sound'
  OBVIOUS
<1>1. CASE UNCHANGED vars
  <2>1. UNCHANGED <<locks, page, tab, heard, lock, moves, rivalry>>
    BY <1>1 DEF vars
  <2>2. TypeOK' /\ AllFit(tab', lock', Nobody) /\ ByRequest'
    BY <2>1 DEF Sound, TypeOK, ByRequest
  <2> QED
    BY <2>2 DEF Sound
<1>2. ASSUME NEW t \in Tabs, Task(t) PROVE Sound'
  <2>1. CASE \E u \in Tabs : OnFrame(t, u)
    BY <2>1, SoundOnFrame
  <2> QED
    BY <1>2, <2>1, SoundGranted, SoundBroken, SoundReleased, SoundClaim, SoundSteal,
       SoundBeat, SoundAskLeader DEF Task
<1>3. ASSUME NEW t \in Tabs, World(t) PROVE Sound'
  BY <1>3, SoundOpen, SoundFreeze, SoundClose DEF World
<1> QED
  BY <1>1, <1>2, <1>3, SoundTick DEF Next

-----------------------------------------------------------------------------
(* LeaseIsRight. *)

LEMMA SoundMatches == Sound => LeaseMatchesLock
<1> SUFFICES ASSUME Sound, NEW t, t \in Tabs
             PROVE  /\ locks /\ tab[t].leader =>
                         \/ lock.owner = [by |-> t, gen |-> tab[t].held]
                         \/ \E i \in DOMAIN lock.events[t] :
                              lock.events[t][i] = [t |-> "broken", gen |-> tab[t].held]
                    /\ lock.owner.by = t =>
                         \/ tab[t].leader /\ tab[t].held = lock.owner.gen
                         \/ \E i \in DOMAIN lock.events[t] :
                              lock.events[t][i] = [t |-> "granted", gen |-> lock.owner.gen]
  BY DEF LeaseMatchesLock
<1>1. Fits(tab[t], lock, t, Nobody)
  BY DEF Sound, AllFit
<1>2. lock.owner.by = t => lock.owner # Nobody
  BY NoTab
<1>3. locks /\ tab[t].leader => tab[t].held # 0
  BY DEF Sound, ByRequest
<1>4. locks /\ tab[t].leader =>
        lock.owner = Req(t, tab[t].held) \/ Has(lock.events[t], Ans("broken", tab[t].held))
  BY <1>1, <1>3 DEF Fits, Tidy, HeldFits
<1>5. lock.owner.by = t =>
        \/ tab[t].leader /\ tab[t].held = lock.owner.gen
        \/ Has(lock.events[t], Ans("granted", lock.owner.gen))
  BY <1>1, <1>2 DEF Fits, Tidy, OwnerFits
<1> QED
  BY <1>4, <1>5 DEF Has, Ans, Req

LEMMA SoundPending == Sound => PendingIsRight
<1> SUFFICES ASSUME Sound, NEW t, t \in Tabs
             PROVE  /\ tab[t].pending = Unanswered(t)
                    /\ Cardinality({i \in DOMAIN lock.queue : lock.queue[i].by = t}) <= 1
  BY DEF PendingIsRight
<1>q. PICK q : q = lock.queue
  OBVIOUS
<1> DEFINE D == {i \in DOMAIN q : q[i].by = t}
<1>1. Solo(q) /\ q \in Seq(Requests)
  BY <1>q, SoundIs, ManagerFields DEF Sound, AllFit
<1>ev. PICK ev : ev = lock.events[t]
  OBVIOUS
<1>2. Counts(tab[t].pending, Wait(q, t), ev)
  BY <1>q, <1>ev DEF Sound, AllFit, Fits, Tidy
<1>3. Cardinality(D) = IF Wait(q, t) = {} THEN 0 ELSE 1
  <2>1. CASE D = {}
    <3>1. Wait(q, t) = {}
      BY <2>1 DEF Wait
    <3> QED
      BY <2>1, <3>1, FS_EmptySet
  <2>2. CASE D # {}
    <3>1. PICK i : i \in D
      BY <2>2
    <3>2. \A j \in D : j = i
      BY <1>1, <3>1 DEF Solo
    <3>3. D = {i}
      BY <3>1, <3>2
    <3>4. Wait(q, t) # {}
      BY <3>1 DEF Wait
    <3> QED
      BY <3>3, <3>4, FS_Singleton
  <2> QED
    BY <2>1, <2>2
<1>4. tab[t].pending = Cardinality(D) + Cardinality(GrantsAt(ev))
  BY <1>2, <1>3 DEF Counts
<1>5. Unanswered(t) = Cardinality(D) + Cardinality(GrantsAt(ev))
  BY <1>q, <1>ev DEF Unanswered, GrantsAt
<1>6. Cardinality(D) <= 1
  BY <1>3
<1> QED
  BY <1>4, <1>5, <1>6, <1>q

(* Whatever the tabs, the delays, the freezes and closes: what a tab        *)
(* believes of the lock it leads through, and of the requests it has made,  *)
(* is so, or an answer that will put it right is on its way                *)
(* (lease.ts:15-19, 63-67).                                                *)
THEOREM LeaseRight == Spec => []LeaseIsRight
<1>1. Init => Sound
  BY SoundInit
<1>2. Sound /\ [Next]_vars => Sound'
  BY SoundNext
<1>3. Sound => LeaseIsRight
  BY SoundMatches, SoundPending DEF Sound, LeaseIsRight
<1> QED
  BY <1>1, <1>2, <1>3, PTL DEF Spec


-----------------------------------------------------------------------------
(* RivalsAreBrief.  With the locks there is never a rival when time passes. *)
(* Without them, how long a tab has had one is known from the one's beat:   *)
(* a tab that leads beats, and who hears a lower one's beat steps back.     *)

\* Nobody speaks to the lock manager.
Alone == /\ lock.owner = Nobody /\ lock.queue = <<>>
         /\ \A t \in Tabs : lock.events[t] = <<>>

\* A tab that waits to claim does not lead, and has no rival when it claims.
Listens(e, k) ==
    e.timer.on => ~e.leader /\ (k = 0 \/ (e.timer.age = 0 /\ e.timer.delay > 0))

Calm(e, p, k) ==
    /\ e.held = 0
    /\ e.leader => p # "closed"
    /\ p = "frozen" => k = 0
    /\ Listens(e, k)

\* A rival that t has heard all of has been silent as long as it has rivalled t.
Silent(e, f, k) ==
    e.leader /\ f.leader => k <= f.beat \/ f.beat > LEASE_TTL_MS

Elected ==
    /\ Alone
    /\ \A t \in Tabs : Calm(tab[t], page[t], rivalry[t])
    /\ \A t, u \in Tabs :
         u < t /\ u \notin heard[t] => Silent(tab[t], tab[u], rivalry[t])

Brief == /\ RivalsAreBrief
         /\ ~locks => Elected

LEMMA BriefInit == Init => Brief
<1> SUFFICES ASSUME Init PROVE Brief
  OBVIOUS
<1>1. Follower.leader = FALSE /\ Follower.held = 0 /\ Follower.timer.on = FALSE
  BY DEF Follower, NoTimer
<1>2. \A t \in Tabs : tab[t] = Follower /\ page[t] = "closed" /\ rivalry[t] = 0
  BY DEF Init
<1>3. Alone
  BY DEF Init, Alone
<1>4. Elected
  BY <1>1, <1>2, <1>3 DEF Elected, Calm, Listens, Silent
<1>5. RivalsAreBrief
  BY <1>2, LeaseAssumption DEF RivalsAreBrief
<1> QED
  BY <1>4, <1>5 DEF Brief

\* What a tick does.
LEMMA TickIs ==
  ASSUME Tick
  PROVE  /\ \A t \in Tabs : ~Busy(t)
         /\ \A t \in Tabs :
              rivalry'[t] = IF Rivalled(t) THEN UpTo(rivalry[t], HEARTBEAT_MS + 1) ELSE 0
         /\ locks' = locks /\ page' = page /\ heard' = heard /\ lock' = lock
<1>1. ~ \E t \in Tabs : Busy(t)
  BY Zenon DEF Tick
<1>2. rivalry' = [t \in Tabs |->
         IF Rivalled(t) THEN UpTo(rivalry[t], HEARTBEAT_MS + 1) ELSE 0]
  BY Zenon DEF Tick
<1>3. UNCHANGED <<locks, page, heard, lock, moves>>
  BY Zenon DEF Tick
<1> QED
  BY <1>1, <1>2, <1>3

\* With the locks, whoever leads when time passes has the lock.
LEMMA BriefLocked ==
  ASSUME Sound, Brief, locks, Tick
  PROVE  \A t \in Tabs : rivalry'[t] = 0
<1>1. ASSUME NEW t \in Tabs, MayWrite(t)
      PROVE  lock.owner.by = t
  <2>1. lock.events[t] = <<>>
    BY <1>1, TickIs DEF Busy, MayWrite
  <2>2. Fits(tab[t], lock, t, Nobody) /\ tab[t].held # 0
    BY <1>1 DEF Sound, AllFit, ByRequest, MayWrite
  <2>3. lock.owner = Req(t, tab[t].held)
    BY <2>1, <2>2 DEF Fits, Tidy, HeldFits, Has
  <2> QED
    BY <2>3 DEF Req
<1>2. ASSUME NEW t \in Tabs PROVE ~Rivalled(t)
  <2>1. \A u \in Tabs : u < t => u # t
    BY <1>2, LeaseAssumption
  <2> QED
    BY <1>1, <1>2, <2>1 DEF Rivalled
<1> QED
  BY <1>2, TickIs

\* Without them, a rival that may write has beaten within a heartbeat.
LEMMA BriefTick ==
  ASSUME Sound, Brief, ~locks, Tick
  PROVE  Brief'
<1>1. /\ tab \in [Tabs -> Local] /\ rivalry \in [Tabs -> Nat]
      /\ \A t \in Tabs : t \in Nat /\ tab[t].beat \in Nat /\ rivalry[t] \in Nat
  BY LeaseAssumption, SoundIs DEF Sound, TypeOK, Local
<1>2. Elected
  BY DEF Brief
<1>h. HEARTBEAT_MS \in Nat \ {0} /\ LEASE_TTL_MS \in Nat \ {0}
  BY LeaseAssumption
<1>3. ASSUME NEW t \in Tabs
      PROVE  /\ tab'[t].leader = tab[t].leader /\ tab'[t].held = tab[t].held
             /\ tab'[t].timer.on = tab[t].timer.on
             /\ tab[t].leader =>
                  tab'[t].beat = IF tab[t].beat < LEASE_TTL_MS + 1 THEN tab[t].beat + 1
                                                                  ELSE tab[t].beat
  <2>c. PICK c : c = tab[t]
    OBVIOUS
  <2>1. c \in Local
    BY <1>1, <1>3, <2>c
  <2>b. PICK b : b = IF c.leader THEN UpTo(c.beat, LEASE_TTL_MS + 1) ELSE c.beat
    OBVIOUS
  <2>a. PICK a : a = IF c.timer.on
                     THEN UpTo(c.timer.age, c.timer.delay + HEARTBEAT_MS + 1)
                     ELSE c.timer.age
    OBVIOUS
  <2>3. tab'[t] = [c EXCEPT !.beat = b, !.timer.age = a]
    BY <1>3, <2>a, <2>b, <2>c, Zenon DEF Tick
  <2>4. /\ tab'[t].leader = c.leader /\ tab'[t].held = c.held
        /\ tab'[t].timer.on = c.timer.on /\ tab'[t].beat = b
    BY <2>1, <2>3 DEF Local
  <2> QED
    BY <2>4, <2>b, <2>c DEF UpTo
<1>4. \A t \in Tabs : rivalry'[t] = IF Rivalled(t) THEN UpTo(rivalry[t], HEARTBEAT_MS + 1)
                                                   ELSE 0
  BY TickIs
<1>5. UNCHANGED <<locks, page, heard, lock>>
  BY TickIs
<1>6. ASSUME NEW t \in Tabs
      PROVE  /\ rivalry'[t] = 0 \/ rivalry'[t] = rivalry[t] + 1
             /\ rivalry'[t] <= HEARTBEAT_MS
             /\ ~tab[t].leader \/ page[t] # "running" => rivalry'[t] = 0
  <2>1. CASE ~Rivalled(t)
    BY <1>4, <1>h, <2>1
  <2>2. CASE Rivalled(t)
    <3>1. PICK u \in Tabs : u < t /\ MayWrite(u)
      BY <2>2 DEF Rivalled
    <3>2. MayWrite(t)
      BY <2>2 DEF Rivalled
    <3>3. heard[t] = {}
      BY <3>2, TickIs DEF Busy, MayWrite
    <3>4. tab[u].beat < HEARTBEAT_MS
      <4>1. ~BeatDue(u)
        BY <3>1, TickIs DEF Busy, MayWrite
      <4> QED
        BY <1>1, <1>h, <3>1, <4>1 DEF BeatDue, MayWrite
    <3>5. Silent(tab[t], tab[u], rivalry[t])
      BY <1>2, <3>1, <3>3 DEF Elected
    <3>6. rivalry[t] <= tab[u].beat
      BY <3>1, <3>2, <3>5 DEF Silent, MayWrite, Lapsed
    <3>7. rivalry[t] < HEARTBEAT_MS
      BY <1>1, <1>h, <3>1, <3>4, <3>6
    <3>8. rivalry'[t] = rivalry[t] + 1
      BY <1>1, <1>4, <1>h, <2>2, <3>7 DEF UpTo
    <3> QED
      BY <1>1, <1>h, <3>2, <3>7, <3>8 DEF MayWrite
  <2> QED
    BY <2>1, <2>2
<1>7. RivalsAreBrief'
  BY <1>5, <1>6 DEF RivalsAreBrief
<1>8. Alone'
  BY <1>2, <1>5 DEF Elected, Alone
<1>9. ASSUME NEW t \in Tabs
      PROVE  Calm(tab'[t], page'[t], rivalry'[t])
  <2>1. Calm(tab[t], page[t], rivalry[t])
    BY <1>2 DEF Elected
  <2> QED
    BY <1>3, <1>5, <1>6, <1>9, <2>1 DEF Calm, Listens
<1>10. ASSUME NEW t \in Tabs, NEW u \in Tabs, u < t, u \notin heard'[t]
       PROVE  Silent(tab'[t], tab'[u], rivalry'[t])
  <2> SUFFICES ASSUME tab[t].leader, tab[u].leader
               PROVE  rivalry'[t] <= tab'[u].beat \/ tab'[u].beat > LEASE_TTL_MS
    BY <1>3 DEF Silent
  <2>1. rivalry[t] <= tab[u].beat \/ tab[u].beat > LEASE_TTL_MS
    BY <1>2, <1>5, <1>10 DEF Elected, Silent
  <2>2. rivalry'[t] = 0 \/ rivalry'[t] = rivalry[t] + 1
    BY <1>6
  <2>3. tab'[u].beat = IF tab[u].beat < LEASE_TTL_MS + 1 THEN tab[u].beat + 1
                                                        ELSE tab[u].beat
    BY <1>3
  <2> QED
    BY <1>1, <1>h, <2>1, <2>2, <2>3
<1>11. Elected'
  BY <1>8, <1>9, <1>10 DEF Elected
<1> QED
  BY <1>7, <1>11 DEF Brief

\* One tab steps back, or goes on listening: no rivalry gets longer by that.
LEMMA BriefBack ==
  ASSUME NEW t, NEW e, t \in Tabs, Sound, Brief, ~locks, locks' = locks, rivalry' = rivalry,
         lock' = lock, tab' = [tab EXCEPT ![t] = e], page'[t] = "running",
         \A u \in Tabs : u # t => page'[u] = page[u] /\ heard'[u] = heard[u],
         ~e.leader, e.held = 0, e.timer.age = 0, e.timer.delay > 0
  PROVE  Brief'
<1>1. tab \in [Tabs -> Local]
  BY SoundIs
<1>2. tab'[t] = e /\ \A u \in Tabs : u # t => tab'[u] = tab[u]
  BY <1>1
<1>3. Elected
  BY DEF Brief
<1>4. Alone'
  BY <1>3 DEF Elected, Alone
<1>5. \A u \in Tabs : Calm(tab'[u], page'[u], rivalry'[u])
  BY <1>2, <1>3 DEF Elected, Calm, Listens
<1>6. \A v, u \in Tabs :
        u < v /\ u \notin heard'[v] => Silent(tab'[v], tab'[u], rivalry'[v])
  BY <1>2, <1>3 DEF Elected, Silent
<1>7. RivalsAreBrief'
  BY DEF Brief, RivalsAreBrief
<1> QED
  BY <1>4, <1>5, <1>6, <1>7 DEF Brief, Elected

\* The timer that a tab arms.
LEMMA RearmIs ==
  ASSUME NEW c, NEW m, NEW d, c \in Local, d \in Delays
  PROVE  /\ Rearm(Pair(c, m), d).m = m
         /\ Rearm(Pair(c, m), d).me.leader = c.leader
         /\ Rearm(Pair(c, m), d).me.held = c.held
         /\ Rearm(Pair(c, m), d).me.timer.age = 0
         /\ Rearm(Pair(c, m), d).me.timer.delay > 0
<1>1. PICK a : a = Armed(d)
  OBVIOUS
<1>2. a.age = 0 /\ a.delay = d
  BY <1>1 DEF Armed
<1>3. d > 0
  BY LeaseAssumption DEF Delays
<1>4. PICK e : e = [c EXCEPT !.timer = a]
  OBVIOUS
<1>5. e.timer = a /\ e.leader = c.leader /\ e.held = c.held
  BY <1>4 DEF Local
<1>6. Rearm(Pair(c, m), d) = Pair(e, m)
  BY <1>1, <1>4 DEF Rearm, Pair
<1>7. Pair(e, m).m = m /\ Pair(e, m).me = e
  BY DEF Pair
<1> QED
  BY <1>2, <1>3, <1>5, <1>6, <1>7

LEMMA BriefRearm ==
  ASSUME NEW t, NEW c, NEW d, t \in Tabs, c \in Local, d \in Delays, Sound, Brief, ~locks,
         locks' = locks, rivalry' = rivalry, page'[t] = "running",
         \A u \in Tabs : u # t => page'[u] = page[u] /\ heard'[u] = heard[u],
         ~c.leader, c.held = 0, Set(t, Rearm(Pair(c, lock), d))
  PROVE  Brief'
<1>1. PICK z : z = Rearm(Pair(c, lock), d)
  OBVIOUS
<1>2. /\ z.m = lock /\ ~z.me.leader /\ z.me.held = 0
      /\ z.me.timer.age = 0 /\ z.me.timer.delay > 0
  BY <1>1, RearmIs
<1>3. tab' = [tab EXCEPT ![t] = z.me] /\ lock' = lock
  BY <1>1, <1>2 DEF Set
<1> QED
  BY <1>2, <1>3, BriefBack

LEMMA BriefLapse ==
  ASSUME NEW t, NEW d, t \in Tabs, d \in Delays, Sound, Brief, ~locks,
         UNCHANGED <<locks, page, heard, rivalry>>, page[t] = "running",
         Set(t, Lapse(t, Now(t), d))
  PROVE  Brief'
<1>c. PICK c : c = tab[t]
  OBVIOUS
<1>1. c \in Local /\ c.held = 0
  BY <1>c, SoundIs DEF Brief, Elected, Calm
<1>e. PICK e : e = [YieldTo(c) EXCEPT !.timer = NoTimer]
  OBVIOUS
<1>2. e \in Local /\ e.leader = FALSE /\ e.held = 0
  <2>1. PICK o : o = NoTimer
    OBVIOUS
  <2>2. o \in [on : BOOLEAN, age : Nat, delay : Nat]
    BY <2>1 DEF NoTimer
  <2>3. PICK y : y = YieldTo(c)
    OBVIOUS
  <2>4. y \in Local /\ y.leader = FALSE /\ y.held = 0
    BY <1>1, <2>3 DEF YieldTo, Local
  <2>5. e = [y EXCEPT !.timer = o]
    BY <1>e, <2>1, <2>3
  <2> QED
    BY <2>2, <2>4, <2>5 DEF Local
<1>n. Now(t) = [me |-> c, m |-> lock]
  BY <1>c DEF Now
<1>d. PICK k : k = [Now(t) EXCEPT !.me = [YieldTo(@) EXCEPT !.timer = NoTimer]]
  OBVIOUS
<1>3. k = Pair(e, lock)
  BY <1>d, <1>e, <1>n DEF Pair
<1>4. Now(t).me.held = 0
  BY <1>1, <1>n
<1>5. Lapse(t, Now(t), d) = Rearm(k, d)
  BY <1>4, <1>d, Zenon DEF Lapse
<1>6. Set(t, Rearm(Pair(e, lock), d))
  BY <1>3, <1>5
<1> QED
  BY <1>2, <1>6, BriefRearm

LEMMA BriefOpen ==
  ASSUME NEW t, t \in Tabs, Sound, Brief, ~locks, Open(t)
  PROVE  Brief'
<1>1. PICK d \in Delays : Set(t, Rearm(Now(t), d))
  BY DEF Open
<1>c. PICK c : c = tab[t]
  OBVIOUS
<1>2. c \in Local /\ c.held = 0 /\ ~c.leader
  BY <1>c, SoundIs DEF Open, Brief, Elected, Calm
<1>3. Set(t, Rearm(Pair(c, lock), d))
  BY <1>1, <1>c DEF Now, Pair
<1>4. /\ locks' = locks /\ rivalry' = rivalry /\ page'[t] = "running"
      /\ \A u \in Tabs : u # t => page'[u] = page[u] /\ heard'[u] = heard[u]
  BY DEF Open, Sound, TypeOK
<1> QED
  BY <1>2, <1>3, <1>4, BriefRearm

LEMMA BriefOnFrame ==
  ASSUME NEW t, NEW u, t \in Tabs, Sound, Brief, ~locks, OnFrame(t, u)
  PROVE  Brief'
<1>c. PICK c : c = tab[t]
  OBVIOUS
<1>1. c \in Local /\ c.held = 0
  BY <1>c, SoundIs DEF Brief, Elected, Calm
<1>n. PICK n : n = Now(t)
  OBVIOUS
<1>2. n = Pair(c, lock) /\ n.me = c /\ n.m = lock
  BY <1>c, <1>n DEF Now, Pair
<1>e. PICK e : e = YieldTo(c)
  OBVIOUS
<1>3. e \in Local /\ e.leader = FALSE /\ e.held = 0
  BY <1>1, <1>e DEF YieldTo, Local
<1>4. [Now(t) EXCEPT !.me = YieldTo(@)] = Pair(e, lock)
  BY <1>2, <1>c, <1>e, <1>n DEF Pair
<1>5. PICK d \in Delays :
         \/ Set(t, n) /\ c.leader /\ ~(u < t)
         \/ Set(t, Rearm(Pair(e, lock), d))
         \/ Set(t, Rearm(Pair(c, lock), d)) /\ ~c.leader
  BY <1>1, <1>2, <1>4, <1>c, <1>n DEF OnFrame, Outranks
<1>6. /\ UNCHANGED <<locks, page, rivalry>> /\ page'[t] = "running"
      /\ heard' = [heard EXCEPT ![t] = @ \ {u}]
      /\ \A v \in Tabs : v # t => heard'[v] = heard[v]
  BY DEF OnFrame
<1>7. CASE Set(t, n) /\ ~(u < t)
  <2>1. tab' = tab /\ lock' = lock
    BY <1>2, <1>7, <1>c, SoundIs DEF Set
  <2>2. \A v, w \in Tabs : w < v /\ w \notin heard'[v] => w \notin heard[v]
    BY <1>6, <1>7 DEF Sound, TypeOK
  <2>3. Alone'
    BY <2>1 DEF Brief, Elected, Alone
  <2>4. Elected'
    BY <1>6, <2>1, <2>2, <2>3 DEF Brief, Elected
  <2> QED
    BY <1>6, <2>4 DEF Brief, RivalsAreBrief
<1>8. CASE Set(t, Rearm(Pair(e, lock), d))
  BY <1>3, <1>6, <1>8, BriefRearm
<1>9. CASE Set(t, Rearm(Pair(c, lock), d)) /\ ~c.leader
  BY <1>1, <1>6, <1>9, BriefRearm
<1> QED
  BY <1>5, <1>7, <1>8, <1>9

\* A tab that says that it leads: every other one there is to hear it.
LEMMA BriefPosted ==
  ASSUME NEW t, NEW e, t \in Tabs, Sound, Brief, ~locks, page[t] = "running", Posted(t),
         UNCHANGED <<locks, page, lock, rivalry>>, tab' = [tab EXCEPT ![t] = e],
         e.leader, e.held = 0, ~e.timer.on, tab[t].leader \/ rivalry[t] = 0,
         e.beat = 0
  PROVE  Brief'
<1>1. tab \in [Tabs -> Local] /\ \A v \in Tabs : v \in Nat /\ rivalry[v] \in Nat
  BY LeaseAssumption, SoundIs DEF Sound, TypeOK
<1>2. tab'[t] = e /\ \A v \in Tabs : v # t => tab'[v] = tab[v]
  BY <1>1
<1>3. Elected
  BY DEF Brief
<1>4. Alone'
  BY <1>3 DEF Elected, Alone
<1>5. \A v \in Tabs : Calm(tab'[v], page'[v], rivalry'[v])
  BY <1>2, <1>3 DEF Elected, Calm, Listens
<1>6. ASSUME NEW v \in Tabs, NEW u \in Tabs, u < v, u \notin heard'[v]
      PROVE  Silent(tab'[v], tab'[u], rivalry'[v])
  <2>1. u # v /\ u \notin heard[v]
    BY <1>1, <1>6 DEF Posted
  <2>2. Silent(tab[v], tab[u], rivalry[v])
    BY <1>3, <1>6, <2>1 DEF Elected
  <2>3. CASE u = t
    <3>1. page[v] = "closed"
      BY <1>6, <2>1, <2>3 DEF Posted
    <3>2. ~tab[v].leader
      BY <1>3, <3>1 DEF Elected, Calm
    <3> QED
      BY <1>2, <2>1, <2>3, <3>2 DEF Silent
  <2>4. CASE u # t /\ v = t
    <3>1. tab'[u] = tab[u] /\ tab[u] \in Local
      BY <1>1, <1>2, <2>4
    <3>2. tab[u].beat \in Nat
      BY <3>1 DEF Local
    <3> QED
      BY <1>1, <2>2, <2>4, <3>1, <3>2 DEF Silent
  <2>5. CASE u # t /\ v # t
    BY <1>2, <2>2, <2>5 DEF Silent
  <2> QED
    BY <2>3, <2>4, <2>5
<1>7. RivalsAreBrief'
  BY DEF Brief, RivalsAreBrief
<1> QED
  BY <1>4, <1>5, <1>6, <1>7 DEF Brief, Elected

LEMMA BriefClaim ==
  ASSUME NEW t, t \in Tabs, Sound, Brief, Claim(t)
  PROVE  Brief'
<1>c. PICK c : c = tab[t]
  OBVIOUS
<1>1. c \in Local /\ c.held = 0 /\ Listens(c, rivalry[t])
  BY <1>c, SoundIs DEF Claim, Brief, Elected, Calm
<1>2. rivalry[t] = 0
  <2>1. c.timer.on /\ c.timer.age >= c.timer.delay
    BY <1>c DEF Claim, TimerDue
  <2>2. c.timer.age \in Nat /\ c.timer.delay \in Nat
    BY <1>1 DEF Local
  <2> QED
    BY <1>1, <2>1, <2>2 DEF Listens
<1>e. PICK e : e = Become(c)
  OBVIOUS
<1>3. e.leader /\ e.held = 0 /\ e.beat = 0 /\ ~e.timer.on
  BY <1>1, <1>e DEF Become, Local, NoTimer
<1>4. tab' = [tab EXCEPT ![t] = e]
  BY <1>c, <1>e DEF Claim
<1> QED
  BY <1>2, <1>3, <1>4, BriefPosted DEF Claim

LEMMA BriefBeat ==
  ASSUME NEW t, t \in Tabs, Sound, Brief, ~locks, Beat(t)
  PROVE  Brief'
<1>c. PICK c : c = tab[t]
  OBVIOUS
<1>1. c \in Local /\ c.held = 0 /\ Listens(c, rivalry[t]) /\ c.leader
  BY <1>c, SoundIs DEF Beat, BeatDue, Brief, Elected, Calm
<1>2. CASE tab' = [tab EXCEPT ![t].beat = 0] /\ Posted(t) /\ UNCHANGED lock
  <2>e. PICK e : e = [c EXCEPT !.beat = 0]
    OBVIOUS
  <2>1. e.leader /\ e.held = 0 /\ e.beat = 0 /\ e.timer = c.timer
    BY <1>1, <2>e DEF Local
  <2>2. ~e.timer.on
    BY <1>1, <2>1 DEF Listens
  <2>3. tab' = [tab EXCEPT ![t] = e]
    BY <1>2, <1>c, <2>e
  <2> QED
    BY <1>1, <1>2, <1>c, <2>1, <2>2, <2>3, BriefPosted DEF Beat
<1>3. CASE (\E d \in Delays : Set(t, Lapse(t, Now(t), d))) /\ UNCHANGED heard
  BY <1>3, BriefLapse DEF Beat
<1> QED
  BY <1>2, <1>3 DEF Beat

\* A freeze begins the count anew, and a frozen tab has no rival.
LEMMA BriefFreeze ==
  ASSUME NEW t, t \in Tabs, Sound, Brief, Freeze(t)
  PROVE  Brief'
<1>1. UNCHANGED <<locks, tab, heard, lock>> /\ \A u \in Tabs : rivalry'[u] = 0
  BY DEF Freeze
<1>2. \A u \in Tabs : /\ page'[u] = "closed" => page[u] = "closed"
                      /\ tab[u].beat \in Nat
  BY SoundIs DEF Freeze, Sound, TypeOK, Local
<1>3. RivalsAreBrief'
  BY <1>1, LeaseAssumption DEF RivalsAreBrief
<1>4. ASSUME ~locks PROVE Elected'
  <2>1. Elected
    BY <1>4 DEF Brief
  <2>2. Alone'
    BY <1>1, <2>1 DEF Elected, Alone
  <2>3. \A u \in Tabs : Calm(tab'[u], page'[u], rivalry'[u])
    BY <1>1, <1>2, <2>1 DEF Elected, Calm, Listens
  <2>4. \A v, u \in Tabs : Silent(tab'[v], tab'[u], rivalry'[v])
    BY <1>1, <1>2 DEF Silent
  <2> QED
    BY <2>2, <2>3, <2>4 DEF Elected
<1> QED
  BY <1>1, <1>3, <1>4 DEF Brief

LEMMA BriefThaw ==
  ASSUME NEW t, t \in Tabs, Sound, Brief, Thaw(t)
  PROVE  Brief'
<1>1. UNCHANGED <<locks, tab, lock, rivalry>>
  BY DEF Thaw
<1>2. /\ page[t] = "frozen" /\ page'[t] = "running"
      /\ \A u \in Tabs : u # t => page'[u] = page[u] /\ heard'[u] = heard[u]
  BY DEF Thaw, Sound, TypeOK
<1>3. RivalsAreBrief'
  BY <1>1 DEF Brief, RivalsAreBrief
<1>4. ASSUME ~locks PROVE Elected'
  <2>1. Elected
    BY <1>4 DEF Brief
  <2>2. Alone'
    BY <1>1, <2>1 DEF Elected, Alone
  <2>3. \A u \in Tabs : Calm(tab'[u], page'[u], rivalry'[u])
    BY <1>1, <1>2, <2>1 DEF Elected, Calm
  <2>4. ASSUME NEW v \in Tabs, NEW u \in Tabs, u < v, u \notin heard'[v]
        PROVE  Silent(tab'[v], tab'[u], rivalry'[v])
    <3>1. CASE v = t
      <4>1. rivalry[t] = 0 /\ tab[u] \in Local
        BY <1>2, <2>1, SoundIs DEF Elected, Calm
      <4>2. tab[u].beat \in Nat
        BY <4>1 DEF Local
      <4> QED
        BY <1>1, <3>1, <4>1, <4>2 DEF Silent
    <3>2. CASE v # t
      BY <1>1, <1>2, <2>1, <2>4, <3>2 DEF Elected
    <3> QED
      BY <3>1, <3>2
  <2> QED
    BY <2>2, <2>3, <2>4 DEF Elected
<1> QED
  BY <1>1, <1>3, <1>4 DEF Brief

LEMMA BriefClose ==
  ASSUME NEW t, t \in Tabs, Sound, Brief, Close(t)
  PROVE  Brief'
<1>1. Follower.leader = FALSE /\ Follower.held = 0 /\ Follower.timer.on = FALSE
  BY DEF Follower, NoTimer
<1>2. tab'[t] = Follower /\ \A u \in Tabs : u # t => tab'[u] = tab[u]
  BY SoundIs DEF Close
<1>3. /\ UNCHANGED <<locks, rivalry>> /\ lock' = Gone(lock, t)
      /\ page'[t] = "closed"
      /\ \A u \in Tabs : u # t => page'[u] = page[u] /\ heard'[u] = heard[u]
  BY DEF Close, Sound, TypeOK
<1>4. RivalsAreBrief'
  BY <1>3 DEF Brief, RivalsAreBrief
<1>5. ASSUME ~locks PROVE Elected'
  <2>1. Elected
    BY <1>5 DEF Brief
  <2>2. Alone'
    <3>m. PICK m : m = lock
      OBVIOUS
    <3>1. /\ m \in Manager /\ m.owner = Nobody /\ m.queue = <<>>
          /\ \A u \in Tabs : m.events[u] = <<>>
      BY <2>1, <3>m, SoundIs DEF Elected, Alone
    <3>2. Without(m.queue, t) = <<>>
      BY <3>1 DEF Without
    <3>f. PICK f : f = [m.events EXCEPT ![t] = <<>>]
      OBVIOUS
    <3>3. \A u \in Tabs : f[u] = <<>>
      BY <3>1, <3>f DEF Manager
    <3>n. PICK n : n = [m EXCEPT !.queue = Without(@, t), !.events[t] = <<>>]
      OBVIOUS
    <3>4. n.owner = m.owner /\ n.queue = <<>> /\ n.events = f
      BY <3>1, <3>2, <3>f, <3>n DEF Manager
    <3>5. Gone(m, t) = n
      BY <3>1, <3>n, NoTab DEF Gone
    <3> QED
      BY <1>3, <3>1, <3>3, <3>4, <3>5, <3>m DEF Alone
  <2>3. \A u \in Tabs : Calm(tab'[u], page'[u], rivalry'[u])
    BY <1>1, <1>2, <1>3, <2>1 DEF Elected, Calm, Listens
  <2>4. \A v, u \in Tabs :
          u < v /\ u \notin heard'[v] => Silent(tab'[v], tab'[u], rivalry'[v])
    BY <1>1, <1>2, <1>3, <2>1 DEF Elected, Silent
  <2> QED
    BY <2>2, <2>3, <2>4 DEF Elected
<1> QED
  BY <1>3, <1>4, <1>5 DEF Brief

LEMMA BriefNext == Sound /\ Brief /\ [Next]_vars => Brief'
<1> SUFFICES ASSUME Sound, Brief, [Next]_vars PROVE Brief'
  OBVIOUS
<1>1. CASE UNCHANGED vars
  BY <1>1 DEF vars, Brief, RivalsAreBrief, Elected, Alone
<1>2. CASE Tick
  <2>1. CASE locks
    <3>1. locks' /\ \A t \in Tabs : rivalry'[t] = 0
      BY <1>2, <2>1, BriefLocked, TickIs
    <3> QED
      BY <3>1, LeaseAssumption DEF Brief, RivalsAreBrief
  <2> QED
    BY <1>2, <2>1, BriefTick
<1>3. ASSUME NEW t \in Tabs, Task(t) PROVE Brief'
  <2>1. UNCHANGED <<locks, page, rivalry>>
    BY <1>3 DEF Task, OnGranted, OnBroken, OnReleased, OnFrame, Claim, Steal, Beat, AskLeader
  <2>2. CASE locks
    BY <2>1, <2>2 DEF Brief, RivalsAreBrief
  <2>3. CASE ~locks
    <3>1. ~OnGranted(t) /\ ~OnBroken(t) /\ ~OnReleased(t) /\ ~Steal(t)
      BY <2>3 DEF OnGranted, OnBroken, OnReleased, Answered, Steal, Brief, Elected, Alone
    <3>2. CASE \E u \in Tabs : OnFrame(t, u)
      BY <2>3, <3>2, BriefOnFrame
    <3>3. CASE AskLeader(t)
      BY <2>3, <3>3, BriefLapse DEF AskLeader
    <3> QED
      BY <1>3, <2>3, <3>1, <3>2, <3>3, BriefClaim, BriefBeat DEF Task
  <2> QED
    BY <2>2, <2>3
<1>4. ASSUME NEW t \in Tabs, World(t) PROVE Brief'
  <2>1. CASE Open(t) /\ locks
    BY <2>1 DEF Open, Brief, RivalsAreBrief
  <2> QED
    BY <1>4, <2>1, BriefOpen, BriefFreeze, BriefThaw, BriefClose DEF World
<1> QED
  BY <1>1, <1>2, <1>3, <1>4 DEF Next

(* However many tabs, whatever freezes, thaws and closes: with the locks no *)
(* two running tabs are free to write while time passes, and without them   *)
(* none is beside one of a lower id for more than a heartbeat               *)
(* (lease.ts:5-26).                                                         *)
THEOREM RivalsBrief == Spec => []RivalsAreBrief
<1>1. Init => Sound /\ Brief
  BY SoundInit, BriefInit
<1>2. Sound /\ Brief /\ [Next]_vars => Sound' /\ Brief'
  BY SoundNext, BriefNext
<1>3. Brief => RivalsAreBrief
  BY DEF Brief
<1> QED
  BY <1>1, <1>2, <1>3, PTL DEF Spec
=============================================================================
