---------------------------- MODULE TaskProofs ----------------------------
(***************************************************************************)
(* Proofs about tasks: Sched and TaskTable, for a table of any size and    *)
(* every mix of policies, and Locks, for any number of callers.            *)
(***************************************************************************)
EXTENDS Sched, TaskTable, Locks, FiniteSetTheorems, TLAPS

-----------------------------------------------------------------------------
(* Locks *)

\* The order in which locks are taken: never one while holding one of the same or a higher rank.
Rank(l) == CASE l \in {"fs", "net"} -> 2 [] l = "pmm" -> 3 [] OTHER -> 1

Steps == [op : {"lock", "unlock"}, lock : Spinlocks]

\* The locks that a caller with s left to do must hold: they are given back before they are taken.
Holds(s) ==
  {l \in Spinlocks : \E j \in 1 .. Len(s) :
     s[j] = [op |-> "unlock", lock |-> l] /\ \A m \in 1 .. j - 1 : s[m].lock # l}

\* Every lock taken is given back before it is taken again.
GivesBack(s) ==
  \A i \in 1 .. Len(s) : s[i].op = "lock" =>
    \E j \in i + 1 .. Len(s) :
      /\ s[j] = [op |-> "unlock", lock |-> s[i].lock]
      /\ \A m \in i + 1 .. j - 1 : s[m].lock # s[i].lock

\* No lock is given back twice in a row.
GivesOnce(s) ==
  \A i, j \in 1 .. Len(s) :
    i < j /\ s[i].op = "unlock" /\ s[j] = s[i] => \E m \in i + 1 .. j - 1 : s[m].lock = s[i].lock

\* A lock is taken only while those held have a lower rank: a lock that is given back after it,
\* and not taken in between, is held.
InOrder(s) ==
  \A i, j \in 1 .. Len(s) :
    /\ i < j /\ s[i].op = "lock" /\ s[j].op = "unlock"
    /\ \A m \in i .. j - 1 : s[m].lock # s[j].lock
    => Rank(s[j].lock) < Rank(s[i].lock)

WellNested(s) == s \in Seq(Steps) /\ GivesBack(s) /\ GivesOnce(s) /\ InOrder(s)

\* What is left of a well-nested sequence after its first step is well nested.
LEMMA TailNested ==
  ASSUME NEW s, WellNested(s), s # <<>>
  PROVE  WellNested(Tail(s))
<1> DEFINE t == Tail(s)
<1>1. /\ s \in Seq(Steps) /\ Len(s) \in Nat \ {0} /\ t \in Seq(Steps) /\ Len(t) = Len(s) - 1
      /\ \A i \in 1 .. Len(t) : t[i] = s[i + 1]
  BY DEF WellNested
<1> HIDE DEF t
<1>2. GivesBack(t)
  <2> SUFFICES ASSUME NEW i \in 1 .. Len(t), t[i].op = "lock"
               PROVE  \E j \in i + 1 .. Len(t) :
                        /\ t[j] = [op |-> "unlock", lock |-> t[i].lock]
                        /\ \A m \in i + 1 .. j - 1 : t[m].lock # t[i].lock
    BY Zenon DEF GivesBack
  <2>1. i + 1 \in 1 .. Len(s) /\ t[i] = s[i + 1]  BY <1>1
  <2>2. PICK j \in (i + 1) + 1 .. Len(s) :
          /\ s[j] = [op |-> "unlock", lock |-> s[i + 1].lock]
          /\ \A m \in (i + 1) + 1 .. j - 1 : s[m].lock # s[i + 1].lock
    BY <2>1, Zenon DEF WellNested, GivesBack
  <2>3. j - 1 \in i + 1 .. Len(t) /\ t[j - 1] = s[j]  BY <1>1
  <2>4. ASSUME NEW m \in i + 1 .. (j - 1) - 1 PROVE t[m].lock # t[i].lock
    <3>1. m \in 1 .. Len(t) /\ m + 1 \in (i + 1) + 1 .. j - 1  BY <1>1
    <3> QED  BY <1>1, <2>1, <2>2, <3>1, SMTT(60)
  <2> QED  BY <2>1, <2>2, <2>3, <2>4, Zenon
<1>3. GivesOnce(t)
  <2> SUFFICES ASSUME NEW i \in 1 .. Len(t), NEW j \in 1 .. Len(t),
                      i < j, t[i].op = "unlock", t[j] = t[i]
               PROVE  \E m \in i + 1 .. j - 1 : t[m].lock = t[i].lock
    BY Zenon DEF GivesOnce
  <2>1. i + 1 \in 1 .. Len(s) /\ t[i] = s[i + 1] /\ j + 1 \in 1 .. Len(s) /\ t[j] = s[j + 1]  BY <1>1
  <2>2. PICK m \in (i + 1) + 1 .. (j + 1) - 1 : s[m].lock = s[i + 1].lock
    BY <2>1 DEF WellNested, GivesOnce
  <2>3. m - 1 \in i + 1 .. j - 1 /\ t[m - 1] = s[m]  BY <1>1
  <2> QED  BY <2>1, <2>2, <2>3, Zenon
<1>4. InOrder(t)
  <2> SUFFICES ASSUME NEW i \in 1 .. Len(t), NEW j \in 1 .. Len(t),
                      i < j, t[i].op = "lock", t[j].op = "unlock",
                      \A m \in i .. j - 1 : t[m].lock # t[j].lock
               PROVE  Rank(t[j].lock) < Rank(t[i].lock)
    BY Zenon DEF InOrder
  <2>1. i + 1 \in 1 .. Len(s) /\ t[i] = s[i + 1] /\ j + 1 \in 1 .. Len(s) /\ t[j] = s[j + 1]  BY <1>1
  <2>2. ASSUME NEW m \in i + 1 .. (j + 1) - 1 PROVE s[m].lock # s[j + 1].lock
    <3>1. m - 1 \in i .. j - 1 /\ t[m - 1] = s[m]  BY <1>1
    <3> QED  BY <2>1, <3>1, Zenon
  <2>3. i + 1 < j + 1 /\ s[i + 1].op = "lock" /\ s[j + 1].op = "unlock"  BY <2>1
  <2>4. Rank(s[j + 1].lock) < Rank(s[i + 1].lock)  BY <2>1, <2>2, <2>3, Zenon DEF WellNested, InOrder
  <2> QED  BY <2>1, <2>4, Zenon
<1> QED  BY <1>1, <1>2, <1>3, <1>4, Zenon DEF WellNested, t

\* Taking a lock adds it to those held, giving one back removes it.
LEMMA HoldsAfter ==
  ASSUME NEW s, WellNested(s), s # <<>>
  PROVE  /\ Head(s).op = "lock" => Holds(Tail(s)) = Holds(s) \cup {Head(s).lock} /\ Head(s).lock \notin Holds(s)
         /\ Head(s).op = "unlock" => Holds(Tail(s)) = Holds(s) \ {Head(s).lock} /\ Head(s).lock \in Holds(s)
<1> DEFINE t == Tail(s)  h == Head(s).lock
<1>1. /\ s \in Seq(Steps) /\ Len(s) \in Nat \ {0} /\ t \in Seq(Steps) /\ Len(t) = Len(s) - 1
      /\ \A i \in 1 .. Len(t) : t[i] = s[i + 1]
      /\ Head(s) = s[1] /\ s[1] \in Steps
  BY DEF WellNested
<1> HIDE DEF t
<1>2. h \in Spinlocks  BY <1>1, Zenon DEF Steps
\* A lock other than the first one is held before and after alike.
<1>3. ASSUME NEW l \in Spinlocks, l # h PROVE l \in Holds(s) <=> l \in Holds(t)
  <2>1. ASSUME l \in Holds(s) PROVE l \in Holds(t)
    <3>1. PICK j \in 1 .. Len(s) : s[j] = [op |-> "unlock", lock |-> l] /\ \A m \in 1 .. j - 1 : s[m].lock # l
      BY <2>1, Zenon DEF Holds
    <3>2. j # 1  BY <1>1, <1>3, <3>1
    <3>3. j - 1 \in 1 .. Len(t) /\ t[j - 1] = s[j]  BY <1>1, <3>2
    <3>4. ASSUME NEW m \in 1 .. (j - 1) - 1 PROVE t[m].lock # l
      <4>1. m + 1 \in 1 .. j - 1 /\ t[m] = s[m + 1]  BY <1>1
      <4> QED  BY <3>1, <4>1, Zenon
    <3> QED  BY <3>1, <3>3, <3>4, Zenon DEF Holds
  <2>2. ASSUME l \in Holds(t) PROVE l \in Holds(s)
    <3>1. PICK j \in 1 .. Len(t) : t[j] = [op |-> "unlock", lock |-> l] /\ \A m \in 1 .. j - 1 : t[m].lock # l
      BY <2>2, Zenon DEF Holds
    <3>2. j + 1 \in 1 .. Len(s) /\ t[j] = s[j + 1]  BY <1>1
    <3>3. ASSUME NEW m \in 1 .. (j + 1) - 1 PROVE s[m].lock # l
      <4>1. CASE m = 1  BY <1>1, <1>3, <4>1, Zenon
      <4>2. CASE m # 1
        <5>1. m - 1 \in 1 .. j - 1 /\ t[m - 1] = s[m]  BY <1>1, <4>2
        <5> QED  BY <3>1, <5>1, Zenon
      <4> QED  BY <4>1, <4>2, Zenon
    <3> QED  BY <3>1, <3>2, <3>3, Zenon DEF Holds
  <2> QED  BY <2>1, <2>2, Zenon
<1>4. ASSUME Head(s).op = "lock" PROVE h \in Holds(t) /\ h \notin Holds(s)
  <2>1. PICK j \in 1 + 1 .. Len(s) :
          s[j] = [op |-> "unlock", lock |-> s[1].lock] /\ \A m \in 1 + 1 .. j - 1 : s[m].lock # s[1].lock
    BY <1>1, <1>4 DEF WellNested, GivesBack
  <2>2. j - 1 \in 1 .. Len(t) /\ t[j - 1] = s[j]  BY <1>1
  <2>3. ASSUME NEW m \in 1 .. (j - 1) - 1 PROVE t[m].lock # h
    <3>1. m + 1 \in 1 + 1 .. j - 1 /\ t[m] = s[m + 1]  BY <1>1
    <3> QED  BY <1>1, <2>1, <3>1, Zenon
  <2>4. h \in Holds(t)  BY <1>1, <1>2, <2>1, <2>2, <2>3, Zenon DEF Holds
  <2>5. ASSUME NEW i \in 1 .. Len(s), s[i] = [op |-> "unlock", lock |-> h],
               \A m \in 1 .. i - 1 : s[m].lock # h
        PROVE  FALSE
    <3>1. i = 1  BY <1>1, <2>5
    <3> QED  BY <1>1, <1>4, <2>5, <3>1
  <2> QED  BY <2>4, <2>5, Zenon DEF Holds
<1>5. ASSUME Head(s).op = "unlock" PROVE h \in Holds(s) /\ h \notin Holds(t)
  <2>1. s[1] = [op |-> "unlock", lock |-> h]  BY <1>1, <1>5, Zenon DEF Steps
  <2>2. h \in Holds(s)  BY <1>1, <1>2, <2>1 DEF Holds
  <2>3. ASSUME NEW j \in 1 .. Len(t), t[j] = [op |-> "unlock", lock |-> h],
               \A m \in 1 .. j - 1 : t[m].lock # h
        PROVE  FALSE
    <3>1. j + 1 \in 1 .. Len(s) /\ 1 \in 1 .. Len(s) /\ s[j + 1] = s[1]  BY <1>1, <2>1, <2>3
    <3>2. PICK m \in 1 + 1 .. (j + 1) - 1 : s[m].lock = s[1].lock
      BY <1>1, <1>5, <3>1 DEF WellNested, GivesOnce
    <3>3. m - 1 \in 1 .. j - 1 /\ t[m - 1] = s[m]  BY <1>1
    <3> QED  BY <1>1, <2>3, <3>2, <3>3, Zenon
  <2> QED  BY <2>2, <2>3, Zenon DEF Holds
<1>6. Holds(s) \subseteq Spinlocks /\ Holds(t) \subseteq Spinlocks  BY Zenon DEF Holds
<1> QED  BY <1>2, <1>3, <1>4, <1>5, <1>6, Zenon DEF t

\* A sequence that gives back all it takes, of which every lock has a rank above r.
Closed(s, r) == WellNested(s) /\ Holds(s) = {} /\ \A i \in 1 .. Len(s) : Rank(s[i].lock) > r

LEMMA ConcatFacts ==
  ASSUME NEW a \in Seq(Steps), NEW b \in Seq(Steps)
  PROVE  /\ a \o b \in Seq(Steps) /\ Len(a \o b) = Len(a) + Len(b)
         /\ \A i \in 1 .. Len(a) : (a \o b)[i] = a[i]
         /\ \A i \in 1 .. Len(b) : (a \o b)[Len(a) + i] = b[i]
OBVIOUS

\* In a sequence that begins and ends with no lock held, what is given back was taken before.
LEMMA TakenBefore ==
  ASSUME NEW s, s \in Seq(Steps), Holds(s) = {}, NEW j \in 1 .. Len(s), s[j].op = "unlock"
  PROVE  \E m \in 1 .. j - 1 : s[m].lock = s[j].lock
<1>1. s[j] \in Steps  OBVIOUS
<1>2. s[j] = [op |-> "unlock", lock |-> s[j].lock] /\ s[j].lock \in Spinlocks  BY <1>1, Zenon DEF Steps
<1> QED  BY <1>2, ZenonT(60) DEF Holds

\* Positions in the second of two sequences, counted from its start and from the start of both.
LEMMA Shifted ==
  ASSUME NEW n \in Nat, NEW len \in Nat, NEW i \in Int, NEW j \in Int, NEW m, j - n \in 1 .. len
  PROVE  /\ m \in 1 .. (j - n) - 1 => m \in 1 .. len /\ n + m \in n + 1 .. j - 1
         /\ i - n \in 1 .. len /\ m \in i - n .. (j - n) - 1 => m \in 1 .. len /\ n + m \in i .. j - 1
         /\ i - n \in 1 .. len /\ m \in (i - n) + 1 .. (j - n) - 1 => m \in 1 .. len /\ n + m \in i + 1 .. j - 1
         /\ i - n \in 1 .. len /\ m \in (i - n) + 1 .. len => m \in 1 .. len /\ n + m \in i + 1 .. n + len
<1>1. m \in 1 .. (j - n) - 1 => m \in 1 .. len /\ n + m \in n + 1 .. j - 1  OBVIOUS
<1>2. i - n \in 1 .. len /\ m \in i - n .. (j - n) - 1 => m \in 1 .. len /\ n + m \in i .. j - 1  OBVIOUS
<1>3. i - n \in 1 .. len /\ m \in (i - n) + 1 .. (j - n) - 1 => m \in 1 .. len /\ n + m \in i + 1 .. j - 1  OBVIOUS
<1>4. i - n \in 1 .. len /\ m \in (i - n) + 1 .. len => m \in 1 .. len /\ n + m \in i + 1 .. n + len  OBVIOUS
<1> QED  BY <1>1, <1>2, <1>3, <1>4, Zenon

\* What comes after the first n positions is in the second sequence, in the same order.
LEMMA Unshifted ==
  ASSUME NEW n \in Nat, NEW len \in Nat, NEW i \in 1 .. n + len, NEW j \in 1 .. n + len, i > n, i < j
  PROVE  i \in Int /\ j \in Int /\ j > n /\ i - n \in 1 .. len /\ j - n \in 1 .. len /\ i - n < j - n
OBVIOUS

LEMMA ClosedConcat ==
  ASSUME NEW r, NEW a, NEW b, Closed(a, r), Closed(b, r)
  PROVE  Closed(a \o b, r)
<1> DEFINE c == a \o b  n == Len(a)
<1>1. /\ a \in Seq(Steps) /\ b \in Seq(Steps) /\ n \in Nat /\ Len(b) \in Nat
      /\ c \in Seq(Steps) /\ Len(c) = n + Len(b)
      /\ \A i \in 1 .. n : c[i] = a[i]
      /\ \A i \in 1 .. Len(b) : c[n + i] = b[i]
  BY ConcatFacts DEF Closed, WellNested
<1> HIDE DEF c, n
<1>2. ASSUME NEW i \in 1 .. Len(c), i > n PROVE i - n \in 1 .. Len(b) /\ c[i] = b[i - n]
  <2>1. i - n \in 1 .. Len(b) /\ n + (i - n) = i  BY <1>1, <1>2
  <2> QED  BY <1>1, <2>1, Zenon
<1>3. GivesBack(c)
  <2> SUFFICES ASSUME NEW i \in 1 .. Len(c), c[i].op = "lock"
               PROVE  \E j \in i + 1 .. Len(c) :
                        /\ c[j] = [op |-> "unlock", lock |-> c[i].lock]
                        /\ \A m \in i + 1 .. j - 1 : c[m].lock # c[i].lock
    BY Zenon DEF GivesBack
  <2>1. CASE i <= n
    <3>1. i \in 1 .. n /\ c[i] = a[i]  BY <1>1, <2>1
    <3>2. PICK j \in i + 1 .. n :
            a[j] = [op |-> "unlock", lock |-> a[i].lock] /\ \A m \in i + 1 .. j - 1 : a[m].lock # a[i].lock
      BY <3>1, Zenon DEF Closed, WellNested, GivesBack, n
    <3>3. j \in i + 1 .. Len(c) /\ c[j] = a[j] /\ \A m \in i + 1 .. j - 1 : c[m] = a[m]  BY <1>1
    <3> QED  BY <3>1, <3>2, <3>3, ZenonT(60)
  <2>2. CASE i > n
    <3>1. i - n \in 1 .. Len(b) /\ c[i] = b[i - n]  BY <1>2, <2>2, Zenon
    <3>2. PICK j \in (i - n) + 1 .. Len(b) :
            /\ b[j] = [op |-> "unlock", lock |-> b[i - n].lock]
            /\ \A m \in (i - n) + 1 .. j - 1 : b[m].lock # b[i - n].lock
      BY <3>1, Zenon DEF Closed, WellNested, GivesBack
    <3>3. n + j \in i + 1 .. Len(c) /\ c[n + j] = b[j]
      <4>1. j \in 1 .. Len(b) /\ n + j \in i + 1 .. Len(c)
        <5>1. n \in Nat /\ Len(b) \in Nat /\ Len(c) = n + Len(b)  BY <1>1, Zenon
        <5>2. i \in Int /\ i - n \in 1 .. Len(b)  BY ONLY <3>1, i \in 1 .. Len(c), SMT
        <5> QED  BY <5>1, <5>2, Shifted, Zenon
      <4>2. c[n + j] = b[j]  BY <1>1, <4>1, Zenon
      <4> QED  BY <4>1, <4>2, Zenon
    <3>4. ASSUME NEW m \in i + 1 .. (n + j) - 1 PROVE c[m].lock # c[i].lock
      <4>0. i \in Int /\ n \in Nat /\ j \in Int /\ m \in Int /\ n + j <= Len(c) /\ Len(c) \in Int
        BY <1>1, <3>3
      <4>1. m \in 1 .. Len(c) /\ m > n /\ m - n \in (i - n) + 1 .. j - 1  BY <2>2, <4>0
      <4>2. c[m] = b[m - n]  BY <1>2, <4>1, Zenon
      <4> QED  BY <3>1, <3>2, <4>1, <4>2, Zenon
    <3> QED  BY <3>1, <3>2, <3>3, <3>4, SMTT(60)
  <2>3. i <= n \/ i > n  BY <1>1
  <2> QED  BY <2>1, <2>2, <2>3, Zenon
\* What is given back in b was taken in b.
<1>4. ASSUME NEW j \in 1 .. Len(c), c[j].op = "unlock", j > n
      PROVE  \E m \in n + 1 .. j - 1 : c[m].lock = c[j].lock
  <2>1. j - n \in 1 .. Len(b) /\ c[j] = b[j - n]  BY <1>2, <1>4, Zenon
  <2>2. PICK m \in 1 .. (j - n) - 1 : b[m].lock = b[j - n].lock  BY <1>4, <2>1, TakenBefore, Zenon DEF Closed, WellNested
  <2>3. n \in Nat /\ Len(b) \in Nat /\ \A l \in 1 .. Len(b) : c[n + l] = b[l]  BY <1>1, Zenon
  <2>4. m \in 1 .. Len(b) /\ n + m \in n + 1 .. j - 1
    <3>1. n \in Nat /\ Len(b) \in Nat  BY <2>3, Zenon
    <3>2. j \in Int  BY ONLY j \in 1 .. Len(c), SMT
    <3> QED  BY <2>1, <3>1, <3>2, Shifted, Zenon
  <2>5. c[n + m] = b[m]  BY <2>3, <2>4, Zenon
  <2> QED  BY <2>1, <2>2, <2>4, <2>5, Zenon
<1>5. GivesOnce(c)
  <2> SUFFICES ASSUME NEW i \in 1 .. Len(c), NEW j \in 1 .. Len(c), i < j, c[i].op = "unlock", c[j] = c[i]
               PROVE  \E m \in i + 1 .. j - 1 : c[m].lock = c[i].lock
    BY Zenon DEF GivesOnce
  <2>1. CASE j <= n
    <3>1. i \in 1 .. n /\ j \in 1 .. n /\ c[i] = a[i] /\ c[j] = a[j]  BY <1>1, <2>1
    <3>2. PICK m \in i + 1 .. j - 1 : a[m].lock = a[i].lock  BY <3>1, ZenonT(60) DEF Closed, WellNested, GivesOnce, n
    <3>0. n \in Nat  BY <1>1, Zenon
    <3>3. m \in 1 .. n  BY ONLY <3>0, <3>1, m \in i + 1 .. j - 1, SMT
    <3>4. c[m] = a[m]  BY <1>1, <3>3, Zenon
    <3> QED  BY <3>1, <3>2, <3>4, Zenon
  <2>2. CASE i > n
    <3>1. /\ i - n \in 1 .. Len(b) /\ c[i] = b[i - n] /\ j - n \in 1 .. Len(b) /\ c[j] = b[j - n]
          /\ i - n < j - n /\ i \in Int /\ j \in Int
      <4>1. n \in Nat /\ Len(b) \in Nat /\ i \in 1 .. n + Len(b) /\ j \in 1 .. n + Len(b)  BY <1>1, Zenon
      <4>2. i \in Int /\ j \in Int /\ j > n /\ i - n < j - n  BY <2>2, <4>1, Unshifted, Zenon
      <4> QED  BY <1>2, <2>2, <4>2, Zenon
    <3>2. PICK m \in (i - n) + 1 .. (j - n) - 1 : b[m].lock = b[i - n].lock
      <4>1. b[i - n].op = "unlock" /\ b[j - n] = b[i - n]  BY <3>1, Zenon
      <4> QED  BY <3>1, <4>1, ZenonT(60) DEF Closed, WellNested, GivesOnce
    <3>3. n \in Nat /\ Len(b) \in Nat /\ \A l \in 1 .. Len(b) : c[n + l] = b[l]  BY <1>1, Zenon
    <3>4. m \in 1 .. Len(b) /\ n + m \in i + 1 .. j - 1
      <4>1. n \in Nat /\ Len(b) \in Nat  BY <3>3, Zenon
      <4> QED  BY <3>1, <4>1, Shifted, Zenon
    <3>5. c[n + m] = b[m]  BY <3>3, <3>4, Zenon
    <3> QED  BY <3>1, <3>2, <3>4, <3>5, Zenon
  <2>3. CASE i <= n /\ j > n
    <3>1. PICK m \in n + 1 .. j - 1 : c[m].lock = c[j].lock  BY <1>4, <2>3, Zenon
    <3> QED  BY <1>1, <2>3, <3>1
  <2> QED  BY <1>1, <2>1, <2>2, <2>3
<1>6. InOrder(c)
  <2> SUFFICES ASSUME NEW i \in 1 .. Len(c), NEW j \in 1 .. Len(c),
                      i < j, c[i].op = "lock", c[j].op = "unlock",
                      \A m \in i .. j - 1 : c[m].lock # c[j].lock
               PROVE  Rank(c[j].lock) < Rank(c[i].lock)
    BY Zenon DEF InOrder
  <2>1. CASE j <= n
    <3>1. i \in 1 .. n /\ j \in 1 .. n /\ c[i] = a[i] /\ c[j] = a[j]  BY <1>1, <2>1
    <3>2. \A m \in i .. j - 1 : a[m].lock # a[j].lock  BY <1>1, <3>1
    <3> QED  BY <3>1, <3>2, Zenon DEF Closed, WellNested, InOrder, n
  <2>2. CASE i > n
    <3>1. /\ i - n \in 1 .. Len(b) /\ c[i] = b[i - n] /\ j - n \in 1 .. Len(b) /\ c[j] = b[j - n]
          /\ i - n < j - n /\ i \in Int /\ j \in Int
      <4>1. n \in Nat /\ Len(b) \in Nat /\ i \in 1 .. n + Len(b) /\ j \in 1 .. n + Len(b)  BY <1>1, Zenon
      <4>2. i \in Int /\ j \in Int /\ j > n /\ i - n < j - n  BY <2>2, <4>1, Unshifted, Zenon
      <4> QED  BY <1>2, <2>2, <4>2, Zenon
    <3>2. ASSUME NEW m \in i - n .. (j - n) - 1 PROVE b[m].lock # b[j - n].lock
      <4>0. n \in Nat /\ Len(b) \in Nat  BY <1>1, Zenon
      <4>1. m \in 1 .. Len(b) /\ n + m \in i .. j - 1  BY <3>1, <4>0, Shifted, Zenon
      <4>2. c[n + m] = b[m]  BY <1>1, <4>1, Zenon
      <4> QED  BY <3>1, <4>1, <4>2, Zenon
    <3> QED  BY <3>1, <3>2, Zenon DEF Closed, WellNested, InOrder
  <2>3. CASE i <= n /\ j > n
    <3>1. PICK m \in n + 1 .. j - 1 : c[m].lock = c[j].lock  BY <1>4, <2>3, Zenon
    <3> QED  BY <1>1, <2>3, <3>1
  <2> QED  BY <1>1, <2>1, <2>2, <2>3
<1>7. Holds(c) = {}
  <2> SUFFICES ASSUME NEW j \in 1 .. Len(c), c[j].op = "unlock"
               PROVE  \E m \in 1 .. j - 1 : c[m].lock = c[j].lock
    BY DEF Holds
  <2>1. CASE j <= n
    <3>1. j \in 1 .. n /\ c[j] = a[j]  BY <1>1, <2>1
    <3>2. PICK m \in 1 .. j - 1 : a[m].lock = a[j].lock
      BY <3>1, TakenBefore, Zenon DEF Closed, WellNested, n
    <3>3. m \in 1 .. n /\ c[m] = a[m]  BY <1>1, <3>1
    <3> QED  BY <3>1, <3>2, <3>3, Zenon
  <2>2. CASE j > n
    <3>1. PICK m \in n + 1 .. j - 1 : c[m].lock = c[j].lock  BY <1>4, <2>2, Zenon
    <3> QED  BY <1>1, <3>1
  <2>3. j <= n \/ j > n  BY <1>1
  <2> QED  BY <2>1, <2>2, <2>3, Zenon
<1>8. ASSUME NEW i \in 1 .. Len(c) PROVE Rank(c[i].lock) > r
  <2>1. CASE i <= n
    <3>0. n \in Nat  BY <1>1, Zenon
    <3>1. i \in 1 .. n  BY ONLY <2>1, <3>0, i \in 1 .. Len(c), SMT
    <3> QED  BY <1>1, <3>1, Zenon DEF Closed, n
  <2>2. CASE i > n  BY <1>2, <2>2, Zenon DEF Closed
  <2> QED  BY <1>1, <2>1, <2>2
<1> QED  BY <1>1, <1>3, <1>5, <1>6, <1>7, <1>8, Zenon DEF Closed, WellNested, c

\* A critical section that takes only locks of a higher rank than its own.
LEMMA ClosedWith ==
  ASSUME NEW r \in Int, NEW l \in Spinlocks, NEW s, Closed(s, Rank(l)), Rank(l) > r
  PROVE  Closed(With(l, s), r)
<1> DEFINE c == With(l, s)  n == Len(s)
           up == [op |-> "lock", lock |-> l]  down == [op |-> "unlock", lock |-> l]
<1>0. Rank(l) \in Int  BY DEF Rank
<1>1. /\ s \in Seq(Steps) /\ n \in Nat /\ c \in Seq(Steps) /\ Len(c) = n + 2
      /\ c[1] = up /\ c[n + 2] = down
      /\ \A i \in 1 .. n : c[i + 1] = s[i]
  <2>1. s \in Seq(Steps) /\ n \in Nat  BY DEF Closed, WellNested
  <2>2. Lock(l) \in Seq(Steps) /\ Len(Lock(l)) = 1 /\ Lock(l)[1] = up  BY DEF Lock, Steps
  <2>3. Unlock(l) \in Seq(Steps) /\ Len(Unlock(l)) = 1 /\ Unlock(l)[1] = down  BY DEF Unlock, Steps
  <2> DEFINE before == Lock(l)  front == before \o s  after == Unlock(l)
  <2> HIDE DEF up, down, before, after
  <2>4. /\ front \in Seq(Steps) /\ Len(front) = 1 + n /\ front[1] = up
        /\ \A i \in 1 .. n : front[1 + i] = s[i]
    <3>1. /\ front \in Seq(Steps) /\ Len(front) = Len(before) + Len(s)
          /\ \A i \in 1 .. Len(before) : front[i] = before[i]
          /\ \A i \in 1 .. Len(s) : front[Len(before) + i] = s[i]
      BY <2>1, <2>2, ConcatFacts, Zenon DEF before
    <3>2. before[1] = up /\ Len(before) = 1 /\ 1 \in 1 .. 1  BY <2>2 DEF before
    <3> QED  BY <3>1, <3>2, Zenon DEF n
  <2> HIDE DEF front
  <2>5. /\ front \o after \in Seq(Steps) /\ Len(front \o after) = (1 + n) + 1
        /\ \A i \in 1 .. 1 + n : (front \o after)[i] = front[i]
        /\ (front \o after)[(1 + n) + 1] = down
    <3>1. /\ front \o after \in Seq(Steps) /\ Len(front \o after) = Len(front) + Len(after)
          /\ \A i \in 1 .. Len(front) : (front \o after)[i] = front[i]
          /\ \A i \in 1 .. Len(after) : (front \o after)[Len(front) + i] = after[i]
      BY <2>3, <2>4, ConcatFacts, Zenon DEF after
    <3>2. after[1] = down /\ Len(after) = 1 /\ 1 \in 1 .. 1  BY <2>3 DEF after
    <3> QED  BY <2>4, <3>1, <3>2, Zenon
  <2>6. c = front \o after  BY Zenon DEF c, With, front, before, after
  <2> HIDE DEF c
  <2>7. \A i \in 1 .. n : i + 1 \in 1 .. 1 + n /\ i + 1 = 1 + i  BY <2>1
  <2>8. 1 \in 1 .. 1 + n /\ n + 2 = (1 + n) + 1  BY <2>1
  <2> QED  BY <2>1, <2>4, <2>5, <2>6, <2>7, <2>8, ZenonT(60)
<1> HIDE DEF c, n
<1>2. ASSUME NEW i \in 1 .. Len(c), i # 1, i # n + 2
      PROVE  /\ i - 1 \in 1 .. n /\ c[i] = s[i - 1]
             /\ c[i].lock # l /\ Rank(l) < Rank(c[i].lock)
  <2>1. i - 1 \in 1 .. n /\ (i - 1) + 1 = i  BY <1>1, <1>2
  <2>2. c[i] = s[i - 1]  BY <1>1, <2>1, Zenon
  <2>3. Rank(l) < Rank(s[i - 1].lock)  BY <2>1, Zenon DEF Closed, n
  <2> QED  BY <1>0, <2>1, <2>2, <2>3
<1>3. GivesBack(c)
  <2> SUFFICES ASSUME NEW i \in 1 .. Len(c), c[i].op = "lock"
               PROVE  \E j \in i + 1 .. Len(c) :
                        /\ c[j] = [op |-> "unlock", lock |-> c[i].lock]
                        /\ \A m \in i + 1 .. j - 1 : c[m].lock # c[i].lock
    BY Zenon DEF GivesBack
  <2>1. CASE i = 1
    <3>1. n + 2 \in i + 1 .. Len(c) /\ c[i].lock = l /\ c[n + 2] = [op |-> "unlock", lock |-> l]
      BY <1>1, <2>1
    <3>2. \A m \in i + 1 .. (n + 2) - 1 : m \in 1 .. Len(c) /\ m # 1 /\ m # n + 2  BY <1>1, <2>1
    <3> QED  BY <1>2, <3>1, <3>2, Zenon
  <2>2. CASE i # 1
    <3>1. i # n + 2  BY <1>1
    <3>2. i - 1 \in 1 .. n /\ c[i] = s[i - 1]  BY <1>2, <2>2, <3>1, Zenon
    <3>3. PICK j \in (i - 1) + 1 .. n :
            /\ s[j] = [op |-> "unlock", lock |-> s[i - 1].lock]
            /\ \A m \in (i - 1) + 1 .. j - 1 : s[m].lock # s[i - 1].lock
      BY <3>2, Zenon DEF Closed, WellNested, GivesBack, n
    <3>4. j + 1 \in i + 1 .. Len(c) /\ c[j + 1] = s[j]  BY <1>1, <3>2
    <3>5. ASSUME NEW m \in i + 1 .. (j + 1) - 1 PROVE c[m].lock # c[i].lock
      <4>1. m - 1 \in (i - 1) + 1 .. j - 1 /\ m - 1 \in 1 .. n /\ (m - 1) + 1 = m  BY <1>1, <3>2
      <4>2. c[m] = s[m - 1]  BY <1>1, <4>1, Zenon
      <4> QED  BY <3>2, <3>3, <4>1, <4>2, Zenon
    <3> QED  BY <3>2, <3>3, <3>4, <3>5, Zenon
  <2> QED  BY <2>1, <2>2, Zenon
\* What is given back inside was taken inside.
<1>4. ASSUME NEW j \in 1 .. Len(c), c[j].op = "unlock", j # n + 2
      PROVE  j - 1 \in 1 .. n /\ c[j] = s[j - 1] /\ \E m \in 2 .. j - 1 : c[m].lock = c[j].lock
  <2>1. j # 1  BY <1>1, <1>4
  <2>2. j - 1 \in 1 .. n /\ c[j] = s[j - 1]  BY <1>2, <1>4, <2>1, Zenon
  <2>3. PICK m \in 1 .. (j - 1) - 1 : s[m].lock = s[j - 1].lock
    BY <1>4, <2>2, TakenBefore, Zenon DEF Closed, WellNested, n
  <2>4. m + 1 \in 2 .. j - 1 /\ c[m + 1] = s[m]  BY <1>1, <2>2
  <2> QED  BY <2>2, <2>3, <2>4, Zenon
<1>5. GivesOnce(c)
  <2> SUFFICES ASSUME NEW i \in 1 .. Len(c), NEW j \in 1 .. Len(c), i < j, c[i].op = "unlock", c[j] = c[i]
               PROVE  \E m \in i + 1 .. j - 1 : c[m].lock = c[i].lock
    BY Zenon DEF GivesOnce
  <2>1. i # 1 /\ i # n + 2  BY <1>1
  <2>2. i - 1 \in 1 .. n /\ c[i] = s[i - 1] /\ c[i].lock # l  BY <1>2, <2>1, Zenon
  <2>3. j # n + 2
    <3>1. c[n + 2].lock = l  BY <1>1
    <3> QED  BY <2>2, <3>1, Zenon
  <2>4. j - 1 \in 1 .. n /\ c[j] = s[j - 1]  BY <1>4, <2>3, Zenon
  <2>5. i - 1 < j - 1  BY <1>1
  <2>6. PICK m \in (i - 1) + 1 .. (j - 1) - 1 : s[m].lock = s[i - 1].lock
    <3>1. s[i - 1].op = "unlock" /\ s[j - 1] = s[i - 1]  BY <2>2, <2>4, Zenon
    <3> QED  BY <2>2, <2>4, <2>5, <3>1, ZenonT(60) DEF Closed, WellNested, GivesOnce, n
  <2>7. m + 1 \in i + 1 .. j - 1 /\ c[m + 1] = s[m]  BY <1>1, <2>2, <2>4
  <2> QED  BY <2>2, <2>6, <2>7, Zenon
<1>6. InOrder(c)
  <2> SUFFICES ASSUME NEW i \in 1 .. Len(c), NEW j \in 1 .. Len(c),
                      i < j, c[i].op = "lock", c[j].op = "unlock",
                      \A m \in i .. j - 1 : c[m].lock # c[j].lock
               PROVE  Rank(c[j].lock) < Rank(c[i].lock)
    BY Zenon DEF InOrder
  <2>1. i # n + 2  BY <1>1
  <2>2. CASE j = n + 2
    <3>1. c[j].lock = l /\ i \in i .. j - 1  BY <1>1, <2>2
    <3>2. i # 1  BY <1>1, <3>1
    <3> QED  BY <1>2, <2>1, <3>1, <3>2, Zenon
  <2>3. CASE j # n + 2
    <3>1. j - 1 \in 1 .. n /\ c[j] = s[j - 1]  BY <1>4, <2>3, Zenon
    <3>2. PICK m \in 2 .. j - 1 : c[m].lock = c[j].lock  BY <1>4, <2>3, Zenon
    <3>3. i # 1  BY <3>2
    <3>4. i - 1 \in 1 .. n /\ c[i] = s[i - 1] /\ i - 1 < j - 1  BY <1>1, <1>2, <2>1, <3>3
    <3>5. ASSUME NEW k \in i - 1 .. (j - 1) - 1 PROVE s[k].lock # s[j - 1].lock
      <4>1. k + 1 \in i .. j - 1 /\ k \in 1 .. n  BY <1>1, <3>1, <3>4
      <4>2. c[k + 1] = s[k]  BY <1>1, <4>1, Zenon
      <4> QED  BY <3>1, <4>1, <4>2, Zenon
    <3> QED  BY <3>1, <3>4, <3>5, Zenon DEF Closed, WellNested, InOrder, n
  <2> QED  BY <2>2, <2>3, Zenon
<1>7. Holds(c) = {}
  <2> SUFFICES ASSUME NEW j \in 1 .. Len(c), c[j].op = "unlock"
               PROVE  \E m \in 1 .. j - 1 : c[m].lock = c[j].lock
    BY DEF Holds
  <2>1. CASE j = n + 2
    <3>1. 1 \in 1 .. j - 1 /\ c[1].lock = c[j].lock  BY <1>1, <2>1
    <3> QED  BY <3>1, Zenon
  <2>2. CASE j # n + 2
    <3>1. PICK m \in 2 .. j - 1 : c[m].lock = c[j].lock  BY <1>4, <2>2, Zenon
    <3>2. m \in 1 .. j - 1  OBVIOUS
    <3> QED  BY <3>1, <3>2, Zenon
  <2> QED  BY <2>1, <2>2, Zenon
<1>8. ASSUME NEW i \in 1 .. Len(c) PROVE Rank(c[i].lock) > r
  <2>1. CASE i = 1 \/ i = n + 2
    <3>1. c[i].lock = l  BY <1>1, <2>1
    <3> QED  BY <3>1, Zenon
  <2>2. CASE i # 1 /\ i # n + 2
    <3>1. Rank(l) < Rank(c[i].lock)  BY <1>2, <2>2, Zenon
    <3>2. Rank(c[i].lock) \in Int  BY DEF Rank
    <3> QED  BY <1>0, <3>1, <3>2
  <2> QED  BY <2>1, <2>2, Zenon
<1> QED  BY <1>1, <1>3, <1>5, <1>6, <1>7, <1>8, Zenon DEF Closed, WellNested, c

LEMMA ClosedEmpty ==
  ASSUME NEW r
  PROVE  Closed(<<>>, r)
BY DEF Closed, WellNested, GivesBack, GivesOnce, InOrder, Holds

LEMMA ClosedAlone ==
  ASSUME NEW r \in Int, NEW l \in Spinlocks, Rank(l) > r
  PROVE  Closed(Alone(l), r)
BY ClosedEmpty, ClosedWith, Zenon DEF Alone

\* Every operation takes its locks in the order of their ranks and gives them all back.
LEMMA OperationsClosed == \A operation \in Operations : Closed(operation, 0)
<1>1. /\ \A l \in Spinlocks : Rank(l) > 0
      /\ Rank("fs") > Rank("fd") /\ Rank("pmm") > Rank("fs") /\ Rank("net") > Rank("tcp")
      /\ Rank("net") > Rank("udp")
      /\ Rank("fd") \in Int /\ Rank("fs") \in Int /\ Rank("tcp") \in Int /\ Rank("udp") \in Int
  BY DEF Rank
<1>2. {"pmm", "vmm", "proc", "fd", "fs", "irq", "sock", "tcp", "udp", "net"} = Spinlocks  BY Zenon DEF Spinlocks
<1>3. \A l \in Spinlocks : Closed(Alone(l), 0)  BY <1>1, ClosedAlone
<1>4. Closed(FdWrite, 0)
  <2>1. Closed(Kmalloc, Rank("fs"))  BY <1>1, <1>2, ClosedAlone, Zenon DEF Kmalloc
  <2>2. Closed(With("fs", Kmalloc), Rank("fd"))  BY <1>1, <1>2, <2>1, ClosedWith, Zenon
  <2> QED  BY <1>1, <1>2, <2>2, ClosedWith DEF FdWrite
<1>5. Closed(FdClose, 0)
  <2>1. Closed(Alone("fs"), Rank("fd"))  BY <1>1, <1>2, ClosedAlone, Zenon
  <2> QED  BY <1>1, <1>2, <2>1, ClosedWith DEF FdClose
<1>6. Closed(FsOpen, 0)  BY <1>2, <1>3, ClosedConcat, Zenon DEF FsOpen
<1>7. Closed(With("tcp", NoteStats), 0) /\ Closed(With("udp", NoteStats), 0)
  <2>1. Closed(NoteStats, Rank("tcp")) /\ Closed(NoteStats, Rank("udp"))
    BY <1>1, <1>2, ClosedAlone, Zenon DEF NoteStats
  <2> QED  BY <1>1, <1>2, <2>1, ClosedWith
<1>8. Closed(Connect, 0)  BY <1>2, <1>3, <1>7, ClosedConcat, Zenon DEF Connect
<1>9. Closed(SendTo, 0)  BY <1>2, <1>3, <1>7, ClosedConcat, Zenon DEF SendTo, NoteStats
<1>10. Closed(MapPage, 0)  BY <1>2, <1>3, ClosedConcat, Zenon DEF MapPage
<1>11. Closed(ForkCurrent, 0)  BY <1>2, <1>3, ClosedConcat, Zenon DEF ForkCurrent, Kmalloc
<1>12. Closed(RunBottomHalf, 0)  BY <1>2, <1>3, Zenon DEF RunBottomHalf
<1> QED  BY <1>4, <1>5, <1>6, <1>8, <1>9, <1>10, <1>11, <1>12, Zenon DEF Operations

-----------------------------------------------------------------------------
\* What a caller has left to do is well nested, and the locks it must give back are those it owns.
LocksInv ==
  /\ rest \in [Callers -> Seq(Steps)] /\ owner \in [Spinlocks -> Callers \cup {Nobody}]
  /\ \A k \in Callers : WellNested(rest[k])
  /\ \A k \in Callers, l \in Spinlocks : owner[l] = k <=> l \in Holds(rest[k])

LEMMA LocksInitInv == LocksInit => LocksInv
<1> SUFFICES ASSUME LocksInit PROVE LocksInv  BY Zenon
<1>1. \A k \in Callers : rest[k] = <<>>  BY Zenon DEF LocksInit
<1>2. WellNested(<<>>) /\ Holds(<<>>) = {}  BY ClosedEmpty, Zenon DEF Closed
<1>3. rest \in [Callers -> Seq(Steps)]  BY DEF LocksInit
<1>4. owner \in [Spinlocks -> Callers \cup {Nobody}] /\ \A l \in Spinlocks : owner[l] = Nobody  BY Zenon DEF LocksInit
<1> QED  BY <1>1, <1>2, <1>3, <1>4, LocksAssumption, Zenon DEF LocksInv

LEMMA LocksNextInv == LocksInv /\ [LocksNext]_lock_vars => LocksInv'
<1> SUFFICES ASSUME LocksInv, [LocksNext]_lock_vars PROVE LocksInv'  BY Zenon
<1>1. ASSUME NEW k \in Callers, Start(k) PROVE LocksInv'
  <2>1. PICK operation \in Operations : rest' = [rest EXCEPT ![k] = operation]  BY <1>1, Zenon DEF Start
  <2>2. rest[k] = <<>> /\ owner' = owner  BY <1>1, Zenon DEF Start
  <2>3. WellNested(operation) /\ Holds(operation) = {}  BY OperationsClosed, Zenon DEF Closed
  <2>4. Holds(rest[k]) = {}  BY <2>2, ClosedEmpty, Zenon DEF Closed
  <2>5. rest' \in [Callers -> Seq(Steps)]  BY <2>1, <2>3, Zenon DEF LocksInv, WellNested
  <2>6. rest'[k] = operation /\ \A k2 \in Callers : k2 # k => rest'[k2] = rest[k2]  BY <2>1, ZenonT(60) DEF LocksInv
  <2>7. \A k2 \in Callers : WellNested(rest'[k2]) /\ Holds(rest'[k2]) = Holds(rest[k2])
    BY <2>3, <2>4, <2>6, Zenon DEF LocksInv
  <2> QED  BY <2>2, <2>5, <2>7, Zenon DEF LocksInv
<1>2. ASSUME NEW k \in Callers, rest[k] # <<>>, rest' = [rest EXCEPT ![k] = Tail(rest[k])]
      PROVE  /\ rest' \in [Callers -> Seq(Steps)] /\ rest'[k] = Tail(rest[k])
             /\ \A k2 \in Callers : k2 # k => rest'[k2] = rest[k2]
             /\ \A k2 \in Callers : WellNested(rest'[k2])
  <2>1. WellNested(Tail(rest[k]))  BY <1>2, TailNested, Zenon DEF LocksInv
  <2>2. Tail(rest[k]) \in Seq(Steps)  BY <2>1, Zenon DEF WellNested
  <2> QED  BY <1>2, <2>1, <2>2, Zenon DEF LocksInv
<1>3. ASSUME NEW k \in Callers, NEW l \in Spinlocks, Acquire(k, l) PROVE LocksInv'
  <2>1. /\ rest[k] # <<>> /\ Head(rest[k]) = [op |-> "lock", lock |-> l]
        /\ owner[l] = Nobody /\ owner' = [owner EXCEPT ![l] = k]
        /\ rest' = [rest EXCEPT ![k] = Tail(rest[k])]
    BY <1>3, Zenon DEF Acquire, Wants, TryLock
  <2>2. Head(rest[k]).op = "lock" /\ Head(rest[k]).lock = l  BY <2>1
  <2>3. Holds(Tail(rest[k])) = Holds(rest[k]) \cup {l}
    BY <2>1, <2>2, HoldsAfter, Zenon DEF LocksInv
  <2>4. owner'[l] = k /\ \A l2 \in Spinlocks : l2 # l => owner'[l2] = owner[l2]
    BY <2>1, ZenonT(60) DEF LocksInv
  <2>5. owner' \in [Spinlocks -> Callers \cup {Nobody}]  BY <2>1, Zenon DEF LocksInv
  <2>6. ASSUME NEW k2 \in Callers, NEW l2 \in Spinlocks
        PROVE  owner'[l2] = k2 <=> l2 \in Holds(rest'[k2])
    <3>1. owner[l2] = k2 <=> l2 \in Holds(rest[k2])  BY Zenon DEF LocksInv
    <3>2. owner[l] # k2  BY <2>1, LocksAssumption, Zenon
    <3>3. k2 = k => rest'[k2] = Tail(rest[k])  BY <1>2, <2>1, Zenon
    <3>4. k2 # k => rest'[k2] = rest[k2]  BY <1>2, <2>1, Zenon
    <3> QED  BY <2>3, <2>4, <3>1, <3>2, <3>3, <3>4, Zenon
  <2> QED  BY <1>2, <2>1, <2>5, <2>6, Zenon DEF LocksInv
<1>4. ASSUME NEW k \in Callers, NEW l \in Spinlocks, Release(k, l) PROVE LocksInv'
  <2>1. /\ rest[k] # <<>> /\ Head(rest[k]) = [op |-> "unlock", lock |-> l]
        /\ owner' = [owner EXCEPT ![l] = Nobody]
        /\ rest' = [rest EXCEPT ![k] = Tail(rest[k])]
    BY <1>4, Zenon DEF Release
  <2>2. Head(rest[k]).op = "unlock" /\ Head(rest[k]).lock = l  BY <2>1
  <2>3. Holds(Tail(rest[k])) = Holds(rest[k]) \ {l} /\ l \in Holds(rest[k])
    BY <2>1, <2>2, HoldsAfter, Zenon DEF LocksInv
  <2>4. owner'[l] = Nobody /\ \A l2 \in Spinlocks : l2 # l => owner'[l2] = owner[l2]
    BY <2>1 DEF LocksInv
  <2>5. owner' \in [Spinlocks -> Callers \cup {Nobody}]  BY <2>1, Zenon DEF LocksInv
  <2>6. ASSUME NEW k2 \in Callers, NEW l2 \in Spinlocks
        PROVE  owner'[l2] = k2 <=> l2 \in Holds(rest'[k2])
    <3>1. owner[l2] = k2 <=> l2 \in Holds(rest[k2])  BY Zenon DEF LocksInv
    <3>2. owner[l] = k  BY <2>3, Zenon DEF LocksInv
    <3>3. k2 = k => rest'[k2] = Tail(rest[k])  BY <1>2, <2>1, Zenon
    <3>4. k2 # k => rest'[k2] = rest[k2]  BY <1>2, <2>1, Zenon
    <3>5. k2 # Nobody  BY LocksAssumption, Zenon
    <3> QED  BY <2>3, <2>4, <3>1, <3>2, <3>3, <3>4, <3>5
  <2> QED  BY <1>2, <2>1, <2>5, <2>6, Zenon DEF LocksInv
<1>5. CASE UNCHANGED lock_vars  BY <1>5, Zenon DEF LocksInv, lock_vars
<1> QED  BY <1>1, <1>3, <1>4, <1>5, Zenon DEF LocksNext

\* A caller that waits for a lock waits for one of a higher rank than any lock it holds.
LEMMA WaitsUpwards ==
  ASSUME LocksInv, NEW k \in Callers, NEW l \in Spinlocks, Wants(k, l),
         NEW held \in Spinlocks, owner[held] = k
  PROVE  Rank(held) < Rank(l)
<1> DEFINE s == rest[k]
<1>1. s \in Seq(Steps) /\ InOrder(s) /\ held \in Holds(s)  BY Zenon DEF LocksInv, WellNested
<1>2. s # <<>> /\ Head(s) = [op |-> "lock", lock |-> l]  BY Zenon DEF Wants
<1> HIDE DEF s
<1>3. 1 \in 1 .. Len(s) /\ s[1] = [op |-> "lock", lock |-> l]  BY <1>1, <1>2
<1>4. PICK j \in 1 .. Len(s) :
        s[j] = [op |-> "unlock", lock |-> held] /\ \A m \in 1 .. j - 1 : s[m].lock # held
  BY <1>1, Zenon DEF Holds
<1>5. s[1].op = "lock" /\ s[j].op = "unlock" /\ s[1].lock = l /\ s[j].lock = held  BY <1>3, <1>4
<1>6. j # 1  BY <1>5, Zenon
<1>7. 1 < j  BY <1>1, <1>6
<1> QED  BY <1>1, <1>3, <1>4, <1>5, <1>7, Zenon DEF InOrder

LEMMA NoCircularWaitFromInv == LocksInv => NoCircularWait
<1> SUFFICES ASSUME LocksInv, NEW S \in SUBSET Callers, S # {},
                    \A k \in S : \E l \in Spinlocks : Wants(k, l) /\ owner[l] \in S
             PROVE  FALSE
  BY Zenon DEF NoCircularWait
<1>1. \A l \in Spinlocks : Rank(l) \in 1 .. 3  BY DEF Rank
\* From a member that waits for l, another one that waits for a lock of a higher rank.
<1>2. ASSUME NEW k \in S, NEW l \in Spinlocks, Wants(k, l), owner[l] \in S
      PROVE  \E k2 \in S, l2 \in Spinlocks : Wants(k2, l2) /\ owner[l2] \in S /\ Rank(l) < Rank(l2)
  <2>1. PICK l2 \in Spinlocks : Wants(owner[l], l2) /\ owner[l2] \in S  BY <1>2, Zenon
  <2>2. Rank(l) < Rank(l2)  BY <1>2, <2>1, WaitsUpwards, Zenon
  <2> QED  BY <1>2, <2>1, <2>2, Zenon
<1> DEFINE Waiting(l) == \E k \in S : Wants(k, l) /\ owner[l] \in S
<1>3. \A l \in Spinlocks : Waiting(l) => \E l2 \in Spinlocks : Waiting(l2) /\ Rank(l) < Rank(l2)
  BY <1>2, Zenon
<1>4. \E l \in Spinlocks : Waiting(l)  BY Zenon
<1> HIDE DEF Waiting
<1>5. \A l \in Spinlocks : Waiting(l) => Rank(l) # 3  BY <1>1, <1>3
<1>6. \A l \in Spinlocks : Waiting(l) => Rank(l) # 2  BY <1>1, <1>3, <1>5
<1>7. \A l \in Spinlocks : Waiting(l) => Rank(l) # 1  BY <1>1, <1>3, <1>5, <1>6
<1> QED  BY <1>1, <1>4, <1>5, <1>6, <1>7

\* However many callers run the kernel's operations, no set of them ever waits in a circle, and
\* none waits for a lock it holds itself: every operation nests its spinlocks by rank, subsystem
\* locks first, then fs_lock or the statistics lock, then the page allocator's.
THEOREM LocksSafe == LocksSpec => []NoCircularWait
<1>1. LocksInv /\ [LocksNext]_lock_vars => LocksInv'  BY LocksNextInv, Zenon
<1> QED  BY LocksInitInv, <1>1, NoCircularWaitFromInv, PTL DEF LocksSpec

-----------------------------------------------------------------------------
(* Sched *)

\* A task that exits is a zombie only until it yields: sched_yield makes it
\* RUNNABLE.
OnlyCurrentIsZombie == \A t \in Tasks : state[t] = "ZOMBIE" => t = current

\* The invariants need one another: a task that is left is switchable
\* because the processor was running it, and what is resumed is the task itself
\* because every saved context is its task's own.
SchedInv == TypeOK /\ CurrentRuns /\ OnlyCurrentIsZombie /\ RunnableIsSwitchable /\ CpuRunsCurrent

\* What the rest of sched_yield needs to know of sched_pick_next: the task it
\* returns is the current one, or another that is runnable and has a stack.
LEMMA PickNextReturns ==
  ASSUME SchedInv, NEW next \in Tasks, PickNext(next), next # current
  PROVE  state[next] = "RUNNABLE" /\ saved[next] \in {next, Bare}
<1>1. next \in Candidates
  BY Zenon DEF PickNext
<1>2. next \in Ready({"RUNNABLE", "RUNNING"})
  BY <1>1, Zenon DEF Candidates, CfsPick, RrPick, LeastRun, Ready
<1>3. state[next] \in {"RUNNABLE", "RUNNING"} /\ Switchable(next)
  BY <1>2, Zenon DEF Ready
<1>4. state[next] = "RUNNABLE"
  BY <1>3, Zenon DEF SchedInv, CurrentRuns
<1>. QED
  BY <1>3, <1>4, Zenon DEF Switchable, SchedInv, CpuRunsCurrent

LEMMA PickNextCursor ==
  ASSUME TypeOK, NEW next \in Tasks, PickNext(next)
  PROVE  rr_cursor' \in Tasks
<1>1. (next + 1) % NTasks \in Tasks
  BY SlotsAssumption, SchedAssumption DEF Tasks
<1>. QED
  BY <1>1, Zenon DEF PickNext, TypeOK

LEMMA YieldStep == ASSUME SchedInv, Yield PROVE SchedInv'
<1>1. PICK next \in Tasks :
        /\ PickNext(next)
        /\ IF next = current
           THEN UNCHANGED <<state, saved, current, cpu>>
           ELSE /\ state' = Handover(next)
                /\ current' = next
                /\ ContextSwitch(next)
  BY Zenon DEF Yield
<1>2. cpu = current /\ saved[current] # Bare /\ rr_cursor' \in Tasks
  BY <1>1, PickNextCursor, Zenon DEF Yield, SchedInv, CpuRunsCurrent
<1>3. CASE next = current
  BY <1>1, <1>2, <1>3, Zenon DEF Yield, SchedInv, TypeOK, CurrentRuns, OnlyCurrentIsZombie,
     RunnableIsSwitchable, CpuRunsCurrent, Switchable
<1>4. CASE next # current
  <2>1. state[next] = "RUNNABLE" /\ saved[next] \in {next, Bare}
    BY <1>1, <1>4, PickNextReturns, Zenon
  <2>2. /\ state' = [state EXCEPT ![current] = "RUNNABLE", ![next] = "RUNNING"]
        /\ current' = next
        /\ saved' = [saved EXCEPT ![current] = current]
        /\ cpu' = IF saved[next] = Bare THEN Lost ELSE next
    BY <1>1, <1>2, <1>4, <2>1, Zenon DEF ContextSwitch, Handover
  <2>3. TypeOK'
    BY <1>2, <2>2, Zenon DEF SchedInv, TypeOK, Yield
  <2>4. /\ state'[next] = "RUNNING" /\ state'[current] = "RUNNABLE"
        /\ saved'[current] = current
        /\ \A t \in Tasks \ {next, current} : state'[t] = state[t] /\ saved'[t] = saved[t]
        /\ saved'[next] = saved[next]
    BY <1>4, <2>2, Zenon DEF SchedInv, TypeOK
  <2>5. CurrentRuns' /\ OnlyCurrentIsZombie'
    BY <2>2, <2>4, Zenon DEF SchedInv, CurrentRuns, OnlyCurrentIsZombie
  <2>6. current \in Tasks /\ current # Null
    BY SlotsAssumption, SchedAssumption DEF SchedInv, TypeOK, Tasks, Null
  <2>7. RunnableIsSwitchable'
    BY <2>2, <2>4, <2>6, ZenonT(60) DEF SchedInv, RunnableIsSwitchable, Switchable
  <2>8. CpuRunsCurrent'
    BY <2>1, <2>2, <2>4, Zenon DEF SchedInv, CpuRunsCurrent
  <2>. QED
    BY <2>3, <2>5, <2>7, <2>8, Zenon DEF SchedInv
<1>. QED
  BY <1>3, <1>4, Zenon

\* A new task, made by task_create_kernel_thread or by proc_fork_current.
LEMMA NewTaskStep ==
  ASSUME SchedInv, NEW c \in FreeSlot, NEW frame \in {c, Bare},
         state' = [state EXCEPT ![c] = "RUNNABLE"],
         saved' = [saved EXCEPT ![c] = frame],
         UNCHANGED <<current, cpu, rr_cursor, policy>>
  PROVE  SchedInv'
<1>1. c \in Tasks /\ state[c] = "UNUSED" /\ c # current
  BY Zenon DEF FreeSlot, SchedInv, CurrentRuns
<1>2. TypeOK'
  BY <1>1, Zenon DEF SchedInv, TypeOK
<1>3. /\ state'[c] = "RUNNABLE" /\ saved'[c] = frame
      /\ \A t \in Tasks \ {c} : state'[t] = state[t] /\ saved'[t] = saved[t]
  BY <1>1, Zenon DEF SchedInv, TypeOK
<1>4. frame # Null
  BY <1>1, SlotsAssumption, SchedAssumption DEF Tasks, Null, Bare
<1>5. CurrentRuns' /\ OnlyCurrentIsZombie'
  BY <1>1, <1>3, Zenon DEF SchedInv, TypeOK, CurrentRuns, OnlyCurrentIsZombie
<1>6. RunnableIsSwitchable'
  BY <1>3, <1>4, Zenon DEF SchedInv, RunnableIsSwitchable, Switchable
<1>7. current \in Tasks /\ saved'[current] = saved[current]
  BY <1>1, <1>3, Zenon DEF SchedInv, TypeOK
<1>8. CpuRunsCurrent'
  BY <1>3, <1>7, Zenon DEF SchedInv, CpuRunsCurrent
<1>. QED
  BY <1>2, <1>5, <1>6, <1>8, Zenon DEF SchedInv

LEMMA ExitStep == ASSUME SchedInv, Exit PROVE SchedInv'
<1>1. TypeOK'
  BY Zenon DEF SchedInv, Exit, TypeOK
<1>2. /\ state'[current] = "ZOMBIE" /\ current' = current /\ saved' = saved /\ cpu' = cpu
      /\ \A t \in Tasks \ {current} : state'[t] = state[t]
  BY Zenon DEF SchedInv, Exit, TypeOK
<1>. QED
  BY <1>1, <1>2, Zenon DEF SchedInv, CurrentRuns, OnlyCurrentIsZombie, RunnableIsSwitchable,
     CpuRunsCurrent, Switchable

LEMMA SchedInitInv == Init => SchedInv
<1>1. 0 \in Tasks
  BY SlotsAssumption, SchedAssumption DEF Tasks
<1>2. Init => TypeOK
  BY <1>1, SlotsAssumption, SchedAssumption, Zenon DEF Init, TypeOK
<1>. QED
  BY <1>1, <1>2 DEF Init, SchedInv, CurrentRuns, OnlyCurrentIsZombie, RunnableIsSwitchable,
     CpuRunsCurrent, Switchable, Null, Bare

LEMMA SchedNextInv == SchedInv /\ [Next]_vars => SchedInv'
<1>. SUFFICES ASSUME SchedInv, [Next]_vars PROVE SchedInv'
  BY Zenon
<1>1. CASE Yield
  BY <1>1, YieldStep, Zenon
<1>2. CASE CreateThread
  <2>1. PICK c \in FreeSlot :
          /\ state' = [state EXCEPT ![c] = "RUNNABLE"]
          /\ saved' = [saved EXCEPT ![c] = ThreadFrame(c)]
    BY <1>2, Zenon DEF CreateThread
  <2>2. ThreadFrame(c) \in {c, Bare}
    BY Zenon DEF ThreadFrame
  <2>3. UNCHANGED <<current, cpu, rr_cursor, policy>>
    BY <1>2, Zenon DEF CreateThread
  <2>. QED
    BY <2>1, <2>2, <2>3, NewTaskStep, Zenon
<1>3. CASE Fork
  <2>1. PICK c \in FreeSlot :
          /\ state' = [state EXCEPT ![c] = "RUNNABLE"]
          /\ saved' = [saved EXCEPT ![c] = Bare]
    BY <1>3, Zenon DEF Fork
  <2>2. UNCHANGED <<current, cpu, rr_cursor, policy>>
    BY <1>3, Zenon DEF Fork
  <2>. QED
    BY <2>1, <2>2, NewTaskStep, Zenon
<1>4. CASE Exit
  BY <1>4, ExitStep, Zenon
<1>5. CASE SetPolicy
  BY <1>5, SlotsAssumption, SchedAssumption, Zenon DEF SetPolicy, SchedInv, TypeOK, CurrentRuns, OnlyCurrentIsZombie,
     RunnableIsSwitchable, CpuRunsCurrent, Switchable
<1>6. CASE UNCHANGED vars
  BY <1>6, Zenon DEF vars, SchedInv, TypeOK, CurrentRuns, OnlyCurrentIsZombie,
     RunnableIsSwitchable, CpuRunsCurrent, Switchable
<1>. QED
  BY <1>1, <1>2, <1>3, <1>4, <1>5, <1>6, Zenon DEF Next

\* The strengthened invariant holds in every reachable state.
THEOREM SchedInvariant == Spec => []SchedInv
  BY SchedInitInv, SchedNextInv, PTL DEF Spec

\* Type correctness of the scheduler's state.
THEOREM SchedTypeCorrect == Spec => []TypeOK
<1>1. SchedInv => TypeOK
  BY Zenon DEF SchedInv
<1>. QED
  BY <1>1, SchedInvariant, PTL

\* The task states agree with current_task, whatever has been created, forked,
\* exited and switched.
THEOREM StatesAgree == Spec => []CurrentRuns
<1>1. SchedInv => CurrentRuns
  BY Zenon DEF SchedInv
<1>. QED
  BY <1>1, SchedInvariant, PTL

\* A consequence of sched_yield making an exited task RUNNABLE again: no task
\* but the current one is ever found in state ZOMBIE, so proc_waitpid, called
\* by another task, has nothing to reap.
THEOREM NothingToReap == Spec => []OnlyCurrentIsZombie
<1>1. SchedInv => OnlyCurrentIsZombie
  BY Zenon DEF SchedInv
<1>. QED
  BY <1>1, SchedInvariant, PTL

\* The scans of pick_rr and pick_cfs overlook no runnable task.
THEOREM NoRunnableLost == Spec => []RunnableIsSwitchable
<1>1. SchedInv => RunnableIsSwitchable
  BY Zenon DEF SchedInv
<1>. QED
  BY <1>1, SchedInvariant, PTL

\* sched_yield resumes every task in its own context; only the switch to a
\* forked child, which has none, loses the processor.
THEOREM ContextsNotMixed == Spec => []CpuRunsCurrent
<1>1. SchedInv => CpuRunsCurrent
  BY Zenon DEF SchedInv
<1>. QED
  BY <1>1, SchedInvariant, PTL

-----------------------------------------------------------------------------
(* TaskTable.  The properties need one fact that no run states by itself,  *)
(* ParentOlder: a task has a larger pid than its parent had.  It is why    *)
(* waitpid cannot free the slot of its caller.                             *)

\* A child's pid was given out after its parent's.
ParentOlder == \A t \in Live : ppid[t] < pid[t]

TableInv ==
  /\ TableTypeOK /\ PidsUnique /\ UsedCountExact /\ CurrentStaysLive /\ StacksAccounted
  /\ ParentOlder

\* The live slots are a finite set, so that they can be counted.
LEMMA LiveFinite == ASSUME TableTypeOK PROVE IsFiniteSet(Live) /\ Cardinality(Live) \in Nat
<1>1. IsFiniteSet(Tasks)  BY SlotsAssumption, TableAssumption, FS_Interval DEF Tasks
<1>2. Live \subseteq Tasks  BY Zenon DEF Live
<1>3. IsFiniteSet(Live)  BY <1>1, <1>2, FS_Subset, Zenon
<1> QED  BY <1>3, FS_CardinalityType, Zenon

\* So are the callers that hold a stack.
LEMMA HeldFinite == IsFiniteSet(WithStack) /\ Cardinality(WithStack) \in Nat
<1>1. IsFiniteSet(TaskCallers)  BY TableAssumption, Zenon
<1>2. WithStack \subseteq TaskCallers  BY Zenon DEF WithStack
<1>3. IsFiniteSet(WithStack)  BY <1>1, <1>2, FS_Subset, Zenon
<1> QED  BY <1>3, FS_CardinalityType, Zenon

\* A caller that goes on in its call keeps the type of the calls, and its stack or the lack of it.
LEMMA GoKeeps ==
  ASSUME TableTypeOK, NEW k \in TaskCallers, NEW a \in {"out", "chosen"}, NEW t \in Tasks \cup {NoSlot},
         a = "chosen" <=> t # NoSlot, at[k] \in {"out", "chosen"}, Go(k, a, t)
  PROVE  /\ at' \in [TaskCallers -> {"out", "chosen", "fork", "thread"}]
         /\ slot' \in [TaskCallers -> Tasks \cup {NoSlot}]
         /\ \A j \in TaskCallers : at'[j] \in {"chosen", "fork"} <=> slot'[j] # NoSlot
         /\ WithStack' = WithStack
BY ZenonT(60) DEF TableTypeOK, Go, WithStack

\* A caller that takes a stack is one more with a stack.
LEMMA GoTakes ==
  ASSUME TableTypeOK, NEW k \in TaskCallers, NEW a \in {"fork", "thread"}, NEW t \in Tasks \cup {NoSlot},
         a = "fork" <=> t # NoSlot, at[k] \in {"out", "chosen"}, Go(k, a, t)
  PROVE  /\ at' \in [TaskCallers -> {"out", "chosen", "fork", "thread"}]
         /\ slot' \in [TaskCallers -> Tasks \cup {NoSlot}]
         /\ \A j \in TaskCallers : at'[j] \in {"chosen", "fork"} <=> slot'[j] # NoSlot
         /\ Cardinality(WithStack') = Cardinality(WithStack) + 1
<1>1. WithStack' = WithStack \cup {k} /\ k \notin WithStack  BY ZenonT(60) DEF TableTypeOK, Go, WithStack
<1>2. Cardinality(WithStack \cup {k}) = Cardinality(WithStack) + 1  BY <1>1, HeldFinite, FS_AddElement, Zenon
<1>3. /\ at' \in [TaskCallers -> {"out", "chosen", "fork", "thread"}]
      /\ slot' \in [TaskCallers -> Tasks \cup {NoSlot}]
      /\ \A j \in TaskCallers : at'[j] \in {"chosen", "fork"} <=> slot'[j] # NoSlot
  BY ZenonT(60) DEF TableTypeOK, Go
<1> QED  BY <1>1, <1>2, <1>3, Zenon

\* A caller that returns with its stack in a task or given back is one less.
LEMMA GoReturns ==
  ASSUME TableTypeOK, NEW k \in TaskCallers, at[k] \in {"fork", "thread"}, Go(k, "out", NoSlot)
  PROVE  /\ at' \in [TaskCallers -> {"out", "chosen", "fork", "thread"}]
         /\ slot' \in [TaskCallers -> Tasks \cup {NoSlot}]
         /\ \A j \in TaskCallers : at'[j] \in {"chosen", "fork"} <=> slot'[j] # NoSlot
         /\ Cardinality(WithStack') = Cardinality(WithStack) - 1 /\ Cardinality(WithStack) > 0
<1>1. WithStack' = WithStack \ {k} /\ k \in WithStack  BY ZenonT(60) DEF TableTypeOK, Go, WithStack
<1>2. IsFiniteSet(WithStack \ {k}) /\ Cardinality(WithStack \ {k}) = Cardinality(WithStack) - 1
  BY <1>1, HeldFinite, FS_RemoveElement, SMTT(60)
<1>3. Cardinality(WithStack \ {k}) \in Nat  BY <1>2, FS_CardinalityType, Zenon
<1>4. Cardinality(WithStack) > 0  BY <1>2, <1>3, HeldFinite
<1>5. /\ at' \in [TaskCallers -> {"out", "chosen", "fork", "thread"}]
      /\ slot' \in [TaskCallers -> Tasks \cup {NoSlot}]
      /\ \A j \in TaskCallers : at'[j] \in {"chosen", "fork"} <=> slot'[j] # NoSlot
  BY ZenonT(60) DEF TableTypeOK, Go
<1> QED  BY <1>1, <1>2, <1>4, <1>5, Zenon

\* Filling a free slot adds that slot to the live ones, and one to their number.
LEMMA FillCounts ==
  ASSUME TableTypeOK, NEW t \in Tasks, state[t] = "UNUSED",
         state' = [state EXCEPT ![t] = "RUNNABLE"]
  PROVE  Live' = Live \cup {t} /\ t \notin Live /\ Cardinality(Live') = Cardinality(Live) + 1
<1>1. Live' = Live \cup {t} /\ t \notin Live  BY Zenon DEF Live, TableTypeOK
<1>2. Cardinality(Live \cup {t}) = Cardinality(Live) + 1  BY <1>1, LiveFinite, FS_AddElement, Zenon
<1> QED  BY <1>1, <1>2, Zenon

\* Reaping a task takes its slot from the live ones, and one from their number.
LEMMA ReapCounts ==
  ASSUME TableTypeOK, NEW t \in Tasks, state[t] = "ZOMBIE",
         state' = [state EXCEPT ![t] = "UNUSED"]
  PROVE  Live' = Live \ {t} /\ Cardinality(Live') = Cardinality(Live) - 1 /\ Cardinality(Live) > 0
<1>1. Live' = Live \ {t} /\ t \in Live  BY Zenon DEF Live, TableTypeOK
<1>2. Cardinality(Live \ {t}) = Cardinality(Live) - 1  BY <1>1, LiveFinite, FS_RemoveElement, SMTT(60)
<1>3. IsFiniteSet(Live \ {t})  BY LiveFinite, FS_RemoveElement, Zenon
<1>4. Cardinality(Live \ {t}) \in Nat  BY <1>3, FS_CardinalityType, Zenon
<1>5. Cardinality(Live) > 0  BY <1>2, <1>4, LiveFinite
<1> QED  BY <1>1, <1>2, <1>5, Zenon

\* A task put into a free slot (task_create_kernel_thread, proc_fork_current)
\* keeps pids unique, parents older and the count exact.
LEMMA FillPreserves ==
  ASSUME TableInv, NEW t \in Tasks, state[t] = "UNUSED", FillSlot(t), UNCHANGED current
  PROVE  /\ PidsUnique' /\ UsedCountExact' /\ CurrentStaysLive' /\ ParentOlder'
         /\ Cardinality(Live') = Cardinality(Live) + 1
         /\ state' \in [Tasks -> {"UNUSED", "RUNNABLE", "RUNNING", "ZOMBIE"}]
         /\ pid' \in [Tasks -> Nat] /\ ppid' \in [Tasks -> Nat]
         /\ task_used' \in Nat /\ next_pid' \in Nat
<1>1. Live' = Live \cup {t} /\ t \notin Live /\ Cardinality(Live') = Cardinality(Live) + 1
  BY FillCounts, Zenon DEF TableInv, FillSlot
<1>2. /\ pid' = [pid EXCEPT ![t] = next_pid] /\ ppid' = [ppid EXCEPT ![t] = pid[current]]
      /\ next_pid' = next_pid + 1 /\ task_used' = task_used + 1
  BY Zenon DEF FillSlot, NextPid
<1>3. Live \subseteq Tasks /\ current \in Live  BY Zenon DEF Live, TableInv, CurrentStaysLive
<1>4. /\ \A u \in Live : pid'[u] = pid[u] /\ ppid'[u] = ppid[u]
      /\ pid'[t] = next_pid /\ ppid'[t] = pid[current]
  BY <1>1, <1>2, <1>3, Zenon DEF TableInv, TableTypeOK
<1>5. \A u \in Live : pid[u] \in 1 .. next_pid - 1  BY Zenon DEF TableInv, PidsUnique
<1>6. PidsUnique'
  <2>1. \A u, v \in Live : pid[u] = pid[v] => u = v  BY Zenon DEF TableInv, PidsUnique
  <2>2. next_pid \in Nat /\ next_pid >= 1  BY <1>3, <1>5 DEF TableInv, TableTypeOK
  <2>3. \A u \in Live \cup {t} : pid'[u] \in 1 .. (next_pid + 1) - 1
    BY <1>4, <1>5, <2>2
  <2>4. \A u, v \in Live \cup {t} : pid'[u] = pid'[v] => u = v
    BY <1>4, <1>5, <2>1, <2>2
  <2> QED  BY <1>1, <1>2, <2>3, <2>4, Zenon DEF PidsUnique
<1>7. UsedCountExact'  BY <1>1, <1>2, Zenon DEF UsedCountExact, TableInv
<1>8. CurrentStaysLive'  BY <1>1, <1>3, Zenon DEF CurrentStaysLive
<1>9. ParentOlder'
  <2>1. \A u \in Live : ppid'[u] < pid'[u]  BY <1>4, Zenon DEF TableInv, ParentOlder
  <2>2. ppid'[t] < pid'[t]  BY <1>3, <1>4, <1>5 DEF TableInv, TableTypeOK
  <2> QED  BY <1>1, <2>1, <2>2, Zenon DEF ParentOlder
<1>10. /\ state' \in [Tasks -> {"UNUSED", "RUNNABLE", "RUNNING", "ZOMBIE"}]
       /\ pid' \in [Tasks -> Nat] /\ ppid' \in [Tasks -> Nat]
       /\ task_used' \in Nat /\ next_pid' \in Nat
  BY <1>2, <1>3 DEF FillSlot, TableInv, TableTypeOK
<1> QED  BY <1>1, <1>6, <1>7, <1>8, <1>9, <1>10, Zenon

\* A step that keeps the set of live slots and their pids, and moves current
\* only to a live one, preserves everything.
LEMMA SameLivePreserves ==
  ASSUME TableInv, Live' = Live, TableTypeOK', current' \in Live,
         UNCHANGED <<pid, ppid, task_used, next_pid, reaped>>, StacksAccounted'
  PROVE  TableInv'
BY Zenon DEF TableInv, PidsUnique, UsedCountExact, CurrentStaysLive, ParentOlder

\* The initial state: one task, the bootstrap task.
LEMMA TableInitInv == TableInit => TableInv
<1> SUFFICES ASSUME TableInit PROVE TableInv  BY Zenon
<1>1. Live = {0}  BY SlotsAssumption, TableAssumption DEF TableInit, Live, Tasks
<1>2. Cardinality(Live) = 1  BY <1>1, FS_Singleton, Zenon
<1>3. TableTypeOK  BY SlotsAssumption, TableAssumption DEF TableInit, TableTypeOK, Tasks, NoSlot
<1>4. PidsUnique /\ CurrentStaysLive /\ ParentOlder
  BY <1>1, SlotsAssumption, TableAssumption DEF TableInit, PidsUnique, CurrentStaysLive, ParentOlder, Tasks
<1>5. WithStack = {}  BY Zenon DEF TableInit, WithStack
<1>6. Cardinality(WithStack) = 0  BY <1>5, FS_EmptySet, Zenon
<1> QED  BY <1>2, <1>3, <1>4, <1>6 DEF TableInit, TableInv, UsedCountExact, StacksAccounted

\* waitpid frees a child of its caller: the caller itself stays.
LEMMA WaitpidPreserves ==
  ASSUME TableInv, NEW wanted \in 0 .. MaxPid, Waitpid(wanted)
  PROVE  TableInv'
<1>1. PICK t \in Reapable(wanted) :
        /\ state' = [state EXCEPT ![t] = "UNUSED"]
        /\ pid' = [pid EXCEPT ![t] = 0] /\ ppid' = [ppid EXCEPT ![t] = 0]
  BY Zenon DEF Waitpid
<1>2. t \in Tasks /\ state[t] = "ZOMBIE" /\ ppid[t] = pid[current]  BY Zenon DEF Reapable
<1>3. Live' = Live \ {t} /\ Cardinality(Live') = Cardinality(Live) - 1 /\ Cardinality(Live) > 0
  BY <1>1, <1>2, ReapCounts, Zenon DEF TableInv
<1>4. UNCHANGED <<next_pid, current, at, slot, stacks>> /\ reaped' = reaped + 1
  BY Zenon DEF Waitpid, call_vars
<1>5. Cardinality(Live) \in Nat  BY LiveFinite, Zenon DEF TableInv
<1>6. task_used' = Cardinality(Live) - 1
  BY <1>3, <1>5, Zenon DEF Waitpid, UsedAfterReap, TableInv, UsedCountExact
<1>7. TableTypeOK'  BY <1>1, <1>2, <1>3, <1>4, <1>5, <1>6 DEF TableInv, TableTypeOK
<1>8. \A u \in Live' : u \in Live /\ pid'[u] = pid[u] /\ ppid'[u] = ppid[u]
  BY <1>1, <1>2, <1>3, Zenon DEF TableInv, TableTypeOK, Live
<1>9. PidsUnique'  BY <1>4, <1>8, Zenon DEF TableInv, PidsUnique
<1>10. ParentOlder'  BY <1>8, Zenon DEF TableInv, ParentOlder
<1>11. CurrentStaysLive'
  <2>1. t \in Live /\ pid[t] \in Nat  BY <1>2, Zenon DEF Live, TableInv, TableTypeOK
  <2>2. ppid[t] < pid[t]  BY <2>1, Zenon DEF TableInv, ParentOlder
  <2>3. t # current  BY <1>2, <2>1, <2>2 DEF TableInv, TableTypeOK
  <2> QED  BY <1>3, <1>4, <2>3, Zenon DEF TableInv, CurrentStaysLive
<1>12. UsedCountExact'  BY <1>3, <1>6, Zenon DEF UsedCountExact
<1>13. StacksAccounted'
  <2>1. stacks = (Cardinality(Live) - 1) + reaped + Cardinality(WithStack)
    BY Zenon DEF TableInv, StacksAccounted
  <2>2. reaped \in Nat  BY Zenon DEF TableInv, TableTypeOK
  <2>3. Cardinality(Live)' = Cardinality(Live) - 1  BY <1>3, Zenon
  <2>4. WithStack' = WithStack  BY <1>4, Zenon DEF WithStack
  <2>5. stacks' = (Cardinality(Live)' - 1) + reaped' + Cardinality(WithStack')
    BY <1>4, <1>5, <2>1, <2>2, <2>3, <2>4, HeldFinite
  <2> QED  BY <2>5, Zenon DEF StacksAccounted
<1> QED  BY <1>7, <1>9, <1>10, <1>11, <1>12, <1>13, ZenonT(60) DEF TableInv

\* A step of a call in which no stack changes hands.
LEMMA IdlePreserves ==
  ASSUME TableInv, NEW k \in TaskCallers, NEW a \in {"out", "chosen"}, NEW t \in Tasks \cup {NoSlot},
         a = "chosen" <=> t # NoSlot, at[k] \in {"out", "chosen"}, Go(k, a, t),
         UNCHANGED <<state, pid, ppid, task_used, next_pid, current, stacks, reaped>>
  PROVE  TableInv'
<1>1. TableTypeOK /\ current \in Live /\ StacksAccounted  BY Zenon DEF TableInv, CurrentStaysLive
<1>2. Live' = Live /\ current' \in Live  BY <1>1, Zenon DEF Live
<1>3. TableTypeOK' /\ WithStack' = WithStack  BY <1>1, GoKeeps, ZenonT(60) DEF TableTypeOK
<1>4. StacksAccounted'  BY <1>1, <1>2, <1>3, Zenon DEF StacksAccounted
<1> QED  BY <1>2, <1>3, <1>4, SameLivePreserves, Zenon

\* A call takes its stack, outside the lock.
LEMMA TakePreserves ==
  ASSUME TableInv, NEW k \in TaskCallers, NEW a \in {"fork", "thread"}, NEW t \in Tasks \cup {NoSlot},
         a = "fork" <=> t # NoSlot, at[k] \in {"out", "chosen"}, Go(k, a, t), stacks' = stacks + 1,
         UNCHANGED <<state, pid, ppid, task_used, next_pid, current, reaped>>
  PROVE  TableInv'
<1>1. TableTypeOK /\ current \in Live /\ StacksAccounted  BY Zenon DEF TableInv, CurrentStaysLive
<1>2. Live' = Live /\ current' \in Live  BY <1>1, Zenon DEF Live
<1>3. stacks \in Nat /\ reaped \in Nat  BY <1>1, Zenon DEF TableTypeOK
<1>4. stacks' \in Nat  BY <1>3
<1>5. /\ TableTypeOK'
      /\ Cardinality(WithStack') = Cardinality(WithStack) + 1
  BY <1>1, <1>4, GoTakes, ZenonT(60) DEF TableTypeOK
<1>6. StacksAccounted'
  BY <1>1, <1>2, <1>3, <1>5, LiveFinite, HeldFinite DEF StacksAccounted
<1> QED  BY <1>2, <1>5, <1>6, SameLivePreserves, Zenon

\* A call returns and its stack is that of the task it has made.
LEMMA UsePreserves ==
  ASSUME TableInv, NEW k \in TaskCallers, at[k] \in {"fork", "thread"}, Go(k, "out", NoSlot),
         NEW t \in Tasks, state[t] = "UNUSED", FillSlot(t), UNCHANGED <<current, reaped, stacks>>
  PROVE  TableInv'
<1>1. TableTypeOK /\ StacksAccounted /\ stacks \in Nat /\ reaped \in Nat  BY Zenon DEF TableInv, TableTypeOK
<1>2. Cardinality(Live') = Cardinality(Live) + 1  BY FillPreserves, Zenon
<1>3. Cardinality(WithStack') = Cardinality(WithStack) - 1  BY <1>1, GoReturns, Zenon
<1>4. TableTypeOK'  BY <1>1, FillPreserves, GoReturns, ZenonT(60) DEF TableTypeOK
<1>5. StacksAccounted'  BY <1>1, <1>2, <1>3, LiveFinite, HeldFinite DEF StacksAccounted
<1> QED  BY <1>4, <1>5, FillPreserves, ZenonT(60) DEF TableInv

\* A call returns and has given its stack back.
LEMMA GivePreserves ==
  ASSUME TableInv, NEW k \in TaskCallers, at[k] \in {"fork", "thread"}, Go(k, "out", NoSlot),
         GiveBack, UNCHANGED <<current, reaped>>
  PROVE  TableInv'
<1>1. TableTypeOK /\ StacksAccounted /\ stacks \in Nat /\ reaped \in Nat /\ current \in Live
  BY Zenon DEF TableInv, TableTypeOK, CurrentStaysLive
<1>2. stacks' = stacks - 1 /\ UNCHANGED <<state, pid, ppid, next_pid, task_used>>  BY Zenon DEF GiveBack
<1>3. Live' = Live /\ current' \in Live  BY <1>1, <1>2, Zenon DEF Live
<1>4. Cardinality(WithStack') = Cardinality(WithStack) - 1 /\ Cardinality(WithStack) > 0
  BY <1>1, GoReturns, Zenon
<1>5. Cardinality(Live) > 0  BY <1>1, LiveFinite, FS_EmptySet
<1>6. stacks' \in Nat  BY <1>1, <1>2, <1>4, <1>5, LiveFinite, HeldFinite DEF StacksAccounted
<1>7. TableTypeOK'  BY <1>1, <1>2, <1>6, GoReturns, ZenonT(60) DEF TableTypeOK
<1>8. StacksAccounted'  BY <1>1, <1>2, <1>3, <1>4, LiveFinite, HeldFinite DEF StacksAccounted
<1> QED  BY <1>2, <1>3, <1>7, <1>8, SameLivePreserves, Zenon

\* Every operation of the task table preserves the invariant.
LEMMA TableNextInv == TableInv /\ [TableNext]_table_vars => TableInv'
<1> SUFFICES ASSUME TableInv, [TableNext]_table_vars PROVE TableInv'  BY Zenon
<1>0. Cardinality(Live) \in Nat /\ TableTypeOK /\ StacksAccounted /\ CurrentStaysLive
  BY LiveFinite, Zenon DEF TableInv
<1>a. NoSlot \notin Tasks  BY SlotsAssumption, TableAssumption DEF NoSlot, Tasks
<1>1. ASSUME NEW k \in TaskCallers, ThreadStack(k) PROVE TableInv'
  BY <1>1, TakePreserves, Zenon DEF ThreadStack, TakeStack
<1>2. ASSUME NEW k \in TaskCallers, ThreadCommit(k) PROVE TableInv'
  <2>1. at[k] = "thread" /\ Go(k, "out", NoSlot) /\ UNCHANGED <<current, reaped>>
    BY <1>2, Zenon DEF ThreadCommit
  <2>2. CASE (\E t \in FreeSlot : FillSlot(t)) /\ UNCHANGED stacks
    <3>1. PICK t \in FreeSlot : FillSlot(t)  BY <2>2, Zenon
    <3>2. t \in Tasks /\ state[t] = "UNUSED"  BY Zenon DEF FreeSlot
    <3> QED  BY <2>1, <2>2, <3>1, <3>2, UsePreserves, Zenon
  <2>3. CASE GiveBack  BY <2>1, <2>3, GivePreserves, Zenon
  <2> QED  BY <1>2, <2>2, <2>3, Zenon DEF ThreadCommit
<1>3. ASSUME NEW k \in TaskCallers, ForkChoose(k) PROVE TableInv'
  <2>1. PICK t \in FreeSlot : Go(k, "chosen", t)  BY <1>3, Zenon DEF ForkChoose
  <2>2. t \in Tasks \cup {NoSlot} /\ t # NoSlot /\ at[k] = "out"  BY <1>a, <1>3, Zenon DEF FreeSlot, ForkChoose
  <2>3. UNCHANGED <<state, pid, ppid, task_used, next_pid, current, stacks, reaped>>
    BY <1>3, Zenon DEF ForkChoose
  <2> QED  BY <2>1, <2>2, <2>3, IdlePreserves, Zenon
<1>9. ASSUME NEW k \in TaskCallers, ForkStack(k) PROVE TableInv'
  <2>1. at[k] = "chosen" /\ UNCHANGED <<state, pid, ppid, task_used, next_pid, current, reaped>>
    BY <1>9, Zenon DEF ForkStack
  <2>2. slot[k] \in Tasks \cup {NoSlot} /\ slot[k] # NoSlot  BY <1>0, <2>1, Zenon DEF TableTypeOK
  <2>3. CASE TakeStack /\ Go(k, "fork", slot[k])
    BY <2>1, <2>2, <2>3, TakePreserves, Zenon DEF TakeStack
  <2>4. CASE UNCHANGED stacks /\ Go(k, "out", NoSlot)
    BY <2>1, <2>4, IdlePreserves, Zenon
  <2> QED  BY <1>9, <2>3, <2>4, Zenon DEF ForkStack
<1>10. ASSUME NEW k \in TaskCallers, ForkCommit(k) PROVE TableInv'
  <2>1. at[k] = "fork" /\ Go(k, "out", NoSlot) /\ UNCHANGED <<current, reaped>>
    BY <1>10, Zenon DEF ForkCommit
  <2>2. slot[k] \in Tasks  BY <1>0, <2>1, Zenon DEF TableTypeOK
  <2>3. CASE StillFree(slot[k]) /\ FillSlot(slot[k]) /\ UNCHANGED stacks
    BY <2>1, <2>2, <2>3, UsePreserves, Zenon DEF StillFree
  <2>4. CASE GiveBack  BY <2>1, <2>4, GivePreserves, Zenon
  <2> QED  BY <1>10, <2>3, <2>4, Zenon DEF ForkCommit
<1>4. CASE ExitCurrent
  <2>1. Live' = Live /\ current' \in Live
    BY <1>0, <1>4, Zenon DEF ExitCurrent, Live, CurrentStaysLive, TableTypeOK
  <2>2. TableTypeOK'  BY <1>0, <1>4, Zenon DEF ExitCurrent, call_vars, TableTypeOK
  <2>3. StacksAccounted'  BY <1>0, <1>4, <2>1, Zenon DEF ExitCurrent, StacksAccounted, WithStack, call_vars
  <2> QED  BY <1>4, <2>1, <2>2, <2>3, SameLivePreserves, Zenon DEF ExitCurrent
<1>5. CASE SetCurrent
  <2>1. Live' = Live /\ current' \in Live  BY <1>5, Zenon DEF SetCurrent, Live
  <2>2. TableTypeOK'  BY <1>0, <1>5, Zenon DEF SetCurrent, call_vars, TableTypeOK, Live
  <2>3. StacksAccounted'  BY <1>0, <1>5, <2>1, Zenon DEF SetCurrent, StacksAccounted, WithStack, call_vars
  <2> QED  BY <1>5, <2>1, <2>2, <2>3, SameLivePreserves, Zenon DEF SetCurrent
<1>6. CASE SchedYield
  <2>1. PICK next \in Tasks \ {current} :
          /\ state[next] \in {"RUNNABLE", "RUNNING"}
          /\ state' = [state EXCEPT ![current] = "RUNNABLE", ![next] = "RUNNING"]
          /\ current' = next
    BY <1>6, Zenon DEF SchedYield, SwitchTo
  <2>2. Live' = Live /\ current' \in Live
    BY <1>0, <2>1, Zenon DEF Live, CurrentStaysLive, TableTypeOK
  <2>3. TableTypeOK'  BY <1>0, <1>6, <2>1, Zenon DEF SchedYield, call_vars, TableTypeOK
  <2>4. StacksAccounted'  BY <1>0, <1>6, <2>2, Zenon DEF SchedYield, StacksAccounted, WithStack, call_vars
  <2> QED  BY <1>6, <2>2, <2>3, <2>4, SameLivePreserves, Zenon DEF SchedYield
<1>7. CASE \E wanted \in 0 .. MaxPid : Waitpid(wanted)  BY <1>7, WaitpidPreserves, Zenon
<1>8. CASE UNCHANGED table_vars
  BY <1>8, ZenonT(60) DEF table_vars, TableInv, TableTypeOK, PidsUnique, UsedCountExact, CurrentStaysLive,
     StacksAccounted, WithStack, ParentOlder, Live
<1> QED
  BY <1>1, <1>2, <1>3, <1>4, <1>5, <1>6, <1>7, <1>8, <1>9, <1>10, ZenonT(60) DEF TableNext

\* The invariant holds in every reachable state of the task table.
THEOREM TaskTableInvariant == TableSpec => []TableInv
BY TableInitInv, TableNextInv, PTL DEF TableSpec

\* The fields of the task table keep their types.
THEOREM TaskTypeCorrect == TableSpec => []TableTypeOK
<1>1. TableInv => TableTypeOK  BY Zenon DEF TableInv
<1> QED  BY <1>1, TaskTableInvariant, PTL

\* No two tasks share a pid, whatever forks, exits and waits are interleaved.
THEOREM PidsStayUnique == TableSpec => []PidsUnique
<1>1. TableInv => PidsUnique  BY Zenon DEF TableInv
<1> QED  BY <1>1, TaskTableInvariant, PTL

\* task_count() is exact.
THEOREM CountStaysExact == TableSpec => []UsedCountExact
<1>1. TableInv => UsedCountExact  BY Zenon DEF TableInv
<1> QED  BY <1>1, TaskTableInvariant, PTL

\* current_task never points to a freed slot.
THEOREM CurrentNeverFreed == TableSpec => []CurrentStaysLive
<1>1. TableInv => CurrentStaysLive  BY Zenon DEF TableInv
<1> QED  BY <1>1, TaskTableInvariant, PTL

\* Every stack is with a live task, with a fork in progress, or lost by a reap;
\* no other path of the code loses one.
THEOREM OnlyReapLosesStacks == TableSpec => []StacksAccounted
<1>1. TableInv => StacksAccounted  BY Zenon DEF TableInv
<1> QED  BY <1>1, TaskTableInvariant, PTL

\* On the task table, every sched_yield of Sched is one that TaskTable has, or changes nothing:
\* what TaskTable's theorems say is said of the scheduler's choices too.
THEOREM YieldIsSchedYield == Yield => (\E next \in Tasks : SwitchTo(next)) \/ UNCHANGED <<state, current>>
<1> SUFFICES ASSUME Yield PROVE (\E next \in Tasks : SwitchTo(next)) \/ UNCHANGED <<state, current>>
  BY Zenon
<1>1. PICK next \in Tasks :
        /\ PickNext(next)
        /\ \/ UNCHANGED <<state, current>>
           \/ next # current /\ state' = Handover(next) /\ current' = next
  BY Zenon DEF Yield
<1>2. ASSUME next # current PROVE state[next] \in {"RUNNABLE", "RUNNING"}
  <2>1. next \in Candidates  BY <1>1, <1>2, Zenon DEF PickNext
  <2>2. next \in Ready({"RUNNABLE", "RUNNING"})
    BY <2>1, Zenon DEF Candidates, CfsPick, RrPick, LeastRun, Ready
  <2> QED  BY <2>2, Zenon DEF Ready
<1> QED  BY <1>1, <1>2, Zenon DEF SwitchTo, Handover
=============================================================================
