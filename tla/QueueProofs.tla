---------------------------- MODULE QueueProofs ----------------------------
(***************************************************************************)
(* Proofs about the kernel's queues.  The buffer of a pipe implements the  *)
(* stream of PipeStream, for every size and every set of bytes.  The ring  *)
(* of bottom halves implements the FIFO of BhFifo, for every size and any  *)
(* interrupts and handlers.  The queues of the UDP ports hold datagrams of *)
(* their own binding only, and the sockets of Dgram keep their ports, for  *)
(* tables and queues of any size and any number of callers.                *)
(***************************************************************************)
EXTENDS PipeRing, Irq, Dgram, TLAPS

-----------------------------------------------------------------------------
(* Sequences *)

\* A sequence over S is a function from 1 .. n to S.
LEMMA SeqIs == \A S : Seq(S) = UNION {[1 .. n -> S] : n \in Nat}
OBVIOUS

\* Its length is a natural number, and its domain.
LEMMA SeqLen ==
  ASSUME NEW S, NEW s \in Seq(S)
  PROVE  Len(s) \in Nat /\ s \in [1 .. Len(s) -> S] /\ DOMAIN s = 1 .. Len(s)
OBVIOUS

\* Its items are in S.
LEMMA SeqItem ==
  ASSUME NEW S, NEW s \in Seq(S), NEW i \in 1 .. Len(s)
  PROVE  s[i] \in S
OBVIOUS

\* Only the empty sequence has length 0.
LEMMA SeqNone ==
  ASSUME NEW S
  PROVE  << >> \in Seq(S) /\ Len(<< >>) = 0 /\ \A s \in Seq(S) : s # << >> => Len(s) \in Nat \ {0}
OBVIOUS

\* Sequences of one length with the same items are equal.
LEMMA SeqSame ==
  ASSUME NEW S, NEW s \in Seq(S), NEW t \in Seq(S), Len(s) = Len(t), \A i \in 1 .. Len(s) : s[i] = t[i]
  PROVE  s = t
OBVIOUS

\* The items of a concatenation.
LEMMA SeqConcat ==
  ASSUME NEW S, NEW s \in Seq(S), NEW t \in Seq(S)
  PROVE  /\ s \o t \in Seq(S) /\ Len(s \o t) = Len(s) + Len(t)
         /\ \A i \in 1 .. Len(s) + Len(t) : (s \o t)[i] = IF i <= Len(s) THEN s[i] ELSE t[i - Len(s)]
OBVIOUS

\* The items after one is appended.
LEMMA SeqAppend ==
  ASSUME NEW S, NEW s \in Seq(S), NEW x \in S
  PROVE  /\ Append(s, x) \in Seq(S) /\ Append(s, x) # << >> /\ Len(Append(s, x)) = Len(s) + 1
         /\ \A i \in 1 .. Len(s) : Append(s, x)[i] = s[i]
         /\ Append(s, x)[Len(s) + 1] = x
OBVIOUS

\* Appending an item is concatenating it.
LEMMA SeqAppendConcat ==
  ASSUME NEW S, NEW s \in Seq(S), NEW x \in S
  PROVE  Append(s, x) = s \o <<x>>
OBVIOUS

\* The items of a part of a sequence.
LEMMA SeqPart ==
  ASSUME NEW S, NEW s, NEW m \in Int, NEW n \in Int, \A i \in m .. n : s[i] \in S
  PROVE  /\ SubSeq(s, m, n) \in Seq(S)
         /\ Len(SubSeq(s, m, n)) = IF m <= n THEN n - m + 1 ELSE 0
         /\ \A i \in 1 .. n - m + 1 : SubSeq(s, m, n)[i] = s[m + i - 1]
OBVIOUS

\* A part that ends before it begins is empty.
LEMMA SeqPartNone ==
  ASSUME NEW s, NEW m \in Int, NEW n \in Int, n < m
  PROVE  SubSeq(s, m, n) = << >>
OBVIOUS

\* A part is what comes before its last item, and that item.
LEMMA SeqPartLast ==
  ASSUME NEW S, NEW s \in Seq(S), NEW m \in 1 .. Len(s), NEW n \in m .. Len(s)
  PROVE  SubSeq(s, m, n) = SubSeq(s, m, n - 1) \o <<s[n]>>
OBVIOUS

-----------------------------------------------------------------------------
(* The queue of bottom halves *)

Ring == 0 .. Cap - 1

\* A remainder, where the quotient is known to be -1, 0 or 1.
LEMMA ModIs ==
  ASSUME NEW x \in Int, NEW r \in Ring, x = r \/ x = r + Cap \/ x = r - Cap
  PROVE  x % Cap = r
<1> DEFINE q == x \div Cap  m == x % Cap
<1>1. q \in Int /\ m \in Ring /\ x = Cap * q + m  BY IrqAssumption DEF Ring
<1> HIDE DEF q, m
<1>2. PICK d \in {-1, 0, 1} : x = r + Cap * d  BY IrqAssumption DEF Ring
<1>3. m - r = Cap * (d - q)  BY <1>1, <1>2, IrqAssumption DEF Ring
<1>4. /\ d - q >= 1 => Cap * (d - q) >= Cap
      /\ d - q <= -1 => Cap * (d - q) <= -Cap
  BY <1>1, IrqAssumption
<1>5. d - q = 0  BY <1>1, <1>3, <1>4, IrqAssumption DEF Ring
<1>6. m = r  BY <1>1, <1>3, <1>5, IrqAssumption DEF Ring
<1> QED  BY <1>6, Zenon DEF m

\* What is waiting, as far as it depends on the ring alone.
InRing(q, head, tail) == [k \in 1 .. (tail - head) % Cap |-> q[(head + k - 1) % Cap]]

\* The distance from head to tail and the slots between them, without remainders.
Dist(head, tail) == IF head <= tail THEN tail - head ELSE tail - head + Cap
Nth(head, k) == IF head + k - 1 < Cap THEN head + k - 1 ELSE head + k - 1 - Cap

LEMMA RingFacts ==
  ASSUME NEW head \in Ring, NEW tail \in Ring
  PROVE  /\ (tail - head) % Cap = Dist(head, tail) /\ Dist(head, tail) \in Ring
         /\ Advance(head) = Nth(head, 2) /\ Nth(head, 2) \in Ring
         /\ \A k \in 1 .. Cap : (head + k - 1) % Cap = Nth(head, k) /\ Nth(head, k) \in Ring
<1>1. head \in Int /\ tail \in Int /\ Cap \in Nat /\ Cap > 1  BY IrqAssumption DEF Ring
<1>2. Dist(head, tail) \in Ring /\ tail - head \in Int
      /\ (tail - head = Dist(head, tail) \/ tail - head = Dist(head, tail) - Cap)
  BY <1>1 DEF Dist, Ring
<1>3. ASSUME NEW k \in 1 .. Cap
      PROVE  Nth(head, k) \in Ring /\ head + k - 1 \in Int
             /\ (head + k - 1 = Nth(head, k) \/ head + k - 1 = Nth(head, k) + Cap)
  BY <1>1 DEF Nth, Ring
<1>4. \A k \in 1 .. Cap : (head + k - 1) % Cap = Nth(head, k)  BY <1>3, ModIs, Zenon
<1>5. 2 \in 1 .. Cap /\ head + 1 = head + 2 - 1  BY <1>1
<1>6. Advance(head) = Nth(head, 2)  BY <1>4, <1>5, Zenon DEF Advance
<1> QED  BY <1>2, <1>3, <1>4, <1>5, <1>6, ModIs, Zenon

LEMMA InRingFacts ==
  ASSUME NEW head \in Ring, NEW tail \in Ring, NEW q
  PROVE  /\ InRing(q, head, tail) = [k \in 1 .. Dist(head, tail) |-> q[Nth(head, k)]]
         /\ DOMAIN InRing(q, head, tail) = 1 .. Dist(head, tail)
         /\ \A k \in 1 .. Dist(head, tail) : InRing(q, head, tail)[k] = q[Nth(head, k)]
<1>1. (tail - head) % Cap = Dist(head, tail) /\ Dist(head, tail) \in Ring  BY RingFacts, Zenon
<1>2. \A k \in 1 .. Dist(head, tail) : k \in 1 .. Cap  BY <1>1, IrqAssumption DEF Ring
<1>3. \A k \in 1 .. Dist(head, tail) : (head + k - 1) % Cap = Nth(head, k)  BY <1>2, RingFacts, Zenon
<1> QED  BY <1>1, <1>3, Zenon DEF InRing

\* The contents of the slots from head to tail are bottom halves.
QueueOK(q, head, tail) == \A k \in 1 .. Dist(head, tail) : q[Nth(head, k)] \in Handlers

LEMMA InRingSeq ==
  ASSUME NEW head \in Ring, NEW tail \in Ring, NEW q, QueueOK(q, head, tail)
  PROVE  /\ InRing(q, head, tail) \in Seq(Handlers)
         /\ Len(InRing(q, head, tail)) = Dist(head, tail)
<1>1. Dist(head, tail) \in Nat  BY RingFacts, IrqAssumption DEF Ring
<1>2. InRing(q, head, tail) \in [1 .. Dist(head, tail) -> Handlers]
  <2>1. InRing(q, head, tail) = [k \in 1 .. Dist(head, tail) |-> q[Nth(head, k)]]  BY InRingFacts
  <2> QED  BY <2>1, Zenon DEF QueueOK
<1>3. InRing(q, head, tail) \in Seq(Handlers)  BY <1>1, <1>2, SeqIs, Zenon
<1> QED  BY <1>1, <1>2, <1>3, SeqLen

\* Moving the head takes the oldest out.
LEMMA InRingTake ==
  ASSUME NEW head \in Ring, NEW tail \in Ring, NEW q, QueueOK(q, head, tail), head # tail
  PROVE  /\ InRing(q, head, tail) # <<>> /\ Head(InRing(q, head, tail)) = q[head] /\ q[head] \in Handlers
         /\ Advance(head) \in Ring /\ QueueOK(q, Advance(head), tail)
         /\ InRing(q, Advance(head), tail) = Tail(InRing(q, head, tail))
<1> DEFINE next == Advance(head)  s == InRing(q, head, tail)  t == InRing(q, next, tail)
           n == Dist(head, tail)
<1>1. next = Nth(head, 2) /\ next \in Ring  BY RingFacts, Zenon
<1>2. n \in Ring /\ n >= 1 /\ Dist(next, tail) = n - 1
  BY <1>1, IrqAssumption DEF Dist, Nth, Ring
<1>3. ASSUME NEW k \in 1 .. n - 1 PROVE Nth(next, k) = Nth(head, k + 1) /\ k + 1 \in 1 .. n
  BY <1>1, <1>2, IrqAssumption DEF Nth, Ring
<1>4. Nth(head, 1) = head /\ 1 \in 1 .. n  BY <1>2, IrqAssumption DEF Nth, Ring
<1>5. q[head] \in Handlers  BY <1>4, Zenon DEF QueueOK
<1>6. QueueOK(q, next, tail)  BY <1>2, <1>3, Zenon DEF QueueOK
<1>7. s \in Seq(Handlers) /\ Len(s) = n  BY InRingSeq, Zenon
<1>8. t \in Seq(Handlers) /\ Len(t) = n - 1  BY <1>1, <1>2, <1>6, InRingSeq, Zenon
<1>9. s[1] = q[head]
  <2>1. \A k \in 1 .. n : s[k] = q[Nth(head, k)]  BY InRingFacts
  <2> QED  BY <1>4, <2>1, Zenon
<1>10. \A k \in 1 .. n - 1 : t[k] = s[k + 1]
  <2> TAKE k \in 1 .. n - 1
  <2>1. t[k] = q[Nth(next, k)]
    <3>1. \A i \in 1 .. Dist(next, tail) : t[i] = q[Nth(next, i)]  BY <1>1, InRingFacts
    <3> QED  BY <1>2, <3>1, Zenon
  <2>2. s[k + 1] = q[Nth(head, k + 1)]
    <3>1. \A i \in 1 .. n : s[i] = q[Nth(head, i)]  BY InRingFacts
    <3> QED  BY <1>3, <3>1, Zenon
  <2> QED  BY <1>3, <2>1, <2>2, Zenon
<1> HIDE DEF next, s, t, n
<1>11. s # <<>> /\ Head(s) = s[1]  BY <1>2, <1>7
<1>12. Tail(s) \in Seq(Handlers) /\ Len(Tail(s)) = n - 1 /\ \A k \in 1 .. n - 1 : Tail(s)[k] = s[k + 1]
  BY <1>2, <1>7, <1>11 DEF Ring
<1>13. t = Tail(s)  BY <1>2, <1>8, <1>10, <1>12, SeqSame, Zenon
<1> QED  BY <1>1, <1>5, <1>6, <1>9, <1>11, <1>13, Zenon DEF next, s, t

\* Filling the slot at the tail and moving the tail puts one behind the others.
LEMMA InRingPut ==
  ASSUME NEW head \in Ring, NEW tail \in Ring, NEW q \in [Ring -> Handlers \cup {NoBh}],
         QueueOK(q, head, tail), NEW bh \in Handlers, Advance(tail) # head
  PROVE  LET p == [q EXCEPT ![tail] = bh] IN
         /\ Advance(tail) \in Ring /\ QueueOK(p, head, Advance(tail))
         /\ InRing(p, head, Advance(tail)) = Append(InRing(q, head, tail), bh)
         /\ Dist(head, tail) < Cap - 1
<1> DEFINE next == Advance(tail)  p == [q EXCEPT ![tail] = bh]
           s == InRing(q, head, tail)  t == InRing(p, head, next)  n == Dist(head, tail)
<1>1. next = Nth(tail, 2) /\ next \in Ring  BY RingFacts, Zenon
<1>2. n \in Ring /\ Dist(head, next) = n + 1 /\ n + 1 \in Ring /\ n < Cap - 1
  BY <1>1, IrqAssumption DEF Dist, Nth, Ring
<1>3. ASSUME NEW k \in 1 .. n PROVE Nth(head, k) # tail /\ Nth(head, k) \in Ring
  BY <1>2, IrqAssumption DEF Dist, Nth, Ring
<1>4. Nth(head, n + 1) = tail  BY <1>2, IrqAssumption DEF Dist, Nth, Ring
<1>5. \A k \in 1 .. n : p[Nth(head, k)] = q[Nth(head, k)]  BY <1>3, Zenon
<1>6. p[Nth(head, n + 1)] = bh  BY <1>4, Zenon
<1>7. \A k \in 1 .. n + 1 : k \in 1 .. n \/ k = n + 1  BY <1>2 DEF Ring
<1>8. QueueOK(p, head, next)  BY <1>2, <1>5, <1>6, <1>7, Zenon DEF QueueOK
<1>9. s \in Seq(Handlers) /\ Len(s) = n  BY InRingSeq, Zenon
<1>10. t \in Seq(Handlers) /\ Len(t) = n + 1  BY <1>1, <1>2, <1>8, InRingSeq, Zenon
<1>11. \A k \in 1 .. n : s[k] = q[Nth(head, k)]  BY InRingFacts
<1>12. \A k \in 1 .. n + 1 : t[k] = p[Nth(head, k)]
  <2> HIDE DEF p, next
  <2>1. \A k \in 1 .. Dist(head, next) : t[k] = p[Nth(head, k)]  BY <1>1, InRingFacts
  <2> QED  BY <1>2, <2>1, Zenon
<1>13. \A k \in 1 .. n : k \in 1 .. n + 1  BY <1>2 DEF Ring
<1>14. n + 1 \in 1 .. n + 1  BY <1>2 DEF Ring
<1>15. t[n + 1] = bh /\ \A k \in 1 .. n : t[k] = s[k]
  BY <1>5, <1>6, <1>11, <1>12, <1>13, <1>14, Zenon
<1> HIDE DEF next, p, s, t, n
<1>16. /\ Append(s, bh) \in Seq(Handlers) /\ Len(Append(s, bh)) = n + 1
       /\ Append(s, bh)[n + 1] = bh /\ \A k \in 1 .. n : Append(s, bh)[k] = s[k]
  BY <1>9, SeqAppend
<1>17. t = Append(s, bh)  BY <1>7, <1>10, <1>15, <1>16, SeqSame, Zenon
<1> QED  BY <1>1, <1>2, <1>8, <1>17, Zenon DEF next, p, s, t, n

\* The thread and the ISR are at places of the code, and what the ring holds between head and tail
\* are bottom halves.
RingOK ==
  /\ bh_queue \in [Ring -> Handlers \cup {NoBh}] /\ bh_head \in Ring /\ bh_tail \in Ring
  /\ QueueOK(bh_queue, bh_head, bh_tail)
ThreadOK ==
  \/ thread.pc \in {"run", "bh"}
  \/ thread.pc = "table" /\ thread.irq \in Irqs /\ thread.entry \in Entries
  \/ thread.pc = "item" /\ thread.bh \in Handlers
IsrOK ==
  \/ isr.pc = "none"
  \/ isr.pc = "lookup" /\ isr.irq \in Irqs
  \/ isr.pc = "enqueue" /\ isr.bh \in Handlers
IrqInv == irq_table \in [Irqs -> Entries] /\ RingOK /\ ThreadOK /\ IsrOK

\* The variables of BhFifo besides the queue.
Offered == IF isr.pc = "enqueue" THEN isr.bh ELSE NoBh
Taken == IF thread.pc = "item" THEN thread.bh ELSE NoBh

LEMMA WaitingInRing ==
  /\ Waiting = InRing(bh_queue, bh_head, bh_tail)
  /\ Waiting' = InRing(bh_queue', bh_head', bh_tail')
BY Zenon DEF Waiting, Count, InRing

LEMMA IrqInitInv == IrqInit => IrqInv /\ Fifo!Init
<1> SUFFICES ASSUME IrqInit PROVE IrqInv /\ Fifo!Init  BY Zenon
<1>1. 0 \in Ring  BY IrqAssumption DEF Ring
<1>2. bh_head = 0 /\ bh_tail = 0 /\ bh_queue \in [Ring -> Handlers \cup {NoBh}]  BY Zenon DEF IrqInit, Ring
<1>3. QueueOK(bh_queue, bh_head, bh_tail)  BY <1>2 DEF QueueOK, Dist
<1>4. thread.pc = "run" /\ isr.pc = "none"  BY Zenon DEF IrqInit, Running, NoIsr
<1>5. irq_table \in [Irqs -> Entries]  BY Zenon DEF IrqInit, Entries
<1>6. IrqInv  BY <1>1, <1>2, <1>3, <1>4, <1>5, Zenon DEF IrqInv, RingOK, ThreadOK, IsrOK
<1>7. Waiting = <<>>
  <2>1. InRing(bh_queue, 0, 0) \in Seq(Handlers) /\ Len(InRing(bh_queue, 0, 0)) = Dist(0, 0)
    BY <1>1, <1>2, <1>3, InRingSeq, Zenon
  <2>2. Dist(0, 0) = 0  BY DEF Dist
  <2> QED  BY <1>2, <2>1, <2>2, SeqNone, WaitingInRing, Zenon
<1> QED  BY <1>4, <1>6, <1>7, Zenon DEF Fifo!Init

\* A step that leaves the ring alone leaves the queue alone.
LEMMA RingUnchanged ==
  ASSUME RingOK, UNCHANGED <<bh_queue, bh_head, bh_tail>>
  PROVE  RingOK' /\ Waiting' = Waiting
<1>1. Waiting' = Waiting  BY WaitingInRing, Zenon
<1> QED  BY <1>1, Zenon DEF RingOK, QueueOK

\* Taking the oldest out of the ring, or finding it empty.
LEMMA BhTakeStep ==
  ASSUME IrqInv, BhTake
  PROVE  IrqInv' /\ (Fifo!Take \/ (Waiting' = Waiting /\ Offered' = Offered /\ Taken' = Taken))
<1>1. thread.pc = "bh" /\ isr' = isr /\ irq_table' = irq_table /\ bh_queue' = bh_queue /\ bh_tail' = bh_tail
  BY Zenon DEF BhTake
<1>2. IsrOK' /\ Offered' = Offered  BY <1>1, Zenon DEF IrqInv, IsrOK, Offered
<1>3. CASE Empty
  <2>1. bh_head' = bh_head /\ thread' = Running  BY <1>3, Zenon DEF BhTake, BhLeave
  <2>2. thread'.pc = "run"  BY <2>1, Zenon DEF Running
  <2>3. RingOK' /\ Waiting' = Waiting  BY <1>1, <2>1, RingUnchanged, Zenon DEF IrqInv
  <2> QED  BY <1>1, <1>2, <2>2, <2>3, Zenon DEF IrqInv, ThreadOK, Taken
<1>4. CASE ~Empty
  <2>1. bh_head # bh_tail /\ bh_head' = Advance(bh_head)
        /\ thread' = [pc |-> "item", bh |-> bh_queue[bh_head]]
    BY <1>4, Zenon DEF BhTake, Empty
  <2>2. /\ Waiting # <<>> /\ Head(Waiting) = bh_queue[bh_head] /\ bh_queue[bh_head] \in Handlers
        /\ bh_head' \in Ring /\ QueueOK(bh_queue, bh_head', bh_tail)
        /\ Waiting' = Tail(Waiting)
    BY <1>1, <2>1, InRingTake, WaitingInRing, ZenonT(60) DEF IrqInv, RingOK
  <2>3. thread'.pc = "item" /\ thread'.bh = bh_queue[bh_head]  BY <2>1, Zenon
  <2>4. RingOK'  BY <1>1, <2>2, Zenon DEF IrqInv, RingOK
  <2>5. ThreadOK'  BY <2>2, <2>3, Zenon DEF ThreadOK
  <2>6. Taken = NoBh /\ Taken' = Head(Waiting)  BY <1>1, <2>2, <2>3, Zenon DEF Taken
  <2>7. Fifo!Take  BY <1>2, <2>2, <2>6, Zenon DEF Fifo!Take, Taken, Offered
  <2> QED  BY <1>1, <1>2, <2>4, <2>5, <2>7, Zenon DEF IrqInv
<1> QED  BY <1>3, <1>4, Zenon

\* The ISR adds to the ring, or finds it full.
LEMMA IsrEnqueueStep ==
  ASSUME IrqInv, IsrEnqueue
  PROVE  IrqInv' /\ Fifo!Accept
<1>1. /\ isr.pc = "enqueue" /\ isr' = NoIsr /\ irq_table' = irq_table /\ thread' = thread
      /\ bh_head' = bh_head
  BY Zenon DEF IsrEnqueue
<1>2. isr.bh \in Handlers /\ isr'.pc = "none"  BY <1>1, Zenon DEF IrqInv, IsrOK, NoIsr
<1>3. IsrOK' /\ ThreadOK' /\ Taken' = Taken  BY <1>1, <1>2, Zenon DEF IrqInv, IsrOK, ThreadOK, Taken
<1>4. Offered = isr.bh /\ Offered # NoBh /\ Offered' = NoBh  BY <1>1, <1>2, IrqAssumption, Zenon DEF Offered
<1>5. Len(Waiting) = Dist(bh_head, bh_tail)  BY InRingSeq, WaitingInRing, Zenon DEF IrqInv, RingOK
<1>6. CASE Full
  <2>1. UNCHANGED <<bh_queue, bh_head, bh_tail>>  BY <1>1, <1>6, Zenon DEF IsrEnqueue
  <2>2. RingOK' /\ Waiting' = Waiting  BY <2>1, RingUnchanged, Zenon DEF IrqInv
  <2>3. Dist(bh_head, bh_tail) = Cap - 1
    <3>1. bh_head \in Ring /\ bh_tail \in Ring /\ bh_head = Nth(bh_tail, 2)
      BY <1>6, RingFacts, Zenon DEF IrqInv, RingOK, Full
    <3> QED  BY <3>1, IrqAssumption DEF Ring, Nth, Dist
  <2>4. ~(Len(Waiting) < Cap - 1)  BY <1>5, <2>3, IrqAssumption
  <2>5. Fifo!Accept  BY <1>3, <1>4, <2>2, <2>4, Zenon DEF Fifo!Accept, Taken, Offered
  <2> QED  BY <1>1, <1>3, <2>2, <2>5, Zenon DEF IrqInv
<1>7. CASE ~Full
  <2>1. /\ Advance(bh_tail) # bh_head /\ bh_queue' = [bh_queue EXCEPT ![bh_tail] = isr.bh]
        /\ bh_tail' = Advance(bh_tail)
    BY <1>7, Zenon DEF IsrEnqueue, Full
  <2>2. /\ bh_tail' \in Ring /\ QueueOK(bh_queue', bh_head, bh_tail')
        /\ InRing(bh_queue', bh_head, bh_tail') = Append(InRing(bh_queue, bh_head, bh_tail), isr.bh)
        /\ Dist(bh_head, bh_tail) < Cap - 1
    BY <1>2, <2>1, InRingPut, ZenonT(60) DEF IrqInv, RingOK
  <2>3. Waiting' = Append(Waiting, Offered) /\ Len(Waiting) < Cap - 1
    BY <1>1, <1>4, <1>5, <2>2, WaitingInRing, Zenon
  <2>4. bh_queue' \in [Ring -> Handlers \cup {NoBh}]  BY <1>2, <2>1, Zenon DEF IrqInv, RingOK
  <2>5. RingOK'  BY <1>1, <2>2, <2>4, Zenon DEF IrqInv, RingOK
  <2>6. Fifo!Accept  BY <1>3, <1>4, <2>3, Zenon DEF Fifo!Accept, Taken, Offered
  <2> QED  BY <1>1, <1>3, <2>5, <2>6, Zenon DEF IrqInv
<1> QED  BY <1>6, <1>7, Zenon

\* Every step keeps the invariant and is a step of BhFifo, or leaves its variables alone.
LEMMA IrqStep == IrqInv /\ [IrqNext]_irq_vars => IrqInv' /\ [Fifo!Next]_(Fifo!vars)
<1> SUFFICES ASSUME IrqInv, [IrqNext]_irq_vars PROVE IrqInv' /\ [Fifo!Next]_(Fifo!vars)  BY Zenon
<1> DEFINE Same == Waiting' = Waiting /\ Offered' = Offered /\ Taken' = Taken
<1>0. Same => [Fifo!Next]_(Fifo!vars)  BY Zenon DEF Fifo!vars, Offered, Taken
<1> HIDE DEF Same
<1>1. ASSUME NEW i \in Irqs, NEW entry \in Entries, SetEntryLock(i, entry) PROVE IrqInv' /\ Same
  <2>1. /\ thread = Running /\ thread' = [pc |-> "table", irq |-> i, entry |-> entry]
        /\ UNCHANGED <<irq_table, bh_queue, bh_head, bh_tail, isr>>
    BY <1>1, Zenon DEF SetEntryLock, LockFor
  <2>2. thread.pc = "run" /\ thread'.pc = "table" /\ thread'.irq = i /\ thread'.entry = entry
    BY <2>1, Zenon DEF Running
  <2>3. RingOK' /\ Waiting' = Waiting  BY <2>1, RingUnchanged, Zenon DEF IrqInv
  <2> QED  BY <2>1, <2>2, <2>3, Zenon DEF IrqInv, ThreadOK, IsrOK, Same, Offered, Taken
<1>2. ASSUME SetEntry PROVE IrqInv' /\ Same
  <2>1. /\ thread.pc = "table" /\ thread' = Running /\ irq_table' = [irq_table EXCEPT ![thread.irq] = thread.entry]
        /\ UNCHANGED <<bh_queue, bh_head, bh_tail, isr>>
    BY <1>2, Zenon DEF SetEntry
  <2>2. thread'.pc = "run"  BY <2>1, Zenon DEF Running
  <2>3. irq_table' \in [Irqs -> Entries]  BY <2>1, Zenon DEF IrqInv, ThreadOK
  <2>4. RingOK' /\ Waiting' = Waiting  BY <2>1, RingUnchanged, Zenon DEF IrqInv
  <2> QED  BY <2>1, <2>2, <2>3, <2>4, Zenon DEF IrqInv, ThreadOK, IsrOK, Same, Offered, Taken
<1>3. ASSUME BhLock PROVE IrqInv' /\ Same
  <2>1. /\ thread = Running /\ thread' = [pc |-> "bh"]
        /\ UNCHANGED <<irq_table, bh_queue, bh_head, bh_tail, isr>>
    BY <1>3, Zenon DEF BhLock, LockFor
  <2>2. thread.pc = "run" /\ thread'.pc = "bh"  BY <2>1, Zenon DEF Running
  <2>3. RingOK' /\ Waiting' = Waiting  BY <2>1, RingUnchanged, Zenon DEF IrqInv
  <2> QED  BY <2>1, <2>2, <2>3, Zenon DEF IrqInv, ThreadOK, IsrOK, Same, Offered, Taken
<1>4. ASSUME BhTake PROVE IrqInv' /\ [Fifo!Next]_(Fifo!vars)
  <2>1. IrqInv' /\ (Fifo!Take \/ Same)  BY <1>4, BhTakeStep, Zenon DEF Same
  <2> QED  BY <1>0, <2>1, Zenon DEF Fifo!Next
<1>5. ASSUME BhRun PROVE IrqInv' /\ Fifo!Finish
  <2>1. thread.pc = "item" /\ thread' = Running /\ UNCHANGED <<irq_table, bh_queue, bh_head, bh_tail, isr>>
    BY <1>5, Zenon DEF BhRun
  <2>2. thread'.pc = "run" /\ thread.bh \in Handlers  BY <2>1, Zenon DEF Running, IrqInv, ThreadOK
  <2>3. RingOK' /\ Waiting' = Waiting  BY <2>1, RingUnchanged, Zenon DEF IrqInv
  <2>4. Taken # NoBh /\ Taken' = NoBh /\ Offered' = Offered
    BY <2>1, <2>2, IrqAssumption, Zenon DEF Taken, Offered
  <2>5. Fifo!Finish  BY <2>3, <2>4, Zenon DEF Fifo!Finish, Taken, Offered
  <2> QED  BY <2>1, <2>2, <2>3, <2>5, Zenon DEF IrqInv, ThreadOK, IsrOK
<1>6. ASSUME IsrLookup PROVE IrqInv' /\ (Same \/ \E w \in Handlers : Fifo!Offer(w))
  <2>1. isr.pc = "lookup" /\ UNCHANGED <<irq_table, bh_queue, bh_head, bh_tail, thread>>
    BY <1>6, Zenon DEF IsrLookup
  <2> DEFINE bh == irq_table[isr.irq]
  <2>2. RingOK' /\ Waiting' = Waiting /\ ThreadOK' /\ Taken' = Taken
    BY <2>1, RingUnchanged, Zenon DEF IrqInv, ThreadOK, Taken
  <2>3. bh \in Entries  BY <2>1, Zenon DEF IrqInv, IsrOK
  <2>4. CASE bh \in {Unused, NoBh}
    <3>1. isr' = NoIsr  BY <1>6, <2>4, Zenon DEF IsrLookup
    <3>2. isr'.pc = "none"  BY <3>1, Zenon DEF NoIsr
    <3> QED  BY <2>1, <2>2, <3>2, Zenon DEF IrqInv, IsrOK, Same, Offered
  <2>5. CASE bh \notin {Unused, NoBh}
    <3>1. isr' = [pc |-> "enqueue", bh |-> bh]  BY <1>6, <2>5, Zenon DEF IsrLookup
    <3>2. isr'.pc = "enqueue" /\ isr'.bh = bh /\ bh \in Handlers  BY <2>3, <2>5, <3>1, Zenon DEF Entries
    <3>3. Offered = NoBh /\ Offered' = bh  BY <2>1, <3>2, Zenon DEF Offered
    <3>4. Fifo!Offer(bh)  BY <2>2, <3>3, Zenon DEF Fifo!Offer, Taken, Offered
    <3> QED  BY <2>1, <2>2, <3>2, <3>4, Zenon DEF IrqInv, IsrOK
  <2> QED  BY <2>4, <2>5, Zenon
<1>7. ASSUME IsrEnqueue PROVE IrqInv' /\ Fifo!Accept  BY <1>7, IsrEnqueueStep, Zenon
<1>8. ASSUME NEW i \in Irqs, Interrupt(i) PROVE IrqInv' /\ Same
  <2>1. /\ isr = NoIsr /\ isr' = [pc |-> "lookup", irq |-> i]
        /\ UNCHANGED <<irq_table, bh_queue, bh_head, bh_tail, thread>>
    BY <1>8, Zenon DEF Interrupt
  <2>2. isr.pc = "none" /\ isr'.pc = "lookup" /\ isr'.irq = i  BY <2>1, Zenon DEF NoIsr
  <2>3. RingOK' /\ Waiting' = Waiting  BY <2>1, RingUnchanged, Zenon DEF IrqInv
  <2> QED  BY <2>1, <2>2, <2>3, Zenon DEF IrqInv, ThreadOK, IsrOK, Same, Offered, Taken
<1>9. ASSUME UNCHANGED irq_vars PROVE IrqInv' /\ Same
  <2>1. UNCHANGED <<irq_table, bh_queue, bh_head, bh_tail, thread, isr>>  BY <1>9, Zenon DEF irq_vars
  <2>2. RingOK' /\ Waiting' = Waiting  BY <2>1, RingUnchanged, Zenon DEF IrqInv
  <2> QED  BY <2>1, <2>2, Zenon DEF IrqInv, ThreadOK, IsrOK, Same, Offered, Taken
<1>10. \/ \E i \in Irqs, entry \in Entries : SetEntryLock(i, entry)
       \/ SetEntry \/ BhLock \/ BhTake \/ BhRun \/ IsrLookup \/ IsrEnqueue
       \/ (\E i \in Irqs : Interrupt(i)) \/ UNCHANGED irq_vars
  BY Zenon DEF IrqNext, Thread, Isr
<1>11. Fifo!Finish \/ Fifo!Accept \/ (\E w \in Handlers : Fifo!Offer(w)) => Fifo!Next
  BY Zenon DEF Fifo!Next
<1> QED  BY <1>0, <1>1, <1>2, <1>3, <1>4, <1>5, <1>6, <1>7, <1>8, <1>9, <1>10, <1>11, Zenon

\* The ring that interrupts fill and the thread empties is a bounded FIFO of Cap - 1 pieces, for a
\* ring of any size: no bottom half that bh_enqueue accepted is lost, repeated or overtaken.
THEOREM IrqImplementsFifo == IrqSpec => ImplementsFifo
<1>1. IrqInv /\ [IrqNext]_irq_vars => IrqInv'  BY IrqStep, Zenon
<1>2. IrqInit => IrqInv  BY IrqInitInv, Zenon
<1>3. IrqSpec => []IrqInv  BY <1>1, <1>2, PTL DEF IrqSpec
<1>4. IrqInv /\ [IrqNext]_irq_vars => [Fifo!Next]_(Fifo!vars)  BY IrqStep, Zenon
<1>5. IrqInit => Fifo!Init  BY IrqInitInv, Zenon
<1> QED  BY <1>3, <1>4, <1>5, PTL DEF IrqSpec, ImplementsFifo, Fifo!Spec

-----------------------------------------------------------------------------
(* The buffer of a pipe: indices *)

LEMMA SlotRange == \A pos \in Nat : Slot(pos) \in 0 .. PipeBuf - 1
  BY PipeAssumption DEF Slot

\* Positions less than a whole ring apart have different slots: this is why
\* writing a byte disturbs none that is still to be read.
LEMMA SlotDistinct ==
  ASSUME NEW a \in Nat, NEW b \in Nat, a < b, b < a + PipeBuf
  PROVE  Slot(a) # Slot(b)
<1>. DEFINE q == a \div PipeBuf
            r == b \div PipeBuf
<1>1. /\ q \in Int /\ r \in Int
      /\ a = PipeBuf * q + Slot(a)
      /\ b = PipeBuf * r + Slot(b)
  BY PipeAssumption DEF Slot
<1>2. SUFFICES ASSUME Slot(a) = Slot(b) PROVE FALSE
  BY Zenon
<1>3. Slot(a) \in Int
  BY SlotRange
<1>. HIDE DEF q, r
<1>4. b - a = PipeBuf * (r - q)
  BY <1>1, <1>2, <1>3, PipeAssumption
<1>5. \A d \in Int : d >= 1 => PipeBuf * d >= PipeBuf
  BY PipeAssumption
<1>6. \A d \in Int : d <= 0 => PipeBuf * d <= 0
  BY PipeAssumption
<1>7. r - q >= 1 \/ r - q <= 0
  BY <1>1
<1>. QED
  BY <1>1, <1>4, <1>5, <1>6, <1>7, PipeAssumption

-----------------------------------------------------------------------------
(* Windows *)

Buffers == [0 .. PipeBuf - 1 -> Bytes]

LEMMA WindowSeq ==
  ASSUME NEW b \in Buffers, NEW a \in Nat, NEW z \in Nat, a <= z
  PROVE  /\ Window(b, a, z) \in Seq(Bytes)
         /\ Len(Window(b, a, z)) = z - a
         /\ \A k \in 1 .. z - a : Window(b, a, z)[k] = b[Slot(a + k - 1)]
<1>1. \A k \in 1 .. z - a : b[Slot(a + k - 1)] \in Bytes
  BY SlotRange DEF Buffers
<1>2. z - a \in Nat
  OBVIOUS
<1>3. Window(b, a, z) \in [1 .. z - a -> Bytes]
  BY <1>1, Zenon DEF Window
<1>4. Window(b, a, z) \in Seq(Bytes)
  BY <1>2, <1>3, SeqIs, Zenon
<1>5. Len(Window(b, a, z)) = z - a
  BY <1>2, <1>3, <1>4, SeqLen
<1>. QED
  BY <1>4, <1>5, Zenon DEF Window

\* A byte written behind the window leaves it as it is.
LEMMA WindowKept ==
  ASSUME NEW b \in Buffers, NEW a \in Nat, NEW z \in Nat, a <= z,
         NEW w \in Nat, z <= w, w < a + PipeBuf, NEW x \in Bytes
  PROVE  Window([b EXCEPT ![Slot(w)] = x], a, z) = Window(b, a, z)
<1>1. ASSUME NEW k \in 1 .. z - a
      PROVE  [b EXCEPT ![Slot(w)] = x][Slot(a + k - 1)] = b[Slot(a + k - 1)]
  <2>1. a + k - 1 \in Nat /\ a + k - 1 < w /\ w < a + k - 1 + PipeBuf
    BY PipeAssumption
  <2>2. Slot(a + k - 1) # Slot(w)
    BY <2>1, SlotDistinct, Zenon
  <2>3. Slot(a + k - 1) \in 0 .. PipeBuf - 1
    BY <2>1, SlotRange, Zenon
  <2>. QED
    BY <2>2, <2>3, Zenon DEF Buffers
<1>. QED
  BY <1>1, Zenon DEF Window

LEMMA WindowPrefix ==
  ASSUME NEW b \in Buffers, NEW a \in Nat, NEW z \in Nat, NEW n \in Nat, a + n <= z
  PROVE  SubSeq(Window(b, a, z), 1, n) = Window(b, a, a + n)
<1>. DEFINE whole == Window(b, a, z)
            part == Window(b, a, a + n)
            sub == SubSeq(whole, 1, n)
<1>1. /\ whole \in Seq(Bytes) /\ Len(whole) = z - a
      /\ \A k \in 1 .. z - a : whole[k] = b[Slot(a + k - 1)]
  <2>1. a <= z
    BY SMT
  <2>. QED
    BY <2>1, WindowSeq, Zenon
<1>2. /\ part \in Seq(Bytes) /\ Len(part) = n
      /\ \A k \in 1 .. n : part[k] = b[Slot(a + k - 1)]
  <2>1. a + n \in Nat /\ a <= a + n /\ (a + n) - a = n
    OBVIOUS
  <2>2. /\ part \in Seq(Bytes) /\ Len(part) = (a + n) - a
        /\ \A k \in 1 .. (a + n) - a : part[k] = b[Slot(a + k - 1)]
    BY <2>1, WindowSeq, Zenon
  <2>. QED
    BY ONLY <2>1, <2>2, Zenon
<1>. HIDE DEF whole, part
<1>3. \A k \in 1 .. n : whole[k] \in Bytes
  BY <1>1, SeqItem
<1>4. /\ sub \in Seq(Bytes)
      /\ Len(sub) = IF 1 <= n THEN n - 1 + 1 ELSE 0
      /\ \A k \in 1 .. n - 1 + 1 : sub[k] = whole[1 + k - 1]
  <2>1. 1 \in Int /\ n \in Int
    OBVIOUS
  <2>. QED
    BY <1>3, <2>1, SeqPart
<1>. HIDE DEF sub
<1>5. Len(sub) = n
  BY <1>4
<1>6. ASSUME NEW k \in 1 .. Len(sub)
      PROVE  sub[k] = part[k]
  <2>1. k \in 1 .. n /\ k \in 1 .. n - 1 + 1 /\ k \in 1 .. z - a /\ 1 + k - 1 = k
    BY <1>5
  <2>. QED
    BY <1>1, <1>2, <1>4, <2>1, Zenon
<1>7. sub = part
  BY <1>2, <1>4, <1>5, <1>6, SeqSame, Zenon
<1>. QED
  BY <1>7, Zenon DEF sub, part, whole

LEMMA WindowSuffix ==
  ASSUME NEW b \in Buffers, NEW a \in Nat, NEW z \in Nat, NEW n \in Nat, a + n <= z
  PROVE  SubSeq(Window(b, a, z), n + 1, z - a) = Window(b, a + n, z)
<1>. DEFINE whole == Window(b, a, z)
            part == Window(b, a + n, z)
            sub == SubSeq(whole, n + 1, z - a)
<1>1. /\ whole \in Seq(Bytes) /\ Len(whole) = z - a
      /\ \A k \in 1 .. z - a : whole[k] = b[Slot(a + k - 1)]
  <2>1. a <= z
    BY SMT
  <2>. QED
    BY <2>1, WindowSeq, Zenon
<1>2. /\ part \in Seq(Bytes) /\ Len(part) = z - (a + n)
      /\ \A k \in 1 .. z - (a + n) : part[k] = b[Slot(a + n + k - 1)]
  <2>1. a + n \in Nat
    OBVIOUS
  <2>. QED
    BY <2>1, WindowSeq, Zenon
<1>. HIDE DEF whole, part
<1>3. \A k \in n + 1 .. z - a : whole[k] \in Bytes
  BY <1>1, SeqItem
<1>4. /\ sub \in Seq(Bytes)
      /\ Len(sub) = IF n + 1 <= z - a THEN (z - a) - (n + 1) + 1 ELSE 0
      /\ \A k \in 1 .. (z - a) - (n + 1) + 1 : sub[k] = whole[n + 1 + k - 1]
  BY <1>3, SeqPart
<1>. HIDE DEF sub
<1>5. Len(sub) = Len(part)
  BY <1>2, <1>4
<1>6. ASSUME NEW k \in 1 .. Len(sub)
      PROVE  sub[k] = part[k]
  <2>1. k \in 1 .. z - (a + n) /\ n + 1 + k - 1 = n + k /\ n + k \in 1 .. z - a
    BY <1>2, <1>5
  <2>2. sub[k] = whole[n + k]
    BY <1>4, <2>1, SMTT(60)
  <2>3. whole[n + k] = b[Slot(a + (n + k) - 1)] /\ a + (n + k) - 1 = a + n + k - 1
    BY <1>1, <2>1
  <2>. QED
    BY <1>2, <2>1, <2>2, <2>3, Zenon
<1>7. sub = part
  BY <1>2, <1>4, <1>5, <1>6, SeqSame, Zenon
<1>. QED
  BY <1>7, Zenon DEF sub, part, whole

LEMMA WindowConcat ==
  ASSUME NEW b \in Buffers, NEW a \in Nat, NEW m \in Nat, NEW z \in Nat, a <= m, m <= z
  PROVE  Window(b, a, z) = Window(b, a, m) \o Window(b, m, z)
<1>. DEFINE whole == Window(b, a, z)
            left == Window(b, a, m)
            right == Window(b, m, z)
            both == left \o right
<1>0. a <= z
  BY SMT
<1>1. /\ whole \in Seq(Bytes) /\ Len(whole) = z - a
      /\ \A k \in 1 .. z - a : whole[k] = b[Slot(a + k - 1)]
  BY <1>0, WindowSeq, Zenon
<1>2. /\ left \in Seq(Bytes) /\ Len(left) = m - a
      /\ \A k \in 1 .. m - a : left[k] = b[Slot(a + k - 1)]
  BY WindowSeq, Zenon
<1>3. /\ right \in Seq(Bytes) /\ Len(right) = z - m
      /\ \A k \in 1 .. z - m : right[k] = b[Slot(m + k - 1)]
  BY WindowSeq, Zenon
<1>. HIDE DEF whole, left, right
<1>4. /\ both \in Seq(Bytes) /\ Len(both) = Len(left) + Len(right)
      /\ \A i \in 1 .. Len(left) + Len(right) :
           both[i] = IF i <= Len(left) THEN left[i] ELSE right[i - Len(left)]
  BY <1>2, <1>3, SeqConcat, Zenon
<1>. HIDE DEF both
<1>5. Len(both) = z - a
  BY <1>2, <1>3, <1>4
<1>6. ASSUME NEW k \in 1 .. Len(whole)
      PROVE  whole[k] = both[k]
  <2>1. CASE k <= m - a
    <3>1. k \in 1 .. m - a /\ k \in 1 .. z - a /\ k \in 1 .. Len(left) + Len(right)
      BY <1>1, <1>2, <1>3, <2>1
    <3>2. both[k] = left[k]
      BY <1>2, <1>4, <2>1, <3>1, Zenon
    <3>. QED
      BY <1>1, <1>2, <3>1, <3>2, Zenon
  <2>2. CASE k > m - a
    <3>1. /\ both[k] = right[k - (m - a)]
          /\ k - (m - a) \in 1 .. z - m
          /\ m + (k - (m - a)) - 1 = a + k - 1
      BY <1>1, <1>2, <1>3, <1>4, <2>2
    <3>. QED
      BY <1>1, <1>3, <3>1, Zenon
  <2>. QED
    BY <1>1, <2>1, <2>2
<1>7. whole = both
  BY <1>1, <1>4, <1>5, <1>6, SeqSame, Zenon
<1>. QED
  BY <1>7, Zenon DEF both, whole, left, right

-----------------------------------------------------------------------------
(* The inductive invariant *)

\* What a loop in progress has done so far.
OpInv ==
  /\ op.kind = "write" =>
       /\ op.count <= Len(op.data)
       /\ op.count <= write_pos - read_pos
       /\ Window(buf, write_pos - op.count, write_pos) = SubSeq(op.data, 1, op.count)
  /\ op.kind = "read" =>
       /\ Len(op.out) <= op.len
       /\ Len(op.out) <= read_pos
       /\ write_pos - (read_pos - Len(op.out)) <= PipeBuf
       /\ op.out = Window(buf, read_pos - Len(op.out), read_pos)

IInv == TypeOK /\ OpInv

LEMMA DataSeq ==
  /\ \A d \in Data : d \in Seq(Bytes) /\ Len(d) \in 0 .. MaxLen
  /\ \A d \in Seq(Bytes) : Len(d) <= MaxLen => d \in Data
  /\ <<>> \in Data
<1>1. ASSUME NEW d \in Data
      PROVE  d \in Seq(Bytes) /\ Len(d) \in 0 .. MaxLen
  <2>1. PICK n \in 0 .. MaxLen : d \in [1 .. n -> Bytes]
    BY Zenon DEF Data
  <2>2. n \in Nat /\ d \in Seq(Bytes)
    BY <2>1, SeqIs
  <2>3. DOMAIN d = 1 .. n /\ DOMAIN d = 1 .. Len(d) /\ Len(d) \in Nat
    BY <2>1, <2>2, SeqLen, Zenon
  <2>. QED
    BY <2>2, <2>3
<1>2. ASSUME NEW d \in Seq(Bytes), Len(d) <= MaxLen
      PROVE  d \in Data
  <2>1. d \in [1 .. Len(d) -> Bytes] /\ Len(d) \in Nat
    BY SeqLen, Zenon
  <2>2. Len(d) \in 0 .. MaxLen
    BY <1>2, <2>1, PipeAssumption
  <2>. QED
    BY <2>1, <2>2, Zenon DEF Data
<1>3. <<>> \in Seq(Bytes) /\ Len(<<>>) = 0
  BY SeqNone, Zenon
<1>4. <<>> \in Data
  <2>1. <<>> \in [1 .. 0 -> Bytes]
    BY <1>3, SeqLen, Zenon
  <2>2. 0 \in 0 .. MaxLen
    BY PipeAssumption
  <2>. QED
    BY <2>1, <2>2, Zenon DEF Data
<1>. QED
  BY <1>1, <1>2, <1>4, Zenon

LEMMA WindowEmpty == ASSUME NEW b \in Buffers, NEW a \in Nat PROVE Window(b, a, a) = <<>>
<1>1. Window(b, a, a) \in Seq(Bytes) /\ Len(Window(b, a, a)) = a - a
  BY WindowSeq
<1>. QED
  BY <1>1, SeqNone

LEMMA InitInv == Init => IInv
<1>. SUFFICES ASSUME Init PROVE IInv
  BY Zenon
<1>1. TypeOK
  BY DataSeq, PipeAssumption DEF Init, TypeOK
<1>. QED
  BY <1>1, Zenon DEF Init, IInv, OpInv, Idle

LEMMA WindowOne ==
  ASSUME NEW b \in Buffers, NEW a \in Nat
  PROVE  Window(b, a, a + 1) = <<b[Slot(a)]>>
<1>1. b[Slot(a)] \in Bytes
  BY SlotRange, SMTT(60) DEF Buffers
<1>2. /\ Window(b, a, a + 1) \in Seq(Bytes) /\ Len(Window(b, a, a + 1)) = 1
      /\ Window(b, a, a + 1)[1] = b[Slot(a)]
  <2>1. a + 1 \in Nat /\ a <= a + 1 /\ (a + 1) - a = 1 /\ a + 1 - 1 = a /\ 1 \in 1 .. (a + 1) - a
    OBVIOUS
  <2>2. /\ Window(b, a, a + 1) \in Seq(Bytes) /\ Len(Window(b, a, a + 1)) = (a + 1) - a
        /\ \A k \in 1 .. (a + 1) - a : Window(b, a, a + 1)[k] = b[Slot(a + k - 1)]
    BY <2>1, WindowSeq, Zenon
  <2>. QED
    BY <2>1, <2>2, Zenon
<1>. HIDE DEF Window
<1>3. <<b[Slot(a)]>> \in Seq(Bytes) /\ Len(<<b[Slot(a)]>>) = 1
  BY <1>1
<1>4. \A k \in 1 .. 1 : Window(b, a, a + 1)[k] = <<b[Slot(a)]>>[k]
  BY <1>2
<1>. QED
  BY <1>2, <1>3, <1>4, SeqSame, Zenon

\* One more byte of a write: what was written before it is intact, and so is
\* the stream as it was when the call began.
LEMMA WriteByteStep ==
  ASSUME IInv, WriteByte
  PROVE  /\ IInv'
         /\ QueueAtCall' = QueueAtCall
<1>1. PICK d \in Data, c \in 0 .. MaxLen : op = [kind |-> "write", data |-> d, count |-> c]
  BY DEF IInv, TypeOK, WriteByte, Idle, ReadOps, WriteOps
<1>2. PICK r \in Nat, w \in Nat, b \in Buffers : read_pos = r /\ write_pos = w /\ buf = b
  BY Zenon DEF IInv, TypeOK, Buffers
<1>3. /\ c < Len(d) /\ Len(d) \in 0 .. MaxLen /\ d \in Seq(Bytes)
      /\ r <= w /\ w - r < PipeBuf /\ c <= w - r
      /\ Window(b, w - c, w) = SubSeq(d, 1, c)
  BY <1>1, <1>2, DataSeq, SMTT(60) DEF IInv, TypeOK, OpInv, WriteByte, WriteMore, HasRoom
<1>. DEFINE x == d[c + 1]
            b2 == [b EXCEPT ![Slot(w)] = x]
<1>4. /\ buf' = b2 /\ write_pos' = w + 1 /\ read_pos' = r
      /\ op' = [kind |-> "write", data |-> d, count |-> c + 1]
      /\ written' = written /\ got' = got
  BY <1>1, <1>2, Zenon DEF WriteByte
<1>5. x \in Bytes
  BY <1>3, SeqItem
<1>6. b2 \in Buffers /\ b2[Slot(w)] = x
  BY <1>5, SlotRange, Zenon DEF Buffers
<1>7. Window(b2, w - c, w) = Window(b, w - c, w)
  <2>1. w - c \in Nat /\ w - c <= w /\ w < w - c + PipeBuf
    BY <1>3, PipeAssumption
  <2>. QED
    BY <1>5, <2>1, WindowKept
<1>8. Window(b2, r, w - c) = Window(b, r, w - c)
  <2>1. w - c \in Nat /\ r <= w - c /\ w - c <= w /\ w < r + PipeBuf
    BY <1>3, PipeAssumption
  <2>. QED
    BY <1>5, <2>1, WindowKept
<1>. HIDE DEF b2, x
<1>9. Window(b2, w - c, w + 1) = SubSeq(d, 1, c + 1)
  <2>1. Window(b2, w - c, w + 1) = Window(b2, w - c, w) \o Window(b2, w, w + 1)
    <3>1. w - c \in Nat /\ w + 1 \in Nat /\ w - c <= w /\ w <= w + 1
      BY <1>3
    <3>. QED
      BY <1>6, <3>1, WindowConcat, ZenonT(120)
  <2>2. Window(b2, w, w + 1) = <<x>>
    BY <1>6, WindowOne, Zenon
  <2>3. SubSeq(d, 1, c + 1) = SubSeq(d, 1, (c + 1) - 1) \o <<d[c + 1]>>
    <3>1. 1 \in 1 .. Len(d) /\ c + 1 \in 1 .. Len(d)
      BY <1>3
    <3>. QED
      BY <1>3, <3>1, SeqPartLast, Zenon
  <2>4. (c + 1) - 1 = c
    OBVIOUS
  <2>. QED
    BY <1>3, <1>7, <2>1, <2>2, <2>3, <2>4, Zenon DEF x
<1>10. TypeOK'
  <2>1. op' \in WriteOps
    <3>1. c + 1 \in 0 .. MaxLen
      BY <1>3, PipeAssumption
    <3>. QED
      BY <1>4, <3>1, Zenon DEF WriteOps
  <2>2. w + 1 \in Nat /\ (w + 1) - r \in 0 .. PipeBuf
    BY <1>3, PipeAssumption
  <2>. QED
    BY <1>4, <1>6, <2>1, <2>2, Zenon DEF IInv, TypeOK, Buffers
<1>11. (w + 1) - (c + 1) = w - c /\ c + 1 <= Len(d) /\ c + 1 <= (w + 1) - r
  BY <1>3
<1>12. OpInv'
  BY <1>4, <1>9, <1>11, Zenon DEF OpInv
<1>13. QueueAtCall' = Window(b2, r, w - c)
  BY <1>4, <1>11, Zenon DEF QueueAtCall, Window
<1>14. QueueAtCall = Window(b, r, w - c)
  BY <1>1, <1>2, Zenon DEF QueueAtCall
<1>. QED
  BY <1>8, <1>10, <1>12, <1>13, <1>14, Zenon DEF IInv

\* One more byte of a read.
LEMMA ReadByteStep ==
  ASSUME IInv, ReadByte
  PROVE  /\ IInv'
         /\ QueueAtCall' = QueueAtCall
<1>1. PICK out \in Data, n \in 0 .. MaxLen : op = [kind |-> "read", len |-> n, out |-> out]
  BY DEF IInv, TypeOK, ReadByte, Idle, ReadOps, WriteOps
<1>2. PICK r \in Nat, w \in Nat, b \in Buffers : read_pos = r /\ write_pos = w /\ buf = b
  BY Zenon DEF IInv, TypeOK, Buffers
<1>. DEFINE x == b[Slot(r)]
            out2 == Append(out, x)
            c == Len(out)
<1>3. /\ c < n /\ c \in Nat /\ out \in Seq(Bytes) /\ r < w
      /\ w - r <= PipeBuf /\ c <= r /\ w - (r - c) <= PipeBuf
      /\ out = Window(b, r - c, r)
  BY <1>1, <1>2, DataSeq DEF IInv, TypeOK, OpInv, ReadByte, ReadMore
<1>4. /\ buf' = b /\ write_pos' = w /\ read_pos' = r + 1
      /\ op' = [kind |-> "read", len |-> n, out |-> out2]
      /\ written' = written /\ got' = got
  BY <1>1, <1>2, Zenon DEF ReadByte, AfterRead
<1>5. x \in Bytes
  BY SlotRange, SMTT(60) DEF Buffers
<1>. HIDE DEF x, c
<1>6. out2 \in Seq(Bytes) /\ Len(out2) = c + 1 /\ out2 = out \o <<x>>
  BY <1>3, <1>5, SeqAppend, SeqAppendConcat, SMTT(60) DEF c
<1>. HIDE DEF out2
<1>7. out2 \in Data
  <2>1. Len(out2) <= MaxLen
    BY <1>3, <1>6, PipeAssumption
  <2>. QED
    BY <1>6, <2>1, DataSeq, Zenon
<1>8. out2 = Window(b, r - c, r + 1)
  <2>1. r - c \in Nat /\ r + 1 \in Nat /\ r - c <= r /\ r <= r + 1
    BY <1>3
  <2>2. Window(b, r - c, r + 1) = Window(b, r - c, r) \o Window(b, r, r + 1)
    BY <2>1, WindowConcat, ZenonT(120)
  <2>3. Window(b, r, r + 1) = <<x>>
    BY WindowOne, Zenon DEF x
  <2>. QED
    BY <1>3, <1>6, <2>2, <2>3, Zenon
<1>9. TypeOK'
  <2>1. op' \in ReadOps
    BY <1>4, <1>7, Zenon DEF ReadOps
  <2>2. r + 1 \in Nat /\ w - (r + 1) \in 0 .. PipeBuf
    BY <1>3, PipeAssumption
  <2>. QED
    BY <1>4, <2>1, <2>2, Zenon DEF IInv, TypeOK, Buffers
<1>10. /\ (r + 1) - (c + 1) = r - c /\ c + 1 <= n /\ c + 1 <= r + 1
  BY <1>3
<1>11. OpInv'
  BY <1>3, <1>4, <1>6, <1>8, <1>10, Zenon DEF OpInv
<1>12. QueueAtCall' = Window(b, r - c, w)
  BY <1>4, <1>6, <1>10, Zenon DEF QueueAtCall, Window
<1>13. QueueAtCall = Window(b, r - c, w)
  BY <1>1, <1>2, Zenon DEF QueueAtCall, c
<1>. QED
  BY <1>9, <1>11, <1>12, <1>13, Zenon DEF IInv

\* A write that returns has done what Write of PipeStream does.
LEMMA WriteReturnStep ==
  ASSUME IInv, WriteReturn
  PROVE  /\ IInv'
         /\ \E data \in Data : Stream!Write(data)
<1>1. PICK d \in Data, c \in 0 .. MaxLen : op = [kind |-> "write", data |-> d, count |-> c]
  BY DEF IInv, TypeOK, WriteReturn, Idle, ReadOps, WriteOps
<1>2. PICK r \in Nat, w \in Nat, b \in Buffers : read_pos = r /\ write_pos = w /\ buf = b
  BY Zenon DEF IInv, TypeOK, Buffers
<1>3. /\ c <= Len(d) /\ Len(d) \in 0 .. MaxLen
      /\ r <= w /\ w - r <= PipeBuf /\ c <= w - r
      /\ ~ (c < Len(d) /\ w - r < PipeBuf)
      /\ Window(b, w - c, w) = SubSeq(d, 1, c)
  BY <1>1, <1>2, DataSeq, SMTT(60) DEF IInv, TypeOK, OpInv, WriteReturn, WriteMore, HasRoom
<1>4. /\ buf' = b /\ write_pos' = w /\ read_pos' = r /\ op' = Idle
      /\ written' = c /\ got' = got
  BY <1>1, <1>2, Zenon DEF WriteReturn, Unlock
<1>5. IInv'
  BY <1>2, <1>4 DEF IInv, TypeOK, OpInv, Idle, Buffers
<1>6. w - c \in Nat /\ r <= w - c /\ w - c <= w
  BY <1>3
<1>7. QueueAtCall = Window(b, r, w - c) /\ QueueAtCall' = Window(b, r, w)
  BY <1>1, <1>2, <1>4, Zenon DEF QueueAtCall, Idle, Window
<1>8. Len(QueueAtCall) = (w - c) - r
  BY <1>6, <1>7, WindowSeq, Zenon
<1>9. c = Stream!Smaller(Len(d), PipeBuf - Len(QueueAtCall))
  BY <1>3, <1>8, PipeAssumption DEF Stream!Smaller
<1>10. QueueAtCall' = QueueAtCall \o SubSeq(d, 1, c)
  <2>1. Window(b, r, w) = Window(b, r, w - c) \o Window(b, w - c, w)
    BY <1>6, WindowConcat, SMTT(60)
  <2>. QED
    BY <1>3, <1>7, <2>1, Zenon
<1>11. Stream!Write(d)
  BY <1>4, <1>9, <1>10, Zenon DEF Stream!Write
<1>. QED
  BY <1>5, <1>11, Zenon

\* A read that returns has done what Read of PipeStream does.
LEMMA ReadReturnStep ==
  ASSUME IInv, ReadReturn
  PROVE  /\ IInv'
         /\ \E len \in 0 .. MaxLen : Stream!Read(len)
<1>1. PICK out \in Data, n \in 0 .. MaxLen : op = [kind |-> "read", len |-> n, out |-> out]
  BY DEF IInv, TypeOK, ReadReturn, Idle, ReadOps, WriteOps
<1>2. PICK r \in Nat, w \in Nat, b \in Buffers : read_pos = r /\ write_pos = w /\ buf = b
  BY Zenon DEF IInv, TypeOK, Buffers
<1>3. PICK c \in Nat : c = Len(out)
  BY DataSeq
<1>4. /\ c <= n /\ r <= w /\ c <= r /\ ~ (c < n /\ r < w)
      /\ out = Window(b, r - c, r)
  BY <1>1, <1>2, <1>3 DEF IInv, TypeOK, OpInv, ReadReturn, ReadMore
<1>5. /\ buf' = b /\ write_pos' = w /\ read_pos' = r /\ op' = Idle
      /\ written' = written /\ got' = out
  BY <1>1, <1>2, Zenon DEF ReadReturn, Unlock
<1>6. IInv'
  BY <1>2, <1>5, Zenon DEF IInv, TypeOK, OpInv, Idle, Buffers
<1>7. r - c \in Nat /\ r - c <= w /\ (r - c) + c = r /\ (r - c) + c <= w
  BY <1>4
<1>8. QueueAtCall = Window(b, r - c, w) /\ QueueAtCall' = Window(b, r, w)
  BY <1>1, <1>2, <1>3, <1>5, Zenon DEF QueueAtCall, Idle, Window
<1>9. Len(QueueAtCall) = w - (r - c)
  BY <1>7, <1>8, WindowSeq, Zenon
<1>10. c = Stream!Smaller(n, Len(QueueAtCall))
  BY <1>4, <1>9 DEF Stream!Smaller
<1>11. out = SubSeq(QueueAtCall, 1, c)
  <2>1. SubSeq(Window(b, r - c, w), 1, c) = Window(b, r - c, (r - c) + c)
    BY <1>7, WindowPrefix
  <2>. QED
    BY <1>4, <1>7, <1>8, <2>1, Zenon
<1>12. QueueAtCall' = SubSeq(QueueAtCall, c + 1, Len(QueueAtCall))
  <2>1. SubSeq(Window(b, r - c, w), c + 1, w - (r - c)) = Window(b, (r - c) + c, w)
    BY <1>7, WindowSuffix, ZenonT(120)
  <2>. QED
    BY <1>7, <1>8, <1>9, <2>1, Zenon
<1>13. Stream!Read(n)
  BY <1>5, <1>10, <1>11, <1>12, Zenon DEF Stream!Read
<1>. QED
  BY <1>6, <1>13, Zenon

\* A call that starts changes nothing of the stream.
LEMMA StartStep ==
  ASSUME IInv, (\E data \in Data : StartWrite(data)) \/ (\E len \in 0 .. MaxLen : StartRead(len))
  PROVE  /\ IInv'
         /\ QueueAtCall' = QueueAtCall
<1>1. PICK r \in Nat, w \in Nat, b \in Buffers : read_pos = r /\ write_pos = w /\ buf = b
  BY Zenon DEF IInv, TypeOK, Buffers
<1>2. /\ op = Idle /\ buf' = b /\ write_pos' = w /\ read_pos' = r
      /\ written' = written /\ got' = got
      /\ r <= w /\ w - r <= PipeBuf
  BY <1>1 DEF StartWrite, StartRead, IInv, TypeOK
<1>3. QueueAtCall = Window(b, r, w)
  BY <1>1, <1>2, Zenon DEF QueueAtCall, Idle
<1>4. CASE \E data \in Data : StartWrite(data)
  <2>1. PICK d \in Data : op' = [kind |-> "write", data |-> d, count |-> 0]
    BY <1>4, Zenon DEF StartWrite
  <2>2. 0 \in 0 .. MaxLen /\ Len(d) \in Nat /\ w - 0 = w
    BY DataSeq, PipeAssumption
  <2>3. TypeOK'
    BY <1>1, <1>2, <2>1, <2>2, Zenon DEF IInv, TypeOK, WriteOps, Buffers
  <2>4. Window(b, w, w) = <<>> /\ SubSeq(d, 1, 0) = <<>>
    BY WindowEmpty, SeqPartNone
  <2>5. OpInv'
    BY <1>2, <2>1, <2>2, <2>4 DEF OpInv
  <2>6. QueueAtCall' = Window(b, r, w)
    BY <1>2, <2>1, <2>2, Zenon DEF QueueAtCall, Window
  <2>. QED
    BY <1>3, <2>3, <2>5, <2>6, Zenon DEF IInv
<1>5. CASE \E len \in 0 .. MaxLen : StartRead(len)
  <2>1. PICK n \in 0 .. MaxLen : op' = [kind |-> "read", len |-> n, out |-> <<>>]
    BY <1>5, Zenon DEF StartRead
  <2>2. Len(<<>>) = 0 /\ <<>> \in Data /\ r - 0 = r
    BY DataSeq
  <2>3. TypeOK'
    BY <1>1, <1>2, <2>1, <2>2, Zenon DEF IInv, TypeOK, ReadOps, Buffers
  <2>4. Window(b, r, r) = <<>>
    BY WindowEmpty, Zenon
  <2>5. OpInv'
    BY <1>2, <2>1, <2>2, <2>4 DEF OpInv
  <2>6. QueueAtCall' = Window(b, r, w)
    BY <1>2, <2>1, <2>2 DEF QueueAtCall, Window
  <2>. QED
    BY <1>3, <2>3, <2>5, <2>6, Zenon DEF IInv
<1>. QED
  BY <1>4, <1>5, Zenon

LEMMA NextStep ==
  ASSUME IInv, [Next]_vars
  PROVE  /\ IInv'
         /\ [Stream!Next]_Stream!vars
<1>1. CASE (\E data \in Data : StartWrite(data)) \/ (\E len \in 0 .. MaxLen : StartRead(len))
  <2>1. written' = written /\ got' = got
    BY <1>1, Zenon DEF StartWrite, StartRead
  <2>. QED
    BY <1>1, <2>1, StartStep, Zenon DEF Stream!vars
<1>2. CASE WriteByte
  <2>1. written' = written /\ got' = got
    BY <1>2, Zenon DEF WriteByte
  <2>. QED
    BY <1>2, <2>1, WriteByteStep, Zenon DEF Stream!vars
<1>3. CASE ReadByte
  <2>1. written' = written /\ got' = got
    BY <1>3, Zenon DEF ReadByte
  <2>. QED
    BY <1>3, <2>1, ReadByteStep, Zenon DEF Stream!vars
<1>4. CASE WriteReturn
  BY <1>4, WriteReturnStep, Zenon DEF Stream!Next
<1>5. CASE ReadReturn
  BY <1>5, ReadReturnStep, Zenon DEF Stream!Next
<1>6. CASE UNCHANGED vars
  BY <1>6, Zenon DEF vars, IInv, TypeOK, OpInv, Window, Stream!vars, QueueAtCall
<1>. QED
  BY <1>1, <1>2, <1>3, <1>4, <1>5, <1>6, Zenon DEF Next, Loop

LEMMA InitStream == Init => Stream!Init
<1>. SUFFICES ASSUME Init PROVE Stream!Init
  BY Zenon
<1>1. buf \in Buffers /\ read_pos = 0 /\ write_pos = 0 /\ op = Idle /\ written = 0 /\ got = <<>>
  BY Zenon DEF Init, Buffers
<1>2. QueueAtCall = Window(buf, 0, 0)
  BY <1>1, Zenon DEF QueueAtCall, Idle
<1>3. Window(buf, 0, 0) = <<>>
  BY <1>1, WindowEmpty, Zenon
<1>. QED
  BY <1>1, <1>2, <1>3, Zenon DEF Stream!Init

\* The positions of a pipe never get more than its size apart, and the loops
\* of read_from_pipe and write_to_pipe keep their counters in range.
THEOREM PipeTypeCorrect == Spec => []TypeOK
<1>1. IInv /\ [Next]_vars => IInv'
  BY NextStep, Zenon
<1>2. IInv => TypeOK
  BY Zenon DEF IInv
<1>. QED
  BY <1>1, <1>2, InitInv, PTL DEF Spec

\* The byte-by-byte ring of fd.c implements the atomic, bounded byte stream of
\* PipeStream, for every buffer size.
THEOREM RingImplementsStream == Spec => ImplementsStream
<1>1. IInv /\ [Next]_vars => IInv' /\ [Stream!Next]_Stream!vars
  BY NextStep, Zenon
<1>. QED
  BY <1>1, InitInv, InitStream, PTL DEF Spec, ImplementsStream, Stream!Spec

-----------------------------------------------------------------------------
(* Datagrams.  The properties of the port table (Udp) are inductive together.
   The sockets see nothing of it but which ports are bound (BoundPorts):
   udp_bind adds one of them, udp_unbind takes one away, udp_deliver and
   udp_recv none.  So ServedIsBound needs no more than that a close which
   unbinds a port ends what the port was bound for. *)

PortType == [used : BOOLEAN, port : Nat, binding : Nat,
             q : [QSlots -> [seq : Nat, dst : Nat, binding : Nat]]]

UdpInv ==
  /\ ports \in [Slots -> PortType] /\ arrived \in Nat /\ bound \in Nat
  /\ PortsUnique /\ NoStaleDatagrams

BoundPorts == {ports[p].port : p \in Bound}

\* find_port finds the one entry that has the port bound.
LEMMA FindPortFinds ==
  ASSUME UdpInv, NEW port
  PROVE  /\ FindPort(port) = {p \in Bound : ports[p].port = port}
         /\ FindPort(port) # {} <=> port \in BoundPorts
<1>1. \A p \in Slots : p <= p BY DEF Slots
<1>2. FindPort(port) = {p \in Bound : ports[p].port = port}
  BY <1>1, ZenonT(60) DEF FindPort, Bound, UdpInv, PortsUnique
<1> QED BY <1>2, Zenon DEF BoundPorts

\* The empty table of static storage satisfies the invariant.
LEMMA UdpInitInv == UdpInit => UdpInv /\ BoundPorts = {}
<1> SUFFICES ASSUME UdpInit PROVE UdpInv /\ BoundPorts = {} BY Zenon
<1>1. Bound = {} BY Zenon DEF UdpInit, Bound
<1>2. ports \in [Slots -> PortType] /\ arrived \in Nat /\ bound \in Nat
  BY Zenon DEF UdpInit, PortType, NoDatagram
<1> QED BY <1>1, <1>2, Zenon DEF UdpInv, PortsUnique, NoStaleDatagrams, BoundPorts

\* udp_bind fills an unused entry, and only if the port is not bound.
LEMMA UdpBindInv ==
  ASSUME UdpInv, NEW port \in Nat, UdpBind(port)
  PROVE  UdpInv' /\ BoundPorts' = BoundPorts \cup {port}
<1> DEFINE e(p) == [used |-> TRUE, port |-> port, binding |-> bound + 1, q |-> Cleared(p)]
<1>1. PICK p \in NewlyBound(port) : ports' = [ports EXCEPT ![p] = e(p)]
  BY Zenon DEF UdpBind
<1>2. FindPort(port) = {} /\ p \in Slots /\ ~ports[p].used BY Zenon DEF NewlyBound, FreePorts
<1>3. ports \in [Slots -> PortType] /\ bound \in Nat /\ arrived \in Nat /\ bound' = bound + 1 /\ arrived' = arrived
  BY Zenon DEF UdpInv, UdpBind
<1>4. Cleared(p) \in [QSlots -> [seq : Nat, dst : Nat, binding : Nat]] /\ \A i \in QSlots : Cleared(p)[i] = NoDatagram
  BY Zenon DEF Cleared, NoDatagram
<1>5. e(p) \in PortType /\ e(p).used /\ e(p).port = port /\ e(p).q = Cleared(p)
  BY <1>3, <1>4 DEF PortType
<1> HIDE DEF e
<1>6. ports' \in [Slots -> PortType] /\ ports'[p] = e(p) /\ \A r \in Slots : r # p => ports'[r] = ports[r]
  BY <1>1, <1>2, <1>3, <1>5, Zenon
<1>7. Bound' = Bound \cup {p} /\ p \notin Bound BY <1>2, <1>5, <1>6, Zenon DEF Bound
<1>8. \A r \in Bound : ports[r].port # port /\ r \in Slots
  BY <1>2, FindPortFinds, Zenon DEF Bound
<1>9. PortsUnique' BY <1>5, <1>6, <1>7, <1>8 DEF UdpInv, PortsUnique
<1>10. \A r \in Bound : Queued(r)' = Queued(r) BY <1>6, <1>7, <1>8, Zenon DEF Queued
<1>11. Queued(p)' = {} BY <1>4, <1>5, <1>6, Zenon DEF Queued
<1>12. NoStaleDatagrams'
  BY <1>6, <1>7, <1>8, <1>10, <1>11 DEF UdpInv, NoStaleDatagrams
<1>13. BoundPorts' = BoundPorts \cup {port}
  BY <1>5, <1>6, <1>7, <1>8 DEF BoundPorts
<1> QED BY <1>3, <1>6, <1>9, <1>12, <1>13 DEF UdpInv

\* udp_unbind leaves the port unbound: no second entry has it.
LEMMA UdpUnbindInv ==
  ASSUME UdpInv, NEW port \in Nat, UdpUnbind(port)
  PROVE  UdpInv' /\ BoundPorts' = BoundPorts \ {port}
<1>1. PICK p \in FindPort(port) : ports' = [ports EXCEPT ![p].used = FALSE]
  BY Zenon DEF UdpUnbind
<1>2. p \in Bound /\ p \in Slots /\ ports[p].port = port BY FindPortFinds, Zenon DEF Bound
<1>3. ports \in [Slots -> PortType] /\ bound' = bound /\ arrived' = arrived BY Zenon DEF UdpInv, UdpUnbind
<1>4. ports' \in [Slots -> PortType] BY <1>1, <1>2, <1>3, ZenonT(60) DEF PortType
<1>5. ~ports'[p].used /\ \A r \in Slots : r # p => ports'[r] = ports[r] BY <1>1, <1>2, <1>3, Zenon DEF PortType
<1>6. Bound' = Bound \ {p} BY <1>5, Zenon DEF Bound
<1>7. \A r \in Bound' : r \in Slots /\ r \in Bound /\ ports'[r] = ports[r] /\ Queued(r)' = Queued(r)
  BY <1>5, <1>6, Zenon DEF Bound, Queued
<1>8. PortsUnique' BY <1>7, Zenon DEF UdpInv, PortsUnique
<1>9. NoStaleDatagrams' BY <1>7 DEF UdpInv, NoStaleDatagrams
<1>10. BoundPorts' = BoundPorts \ {port}
  BY <1>2, <1>6, <1>7 DEF UdpInv, PortsUnique, BoundPorts
<1> QED BY <1>3, <1>4, <1>8, <1>9, <1>10, Zenon DEF UdpInv

\* udp_deliver and udp_recv change one place of the queue of a bound port, to nothing or to a datagram
\* for this port and this binding.
LEMMA QueueInv ==
  ASSUME UdpInv, NEW port \in Nat, UdpDeliver(port) \/ UdpRecv(port)
  PROVE  UdpInv' /\ BoundPorts' = BoundPorts
<1>1. PICK p \in FindPort(port), i \in QSlots :
        \E d : /\ ports' = [ports EXCEPT ![p].q[i] = d]
               /\ d = NoDatagram \/ d = [seq |-> arrived + 1, dst |-> port, binding |-> ports[p].binding]
  <2>1. CASE UdpDeliver(port) BY <2>1, ZenonT(60) DEF UdpDeliver, Lowest, Vacant
  <2>2. CASE UdpRecv(port) BY <2>2, Zenon DEF UdpRecv, Lowest, Queued
  <2> QED BY <2>1, <2>2, Zenon
<1>2. PICK d : /\ ports' = [ports EXCEPT ![p].q[i] = d]
               /\ d = NoDatagram \/ d = [seq |-> arrived + 1, dst |-> port, binding |-> ports[p].binding]
  BY <1>1, Zenon
<1>3. p \in Bound /\ p \in Slots /\ ports[p].port = port BY FindPortFinds, Zenon DEF Bound
<1>4. /\ ports \in [Slots -> PortType] /\ arrived \in Nat /\ bound \in Nat
      /\ arrived' \in Nat /\ bound' \in Nat
  BY DEF UdpInv, UdpDeliver, UdpRecv
<1>5. ports[p].binding \in Nat /\ ports[p].q \in [QSlots -> [seq : Nat, dst : Nat, binding : Nat]]
  BY <1>3, <1>4, Zenon DEF PortType
<1>6. d \in [seq : Nat, dst : Nat, binding : Nat] BY <1>2, <1>4, <1>5 DEF NoDatagram
<1>7. ports' \in [Slots -> PortType] BY <1>2, <1>3, <1>4, <1>5, <1>6, ZenonT(60) DEF PortType
<1>8. /\ \A r \in Slots : /\ ports'[r].used = ports[r].used /\ ports'[r].port = ports[r].port
                          /\ ports'[r].binding = ports[r].binding
                          /\ r # p => ports'[r].q = ports[r].q
      /\ ports'[p].q[i] = d /\ \A j \in QSlots : j # i => ports'[p].q[j] = ports[p].q[j]
  BY <1>2, <1>3, <1>4, <1>5, ZenonT(60) DEF PortType
<1>9. Bound' = Bound BY <1>8, Zenon DEF Bound
<1>10. PortsUnique' BY <1>8, <1>9 DEF UdpInv, PortsUnique, Bound
<1>11. d # NoDatagram => d.dst = port /\ d.binding = ports[p].binding BY <1>2
<1>12. NoStaleDatagrams'
  BY <1>3, <1>8, <1>9, <1>11 DEF UdpInv, NoStaleDatagrams, Queued, Bound
<1>13. BoundPorts' = BoundPorts BY <1>8, <1>9 DEF BoundPorts, Bound
<1> QED BY <1>4, <1>7, <1>10, <1>12, <1>13, Zenon DEF UdpInv

-----------------------------------------------------------------------------
Sections == {"idle", "bind", "undo", "send", "deliver", "recv", "unbind"}
CallType == [at : Sections, fd : Fds, port : Nat, old : Nat]

DgramType ==
  /\ socks \in [Fds -> [used : BOOLEAN, port : Nat]] /\ eph_port \in Nat
  /\ call \in [Callers -> CallType] /\ served \in [Fds -> Nat]

\* ServedIsBound, of explicit values.
Served(so, se, bp) ==
  \A fd \in Fds : se[fd] # NoPort => so[fd].used /\ so[fd].port = se[fd] /\ se[fd] \in bp

DgramInv == UdpInv /\ DgramType /\ Served(socks, served, BoundPorts)

\* The ports of the program are numbers.
LEMMA PortNumbers == UdpPorts \subseteq Nat /\ PortSpace \in Nat \ {0} /\ FirstEph \in Nat
BY UdpAssumption, DgramAssumption

\* A step of a call to another section.
LEMMA CallGoes ==
  ASSUME DgramType, NEW k \in Callers, NEW rec \in CallType, GoesTo(k, rec)
  PROVE  call' \in [Callers -> CallType]
BY Zenon DEF DgramType, GoesTo

\* The local variables of a call that has not begun.
LEMMA NoCallTyped ==
  /\ NoCall \in CallType
  /\ \A port \in Nat, old \in Nat, fd \in Fds :
       /\ [NoCall EXCEPT !.at = "bind", !.fd = fd, !.port = port, !.old = old] \in CallType
       /\ [NoCall EXCEPT !.at = "send", !.fd = fd, !.port = port] \in CallType
       /\ [NoCall EXCEPT !.at = "recv", !.port = port] \in CallType
       /\ [NoCall EXCEPT !.at = "unbind", !.port = port] \in CallType
  /\ [NoCall EXCEPT !.at = "deliver"] \in CallType
<1>1. 0 \in Fds /\ NoPort \in Nat BY DgramAssumption DEF Fds, NoPort
<1>2. NoCall \in CallType BY <1>1, Zenon DEF NoCall, CallType, Sections
<1>3. ASSUME NEW r \in CallType, NEW port \in Nat, NEW old \in Nat, NEW fd \in Fds
      PROVE  /\ [r EXCEPT !.at = "bind", !.fd = fd, !.port = port, !.old = old] \in CallType
             /\ [r EXCEPT !.at = "send", !.fd = fd, !.port = port] \in CallType
             /\ [r EXCEPT !.at = "recv", !.port = port] \in CallType
             /\ [r EXCEPT !.at = "unbind", !.port = port] \in CallType
  BY Zenon DEF CallType, Sections
<1>4. \A r \in CallType : [r EXCEPT !.at = "deliver"] \in CallType BY Zenon DEF CallType, Sections
<1> QED BY <1>2, <1>3, <1>4, Zenon

\* When udp.c is not called, its table stays.
LEMMA UdpStays ==
  ASSUME UdpInv, UNCHANGED udpVars
  PROVE  UdpInv' /\ BoundPorts' = BoundPorts
BY DEF udpVars, UdpInv, PortsUnique, NoStaleDatagrams, Bound, Queued, BoundPorts

\* udp_bind that returns 0, by nm_bind or nm_sendto: the port is bound, for the socket too if that still has it.
LEMMA BindsPortInv ==
  ASSUME DgramInv, NEW fd \in Fds, NEW port \in Nat, BindsPort(fd, port), UNCHANGED socks
  PROVE  /\ UdpInv' /\ served' \in [Fds -> Nat]
         /\ Served(socks, served, BoundPorts)'
<1>1. UdpInv' /\ BoundPorts \subseteq BoundPorts' /\ port \in BoundPorts'
  <2>1. CASE UdpBind(port) BY <2>1, UdpBindInv, Zenon DEF DgramInv
  <2>2. CASE FindPort(port) # {} /\ UNCHANGED udpVars
    BY <2>2, UdpStays, FindPortFinds, Zenon DEF DgramInv
  <2> QED BY <2>1, <2>2, Zenon DEF BindsPort
<1>2. served \in [Fds -> Nat] BY Zenon DEF DgramInv, DgramType
<1>3. CASE socks[fd].used /\ socks[fd].port = port
  <2>1. served' = [served EXCEPT ![fd] = port] BY <1>3, Zenon DEF BindsPort, Serves
  <2> QED BY <1>1, <1>2, <1>3, <2>1, Zenon DEF DgramInv, Served
<1>4. CASE ~(socks[fd].used /\ socks[fd].port = port)
  <2>1. served' = served BY <1>4, Zenon DEF BindsPort, Serves
  <2> QED BY <1>1, <1>2, <2>1, Zenon DEF DgramInv, Served
<1> QED BY <1>3, <1>4, Zenon

-----------------------------------------------------------------------------
\* nm_socket takes an unused entry, for which nothing is served.
LEMMA SocketInv ==
  ASSUME DgramInv, NEW k \in Callers, Socket(k)
  PROVE  DgramInv'
<1>1. PICK f \in FreeFds : socks' = [socks EXCEPT ![f] = [used |-> TRUE, port |-> NoPort]]
  BY Zenon DEF Socket
<1>2. f \in Fds /\ ~socks[f].used BY Zenon DEF FreeFds
<1>3. UNCHANGED <<eph_port, call, served, udpVars>> BY Zenon DEF Socket
<1>4. UdpInv' /\ BoundPorts' = BoundPorts BY <1>3, UdpStays, Zenon DEF DgramInv
<1>5. DgramType' BY <1>1, <1>2, <1>3, Zenon DEF DgramInv, DgramType, NoPort
<1>6. Served(socks, served, BoundPorts)'
  BY <1>1, <1>2, <1>3, <1>4, Zenon DEF DgramInv, DgramType, Served
<1> QED BY <1>4, <1>5, <1>6, Zenon DEF DgramInv

\* nm_bind stores the port, and nm_bind whose port could not be bound stores the old one again.
LEMMA BindBeginInv ==
  ASSUME DgramInv, NEW k \in Callers, NEW fd \in Fds, NEW port \in UdpPorts \cup {NoPort}, BindBegin(k, fd, port)
  PROVE  DgramInv'
<1>1. port \in Nat /\ socks[fd].port \in Nat BY PortNumbers DEF NoPort, DgramInv, DgramType
<1>2. /\ socks' = [socks EXCEPT ![fd].port = port] /\ served' = [served EXCEPT ![fd] = NoPort]
      /\ UNCHANGED <<eph_port, udpVars>>
  BY Zenon DEF BindBegin
<1>3. UdpInv' /\ BoundPorts' = BoundPorts BY <1>2, UdpStays, Zenon DEF DgramInv
<1>4. call' \in [Callers -> CallType]
  BY <1>1, NoCallTyped, CallGoes, Zenon DEF BindBegin, DgramInv
<1>5. DgramType' BY <1>1, <1>2, <1>4, Zenon DEF DgramInv, DgramType, NoPort
<1>6. Served(socks, served, BoundPorts)' BY <1>2, <1>3, Zenon DEF DgramInv, DgramType, Served
<1> QED BY <1>3, <1>5, <1>6, Zenon DEF DgramInv

\* A bind that failed puts a port back into whatever socket has the number now.
LEMMA BindUndoInv ==
  ASSUME DgramInv, NEW k \in Callers, BindUndo(k)
  PROVE  DgramInv'
<1>1. call[k].fd \in Fds /\ call[k].old \in Nat BY Zenon DEF DgramInv, DgramType, CallType
<1>2. UNCHANGED <<eph_port, udpVars>> BY Zenon DEF BindUndo
<1>3. UdpInv' /\ BoundPorts' = BoundPorts BY <1>2, UdpStays, Zenon DEF DgramInv
<1>4. call' \in [Callers -> CallType] BY NoCallTyped, CallGoes, Zenon DEF BindUndo, Returns, DgramInv
<1>5. CASE socks[call[k].fd].used
  <2>1. /\ socks' = [socks EXCEPT ![call[k].fd].port = call[k].old]
        /\ served' = [served EXCEPT ![call[k].fd] = NoPort]
    BY <1>5, Zenon DEF BindUndo
  <2>2. DgramType' BY <1>1, <1>2, <1>4, <2>1, Zenon DEF DgramInv, DgramType, NoPort
  <2>3. Served(socks, served, BoundPorts)' BY <1>1, <1>3, <2>1, Zenon DEF DgramInv, DgramType, Served
  <2> QED BY <1>3, <2>2, <2>3, Zenon DEF DgramInv
<1>6. CASE ~socks[call[k].fd].used
  BY <1>2, <1>3, <1>4, <1>6, ZenonT(60) DEF BindUndo, DgramInv, DgramType, Served
<1> QED BY <1>5, <1>6, Zenon

\* The section of nm_bind that calls udp_bind.
LEMMA BindUdpInv ==
  ASSUME DgramInv, NEW k \in Callers, BindUdp(k)
  PROVE  DgramInv'
<1>1. call[k] \in CallType /\ call[k].fd \in Fds /\ call[k].port \in Nat BY Zenon DEF DgramInv, DgramType, CallType
<1>2. UNCHANGED <<socks, eph_port>> BY Zenon DEF BindUdp
<1>3. CASE BindsPort(call[k].fd, call[k].port) /\ Returns(k)
  <2>1. UdpInv' /\ served' \in [Fds -> Nat] /\ Served(socks, served, BoundPorts)'
    BY <1>1, <1>2, <1>3, BindsPortInv, Zenon
  <2>2. call' \in [Callers -> CallType] BY <1>3, NoCallTyped, CallGoes, Zenon DEF Returns, DgramInv
  <2> QED BY <1>2, <2>1, <2>2, Zenon DEF DgramInv, DgramType
<1>4. CASE GoesTo(k, [call[k] EXCEPT !.at = "undo"]) /\ UNCHANGED <<served, udpVars>>
  <2>1. UdpInv' /\ BoundPorts' = BoundPorts BY <1>4, UdpStays, Zenon DEF DgramInv
  <2>2. [call[k] EXCEPT !.at = "undo"] \in CallType BY <1>1, Zenon DEF CallType, Sections
  <2>3. call' \in [Callers -> CallType] BY <1>4, <2>2, CallGoes, Zenon DEF DgramInv
  <2> QED BY <1>2, <1>4, <2>1, <2>3, Zenon DEF DgramInv, DgramType
<1> QED BY <1>3, <1>4, Zenon DEF BindUdp

\* nm_sendto keeps the port that a socket has, and gives an ephemeral one to a socket that has none and
\* so is not served.
LEMMA SendBeginInv ==
  ASSUME DgramInv, NEW k \in Callers, NEW fd \in Fds, SendBegin(k, fd)
  PROVE  DgramInv'
<1>1. /\ socks[fd].port \in Nat /\ eph_port \in Nat /\ NextEph(eph_port) \in Nat
  BY PortNumbers DEF DgramInv, DgramType, NextEph
<1>2. /\ socks' = [socks EXCEPT ![fd].port = SourcePort(fd)]
      /\ eph_port' = IF socks[fd].port = NoPort THEN NextEph(eph_port) ELSE eph_port
      /\ UNCHANGED <<served, udpVars>>
  BY Zenon DEF SendBegin
<1>3. SourcePort(fd) \in Nat /\ (socks[fd].port # NoPort => SourcePort(fd) = socks[fd].port)
  BY <1>1, Zenon DEF SourcePort
<1>4. UdpInv' /\ BoundPorts' = BoundPorts BY <1>2, UdpStays, Zenon DEF DgramInv
<1>5. call' \in [Callers -> CallType]
  BY <1>3, NoCallTyped, CallGoes, Zenon DEF SendBegin, DgramInv
<1>6. DgramType' BY <1>1, <1>2, <1>3, <1>5, Zenon DEF DgramInv, DgramType
<1>7. \A g \in Fds : socks'[g].used = socks[g].used /\ (socks[g].port # NoPort => socks'[g].port = socks[g].port)
  BY <1>2, <1>3, Zenon DEF DgramInv, DgramType
<1>8. Served(socks, served, BoundPorts)' BY <1>2, <1>4, <1>7, ZenonT(60) DEF DgramInv, Served
<1> QED BY <1>4, <1>6, <1>8, Zenon DEF DgramInv

\* The section of nm_sendto that calls udp_bind.
LEMMA SendBindInv ==
  ASSUME DgramInv, NEW k \in Callers, SendBind(k)
  PROVE  DgramInv'
<1>1. call[k].fd \in Fds /\ call[k].port \in Nat BY Zenon DEF DgramInv, DgramType, CallType
<1>2. UNCHANGED <<socks, eph_port>> BY Zenon DEF SendBind
<1>3. call' \in [Callers -> CallType] BY NoCallTyped, CallGoes, Zenon DEF SendBind, Returns, DgramInv
<1>4. CASE BindsPort(call[k].fd, call[k].port)
  <2>1. UdpInv' /\ served' \in [Fds -> Nat] /\ Served(socks, served, BoundPorts)'
    BY <1>1, <1>2, <1>4, BindsPortInv, Zenon
  <2> QED BY <1>2, <1>3, <2>1, Zenon DEF DgramInv, DgramType
<1>5. CASE UNCHANGED <<served, udpVars>>
  <2>1. UdpInv' /\ BoundPorts' = BoundPorts BY <1>5, UdpStays, Zenon DEF DgramInv
  <2> QED BY <1>2, <1>3, <1>5, <2>1, Zenon DEF DgramInv, DgramType
<1> QED BY <1>4, <1>5, Zenon DEF SendBind

\* Sections that unbind no port and leave the sockets as they are: the rest of nm_sendto, nm_recvfrom
\* and udp_input.
LEMMA QuietInv ==
  ASSUME DgramInv, UNCHANGED <<socks, eph_port, served>>, call' \in [Callers -> CallType],
         NEW port \in Nat, UdpDeliver(port) \/ UdpRecv(port) \/ UNCHANGED udpVars
  PROVE  DgramInv'
<1>1. UdpInv' /\ BoundPorts' = BoundPorts BY QueueInv, UdpStays, Zenon DEF DgramInv
<1> QED BY <1>1, Zenon DEF DgramInv, DgramType

\* nm_close_socket ends what was served for the socket.
LEMMA CloseBeginInv ==
  ASSUME DgramInv, NEW k \in Callers, NEW fd \in Fds, CloseBegin(k, fd)
  PROVE  DgramInv'
<1>1. socks[fd].port \in Nat BY Zenon DEF DgramInv, DgramType
<1>2. /\ socks' = [socks EXCEPT ![fd].used = FALSE] /\ served' = [served EXCEPT ![fd] = NoPort]
      /\ UNCHANGED <<eph_port, udpVars>>
  BY Zenon DEF CloseBegin
<1>3. UdpInv' /\ BoundPorts' = BoundPorts BY <1>2, UdpStays, Zenon DEF DgramInv
<1>4. call' \in [Callers -> CallType]
  <2>1. CASE socks[fd].port # NoPort BY <1>1, <2>1, NoCallTyped, CallGoes, Zenon DEF CloseBegin, DgramInv
  <2>2. CASE ~(socks[fd].port # NoPort) BY <2>2, Zenon DEF CloseBegin, DgramInv, DgramType
  <2> QED BY <2>1, <2>2, Zenon
<1>5. DgramType' BY <1>1, <1>2, <1>4, Zenon DEF DgramInv, DgramType, NoPort
<1>6. Served(socks, served, BoundPorts)' BY <1>2, <1>3, Zenon DEF DgramInv, DgramType, Served
<1> QED BY <1>3, <1>5, <1>6, Zenon DEF DgramInv

\* udp_unbind takes the port from all sockets that share it, and from no other.
LEMMA CloseUdpInv ==
  ASSUME DgramInv, NEW k \in Callers, CloseUdp(k)
  PROVE  DgramInv'
<1>1. call[k].port \in Nat /\ UNCHANGED <<socks, eph_port>> BY Zenon DEF DgramInv, DgramType, CallType, CloseUdp
<1>2. UdpInv' /\ BoundPorts \ {call[k].port} \subseteq BoundPorts'
  BY <1>1, UdpUnbindInv, UdpStays, Zenon DEF CloseUdp, DgramInv
<1>3. served' = [fd \in Fds |-> IF served[fd] = call[k].port THEN NoPort ELSE served[fd]] BY Zenon DEF CloseUdp
<1>4. call' \in [Callers -> CallType] BY NoCallTyped, CallGoes, Zenon DEF CloseUdp, Returns, DgramInv
<1>5. DgramType' BY <1>1, <1>3, <1>4, Zenon DEF DgramInv, DgramType, NoPort
<1>6. Served(socks, served, BoundPorts)' BY <1>1, <1>2, <1>3, Zenon DEF DgramInv, Served
<1> QED BY <1>2, <1>5, <1>6, Zenon DEF DgramInv

-----------------------------------------------------------------------------
\* No socket is open, no port is bound and no call is in progress when the kernel starts.
LEMMA DgramInitInv == DgramInit => DgramInv
<1> SUFFICES ASSUME DgramInit PROVE DgramInv BY Zenon
<1>1. UdpInv BY UdpInitInv, Zenon DEF DgramInit
<1>2. DgramType BY NoCallTyped, PortNumbers, Zenon DEF DgramInit, DgramType, NoPort
<1>3. Served(socks, served, BoundPorts) BY Zenon DEF DgramInit, Served
<1> QED BY <1>1, <1>2, <1>3, Zenon DEF DgramInv

\* Every section of every call, and every datagram from the network, keeps the invariant.
LEMMA DgramNextInv ==
  ASSUME DgramInv, [DgramNext]_dgramVars
  PROVE  DgramInv'
<1>1. CASE UNCHANGED dgramVars
  <2>1. UNCHANGED <<socks, eph_port, served, call, udpVars>> BY <1>1, Zenon DEF dgramVars, sockVars
  <2>2. UdpInv' /\ BoundPorts' = BoundPorts BY <2>1, UdpStays, Zenon DEF DgramInv
  <2> QED BY <2>1, <2>2, Zenon DEF DgramInv, DgramType
<1>2. ASSUME NEW k \in Callers,
             Socket(k) \/ BindUdp(k) \/ BindUndo(k) \/ SendBind(k) \/ RecvUdp(k) \/ CloseUdp(k)
      PROVE  DgramInv'
  <2>1. CASE RecvUdp(k)
    <3>1. call[k].port \in Nat BY Zenon DEF DgramInv, DgramType, CallType
    <3>2. call' \in [Callers -> CallType] BY <2>1, NoCallTyped, CallGoes, Zenon DEF RecvUdp, Returns, DgramInv
    <3> QED BY <2>1, <3>1, <3>2, QuietInv, Zenon DEF RecvUdp
  <2> QED BY <1>2, <2>1, SocketInv, BindUdpInv, BindUndoInv, SendBindInv, CloseUdpInv, Zenon
<1>3. ASSUME NEW k \in Callers, NEW dst \in UdpPorts, SendDeliver(k, dst) PROVE DgramInv'
  <2>1. call' \in [Callers -> CallType] BY <1>3, NoCallTyped, CallGoes, Zenon DEF SendDeliver, Returns, DgramInv
  <2> QED BY <1>3, <2>1, PortNumbers, QuietInv, Zenon DEF SendDeliver
<1>4. ASSUME NEW k \in Callers, NEW fd \in Fds, SendBegin(k, fd) \/ RecvBegin(k, fd) \/ CloseBegin(k, fd)
      PROVE  DgramInv'
  <2>1. CASE RecvBegin(k, fd)
    <3>1. socks[fd].port \in Nat BY Zenon DEF DgramInv, DgramType
    <3>2. call' \in [Callers -> CallType] BY <2>1, <3>1, NoCallTyped, CallGoes, Zenon DEF RecvBegin, DgramInv
    <3> QED BY <2>1, <3>1, <3>2, QuietInv, Zenon DEF RecvBegin
  <2> QED BY <1>4, <2>1, SendBeginInv, CloseBeginInv, Zenon
<1>5. ASSUME NEW k \in Callers, NEW fd \in Fds, NEW port \in UdpPorts \cup {NoPort}, BindBegin(k, fd, port)
      PROVE  DgramInv'
  BY <1>5, BindBeginInv, Zenon
<1>6. ASSUME NEW dst \in UdpPorts, Input(dst) PROVE DgramInv'
  <2>1. UNCHANGED <<socks, eph_port, served, call>> /\ UdpDeliver(dst) BY <1>6, Zenon DEF Input, sockVars
  <2>2. call' \in [Callers -> CallType] BY <2>1, Zenon DEF DgramInv, DgramType
  <2> QED BY <2>1, <2>2, PortNumbers, QuietInv, Zenon
<1> QED BY <1>1, <1>2, <1>3, <1>4, <1>5, <1>6, Zenon DEF DgramNext

\* Nothing that callers of socket.c and the network do, in any interleaving, breaks the invariant.
THEOREM DgramInvariant == DgramSpec => []DgramInv
<1>1. DgramInv /\ [DgramNext]_dgramVars => DgramInv' BY DgramNextInv, Zenon
<1> QED BY DgramInitInv, <1>1, PTL DEF DgramSpec

\* A port number is bound by one entry of the table at most (udp_bind).
THEOREM PortsBoundOnce == DgramSpec => []PortsUnique
<1>1. DgramInv => PortsUnique BY Zenon DEF DgramInv, UdpInv
<1> QED BY <1>1, DgramInvariant, PTL

\* No datagram outlives the binding it was sent to (udp_bind, udp_unbind, udp_deliver).
THEOREM DatagramsOfThisBinding == DgramSpec => []NoStaleDatagrams
<1>1. DgramInv => NoStaleDatagrams BY Zenon DEF DgramInv, UdpInv
<1> QED BY <1>1, DgramInvariant, PTL

\* A port that was bound for a socket stays bound until one of the listed calls ends it
\* (nm_bind, nm_sendto, nm_close_socket).
THEOREM ServedStaysBound == DgramSpec => []ServedIsBound
<1>1. DgramInv => ServedIsBound BY FindPortFinds, Zenon DEF DgramInv, Served, ServedIsBound
<1> QED BY <1>1, DgramInvariant, PTL
=============================================================================
