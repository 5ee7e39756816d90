--------------------------- MODULE MemoryProofs ---------------------------
(***************************************************************************)
(* Proofs about Pmm and Kheap, for any page and word size, any memory maps *)
(* and any place of the reserved ranges, and for any sizes of headers and  *)
(* blocks and any number of blocks.                                        *)
(***************************************************************************)
EXTENDS Kheap, FiniteSetTheorems, TLAPS

-----------------------------------------------------------------------------
(* Sequences *)

\* A sequence over S is a function from 1 .. n to S.
LEMMA SeqIs == \A S : Seq(S) = UNION {[1 .. n -> S] : n \in Nat}
OBVIOUS

\* Its length is a natural number, and its domain.
LEMMA SeqLen ==
  ASSUME NEW S, NEW s \in Seq(S)
  PROVE  Len(s) \in Nat /\ s \in [1 .. Len(s) -> S] /\ DOMAIN s = 1 .. Len(s)
OBVIOUS

\* The items of a concatenation.
LEMMA SeqConcat ==
  ASSUME NEW S, NEW s \in Seq(S), NEW t \in Seq(S)
  PROVE  /\ s \o t \in Seq(S) /\ Len(s \o t) = Len(s) + Len(t)
         /\ \A i \in 1 .. Len(s) + Len(t) : (s \o t)[i] = IF i <= Len(s) THEN s[i] ELSE t[i - Len(s)]
OBVIOUS

\* The items of a part of a sequence.
LEMMA SeqPart ==
  ASSUME NEW S, NEW s, NEW m \in Int, NEW n \in Int, \A i \in m .. n : s[i] \in S
  PROVE  /\ SubSeq(s, m, n) \in Seq(S)
         /\ Len(SubSeq(s, m, n)) = IF m <= n THEN n - m + 1 ELSE 0
         /\ \A i \in 1 .. n - m + 1 : SubSeq(s, m, n)[i] = s[m + i - 1]
OBVIOUS

-----------------------------------------------------------------------------
(* Division *)

\* The quotient and the remainder of a division by a positive number.
LEMMA DivFacts ==
  ASSUME NEW n \in Nat, NEW d \in Nat \ {0}
  PROVE  n \div d \in Nat /\ (n \div d) * d <= n /\ n < (n \div d) * d + d
OBVIOUS

\* Products keep the order.
LEMMA MulMono ==
  ASSUME NEW a \in Nat, NEW b \in Nat, NEW d \in Nat \ {0}, a <= b
  PROVE  a * d <= b * d
OBVIOUS

\* Division keeps the order.
LEMMA DivMono ==
  ASSUME NEW a \in Nat, NEW b \in Nat, NEW d \in Nat \ {0}, a <= b
  PROVE  a \div d <= b \div d
<1> SUFFICES ASSUME b \div d + 1 <= a \div d PROVE FALSE  BY DivFacts
<1>1. (b \div d + 1) * d <= (a \div d) * d  BY DivFacts, MulMono
<1>2. (b \div d + 1) * d = (b \div d) * d + d  BY DivFacts
<1> QED  BY <1>1, <1>2, DivFacts

\* Rounding up loses nothing.
LEMMA CeilDivFacts ==
  ASSUME NEW n \in Nat, NEW d \in Nat \ {0}
  PROVE  CeilDiv(n, d) \in Nat /\ n <= CeilDiv(n, d) * d
<1>1. n + d - 1 \in Nat  OBVIOUS
<1>2. (n + d - 1) \div d \in Nat /\ n + d - 1 < ((n + d - 1) \div d) * d + d  BY <1>1, DivFacts, Zenon
<1> QED  BY <1>2 DEF CeilDiv

\* Page f shares a byte with base .. end-1 only if it is between the quotients.
LEMMA OverlapBounds ==
  ASSUME NEW f \in Nat, NEW base \in Nat, NEW end \in Nat, NEW p \in Nat \ {0},
         f * p < end, base < (f + 1) * p
  PROVE  base \div p <= f /\ f < CeilDiv(end, p)
<1>1. base \div p \in Nat /\ (base \div p) * p <= base  BY DivFacts, Zenon
<1>2. CeilDiv(end, p) \in Nat /\ end <= CeilDiv(end, p) * p  BY CeilDivFacts, Zenon
<1>3. ~(f + 1 <= base \div p)
  <2> SUFFICES ASSUME f + 1 <= base \div p PROVE FALSE  BY Zenon
  <2>1. (f + 1) * p <= (base \div p) * p  BY <1>1, MulMono
  <2> QED  BY <1>1, <2>1
<1>4. ~(CeilDiv(end, p) <= f)
  <2> SUFFICES ASSUME CeilDiv(end, p) <= f PROVE FALSE  BY Zenon
  <2>1. CeilDiv(end, p) * p <= f * p  BY <1>2, MulMono, Zenon
  <2> QED  BY <1>2, <2>1
<1> QED  BY <1>1, <1>2, <1>3, <1>4

\* A frame with a byte of a range is among those reserve_range marks.
LEMMA SharedIsTouched ==
  ASSUME NEW r, r.base \in Nat, r.len \in Nat, NEW f \in SharesByte(r), frame_limit \in Nat
  PROVE  f \in Touched(r)
<1>1. f \in Frames /\ f \in Nat /\ r.base + r.len \in Nat  BY DEF SharesByte, Frames
<1>2. f * Page < r.base + r.len /\ r.base < (f + 1) * Page  BY Zenon DEF SharesByte
<1>3. Page \in Nat \ {0}  BY PmmAssumption, Zenon
<1>4. r.base \div Page <= f /\ f < CeilDiv(r.base + r.len, Page)
  BY <1>1, <1>2, <1>3, OverlapBounds, Zenon
<1> QED  BY <1>1, <1>4, Zenon DEF Touched, Clip

\* The bitmap has a bit for every frame.
LEMMA FramesHaveBits ==
  ASSUME frame_limit \in Nat
  PROVE  Frames \subseteq Bits /\ Words(frame_limit) \in Nat
<1>1. Words(frame_limit) \in Nat /\ frame_limit <= Words(frame_limit) * WordBits
  BY PmmAssumption, CeilDivFacts, Zenon DEF Words
<1>2. Words(frame_limit) * WordBits \in Nat  BY <1>1, PmmAssumption
<1> QED  BY <1>1, <1>2 DEF Frames, Bits

\* The word of a frame, or the one after the last, is a value for the cursor.
LEMMA CursorInRange ==
  ASSUME frame_limit \in Nat, NEW f \in Nat, f <= frame_limit
  PROVE  f \div WordBits \in 0 .. Words(frame_limit)
<1>1. frame_limit + WordBits - 1 \in Nat /\ f <= frame_limit + WordBits - 1  BY PmmAssumption
<1>2. f \div WordBits <= (frame_limit + WordBits - 1) \div WordBits
  BY <1>1, PmmAssumption, DivMono, Zenon
<1>3. f \div WordBits \in Nat /\ (frame_limit + WordBits - 1) \div WordBits \in Nat
  BY <1>1, PmmAssumption, DivFacts, Zenon
<1> QED  BY <1>2, <1>3 DEF Words, CeilDiv

-----------------------------------------------------------------------------
(* The invariant *)

\* The plan ends with the four reservations, and those already made hold.
KeptInv ==
  /\ Len(plan) >= 4
  /\ \A i \in 1 .. 4 :
       LET k == Kept(frame_limit)[i]  at == Len(plan) - 4 + i IN
       /\ plan[at].type = "keep" /\ plan[at].base = k.base /\ plan[at].len = k.len
       /\ step > at => \A f \in Touched(k) : f \in used /\ granted[f] = 0

IInv ==
  /\ TypeOK /\ CountsExact /\ HeldOnce /\ SlackStaysSet /\ KeptInv
  /\ Booted \/ \A f \in Frames : granted[f] = 0

\* The bitmap covers no frame beyond MAX_FRAMES.
LEMMA FramesKnown ==
  TypeOK => /\ Frames \subseteq AllFrames /\ frame_limit \in Nat \ {0}
            /\ \A g \in Frames : granted[g] \in Nat
<1> SUFFICES ASSUME TypeOK
             PROVE  /\ Frames \subseteq AllFrames /\ frame_limit \in Nat \ {0}
                    /\ \A g \in Frames : granted[g] \in Nat
  BY Zenon
<1>1. frame_limit \in Nat \ {0} /\ frame_limit <= MaxFrames /\ MaxFrames \in Nat
  BY PmmAssumption DEF TypeOK
<1>2. Frames \subseteq AllFrames  BY <1>1 DEF Frames, AllFrames
<1>3. granted \in [AllFrames -> Nat]  BY Zenon DEF TypeOK
<1> QED  BY <1>1, <1>2, <1>3, Zenon

\* The sets that are counted are finite.
LEMMA FreeFinite ==
  ASSUME TypeOK
  PROVE  /\ IsFiniteSet(Free) /\ Cardinality(Free) \in Nat
         /\ IsFiniteSet(Frames) /\ Cardinality(Frames) = frame_limit
         /\ Cardinality(Free) <= frame_limit
<1>1. 0 \in Int /\ frame_limit - 1 \in Int  BY FramesKnown
<1>2. IsFiniteSet(Frames) /\ Cardinality(Frames) = frame_limit
  BY <1>1, FramesKnown, FS_Interval DEF Frames
<1>3. Free \subseteq Frames  BY Zenon DEF Free
<1>4. IsFiniteSet(Free) /\ Cardinality(Free) <= Cardinality(Frames)  BY <1>2, <1>3, FS_Subset, Zenon
<1> QED  BY <1>2, <1>4, FS_CardinalityType, Zenon

\* Setting the bits of free frames takes that many frames from the free ones.
LEMMA TakeCounts ==
  ASSUME TypeOK, NEW fs \in SUBSET Free, used' = used \cup fs, frame_limit' = frame_limit
  PROVE  /\ Free' = Free \ fs /\ IsFiniteSet(fs) /\ Cardinality(fs) \in Nat
         /\ Cardinality(Free') = Cardinality(Free) - Cardinality(fs)
         /\ Cardinality(fs) <= Cardinality(Free)
<1>1. Free' = Free \ fs  BY Zenon DEF Free, Frames
<1>2. IsFiniteSet(fs) /\ Cardinality(fs) <= Cardinality(Free)  BY FreeFinite, FS_Subset, Zenon
<1>3. Cardinality(fs) \in Nat  BY <1>2, FS_CardinalityType, Zenon
<1>4. Cardinality(Free \ fs) = Cardinality(Free) - Cardinality(Free \cap fs)
  BY FreeFinite, FS_Difference, Zenon
<1>5. Free \cap fs = fs  BY Zenon
<1> QED  BY <1>1, <1>2, <1>3, <1>4, <1>5, Zenon

\* Clearing the bits of used frames adds that many frames to the free ones.
LEMMA GiveCounts ==
  ASSUME TypeOK, NEW fs \in SUBSET (Frames \cap used), used' = used \ fs, frame_limit' = frame_limit
  PROVE  /\ Free' = Free \cup fs /\ Cardinality(fs) \in Nat
         /\ Cardinality(Free') = Cardinality(Free) + Cardinality(fs)
         /\ Cardinality(Free') <= frame_limit
<1>1. Free' = Free \cup fs /\ Free \cap fs = {}  BY Zenon DEF Free, Frames
<1>2. IsFiniteSet(fs)  BY FreeFinite, FS_Subset, Zenon
<1>3. Cardinality(fs) \in Nat  BY <1>2, FS_CardinalityType, Zenon
<1>4. Cardinality(Free \cup fs) = Cardinality(Free) + Cardinality(fs) - Cardinality(Free \cap fs)
  BY <1>2, FreeFinite, FS_Union, Zenon
<1>5. Cardinality(Free \cap fs) = 0  BY <1>1, FS_EmptySet, Zenon
<1>6. Free \cup fs \subseteq Frames  BY Zenon DEF Free
<1>7. Cardinality(Free \cup fs) <= frame_limit  BY <1>6, FreeFinite, FS_Subset, ZenonT(60)
<1> QED  BY <1>1, <1>3, <1>4, <1>5, <1>7, FreeFinite

-----------------------------------------------------------------------------
(* Boot *)

\* The reserved ranges are ranges of bytes.
LEMMA KeptType ==
  ASSUME NEW limit \in Nat
  PROVE  \A i \in 1 .. 4 : Kept(limit)[i].base \in Nat /\ Kept(limit)[i].len \in Nat
<1>1. /\ Low.base \in Nat /\ Low.len \in Nat /\ Kernel.base \in Nat /\ Kernel.len \in Nat
      /\ Info.base \in Nat /\ Info.len \in Nat
      /\ Page \in Nat \ {0} /\ WordBits \in Nat \ {0} /\ WordBytes \in Nat \ {0}
  BY PmmAssumption, Zenon
<1>2. BitmapRange(limit).base \in Nat
  <2>1. CeilDiv(Kernel.base + Kernel.len, Page) \in Nat /\ CeilDiv(Info.base + Info.len, Page) \in Nat
    BY <1>1, CeilDivFacts, SMTT(60)
  <2> QED  BY <1>1, <2>1 DEF BitmapRange
<1>3. BitmapRange(limit).len \in Nat
  <2>1. Words(limit) \in Nat  BY <1>1, CeilDivFacts, Zenon DEF Words
  <2> QED  BY <1>1, <2>1 DEF BitmapRange
<1> QED  BY <1>1, <1>2, <1>3 DEF Kept

\* pmm_init leaves all bits set and nothing counted as free.
LEMMA InitIInv == Init => IInv
<1> SUFFICES ASSUME Init PROVE IInv  BY Zenon
<1>1. PICK map \in Maps : \E end \in HighestEnd(map) :
        frame_limit = FrameLimit(end) /\ plan = Plan(map, FrameLimit(end))
  BY Zenon DEF Init
<1>2. PICK end \in HighestEnd(map) :
        frame_limit = FrameLimit(end) /\ plan = Plan(map, FrameLimit(end))
  BY <1>1, Zenon
<1>3. map \in Seq(Ranges)  BY PmmAssumption, Zenon
<1>4. frame_limit \in Nat \ {0} /\ frame_limit \in 1 .. MaxFrames
  <2>1. end \in Ends(map)  BY Zenon DEF HighestEnd
  <2>2. \A i \in DOMAIN map : map[i].base \in Nat /\ map[i].len \in Nat
    <3>1. \A i \in DOMAIN map : map[i] \in Ranges  BY <1>3
    <3> QED  BY <3>1, Zenon DEF Ranges
  <2>3. end \in Nat  BY <2>1, <2>2 DEF Ends
  <2>4. Page \in Nat \ {0} /\ MaxFrames \in Nat \ {0}  BY PmmAssumption, Zenon
  <2>5. end \div Page \in Nat  BY <2>3, <2>4, DivFacts, Zenon
  <2> QED  BY <1>2, <2>4, <2>5 DEF FrameLimit
<1>5. plan = map \o Reservations(frame_limit)  BY <1>2, Zenon DEF Plan
<1>6. Reservations(frame_limit) \in Seq(Ranges) /\ Len(Reservations(frame_limit)) = 4
  <2>1. Reservations(frame_limit) \in [1 .. 4 -> Ranges]
    BY <1>4, KeptType, Zenon DEF Reservations, Ranges
  <2>2. Reservations(frame_limit) \in UNION {[1 .. n -> Ranges] : n \in Nat}  BY <2>1, Zenon
  <2>3. Reservations(frame_limit) \in Seq(Ranges)  BY <2>2, SeqIs, Zenon
  <2>4. DOMAIN Reservations(frame_limit) = 1 .. 4  BY <2>1, Zenon
  <2>5. DOMAIN Reservations(frame_limit) = 1 .. Len(Reservations(frame_limit))
    BY <2>3, SeqLen, Zenon
  <2>6. Len(Reservations(frame_limit)) \in Nat  BY <2>3, SeqLen, Zenon
  <2>7. Len(Reservations(frame_limit)) = 4  BY <2>4, <2>5, <2>6
  <2> QED  BY <2>3, <2>7, Zenon
<1>7. plan \in Seq(Ranges) /\ Len(plan) = Len(map) + 4 /\ Len(map) \in Nat
  <2>1. plan \in Seq(Ranges) /\ Len(plan) = Len(map) + Len(Reservations(frame_limit))
    BY <1>3, <1>5, <1>6, SeqConcat, Zenon
  <2>2. Len(map) \in Nat  BY <1>3, SeqLen, Zenon
  <2> QED  BY <1>6, <2>1, <2>2, Zenon
<1>8. \A i \in 1 .. 4 : plan[Len(plan) - 4 + i] = Reservations(frame_limit)[i]
  BY <1>3, <1>5, <1>6, <1>7
<1>9. step = 1 /\ used = Bits /\ granted = [f \in AllFrames |-> 0]  BY Zenon DEF Init
<1>10. KeptInv
  <2>1. \A i \in 1 .. 4 :
          /\ Reservations(frame_limit)[i].type = "keep"
          /\ Reservations(frame_limit)[i].base = Kept(frame_limit)[i].base
          /\ Reservations(frame_limit)[i].len = Kept(frame_limit)[i].len
    BY Zenon DEF Reservations
  <2>2. \A i \in 1 .. 4 : ~(step > Len(plan) - 4 + i)  BY <1>7, <1>9
  <2> QED  BY <1>7, <1>8, <2>1, <2>2 DEF KeptInv
<1>11. TypeOK
  <2>1. Words(frame_limit) \in Nat  BY <1>4, FramesHaveBits, Zenon
  <2> QED  BY <1>4, <1>7, <1>9, <2>1 DEF Init, TypeOK
<1>12. CountsExact
  <2>1. Free = {}  BY <1>4, <1>9, FramesHaveBits, Zenon DEF Free
  <2>2. Cardinality(Free) = 0  BY <2>1, FS_EmptySet, Zenon
  <2> QED  BY <1>4, <2>2 DEF Init, CountsExact
<1>13. \A f \in Frames : granted[f] = 0  BY <1>9, <1>11, FramesKnown, Zenon
<1>14. HeldOnce /\ SlackStaysSet  BY <1>9, <1>13 DEF HeldOnce, SlackStaysSet
<1> QED  BY <1>10, <1>11, <1>12, <1>13, <1>14, Zenon DEF IInv

\* A range that becomes available is met before the reservations.
LEMMA AvailablePreserves ==
  ASSUME IInv, BootStep, NEW r, r = plan[step], r.type = "available", MarkAvailable(r)
  PROVE  IInv'
<1> DEFINE fs == Changed(Inside(r), TRUE)
<1>0. TypeOK /\ CountsExact /\ SlackStaysSet /\ HeldOnce /\ KeptInv  BY Zenon DEF IInv
<1>1. /\ step \in Nat /\ Len(plan) \in Nat /\ step <= Len(plan) /\ step' = step + 1
      /\ UNCHANGED <<frame_limit, plan, alloc_word_cursor, granted>>
  BY <1>0 DEF BootStep, Booted, TypeOK
<1>2. fs \in SUBSET (Frames \cap used)  BY Zenon DEF Changed, Inside, Clip
<1>3. /\ used' = used \ fs /\ reserved_frames' = reserved_frames
      /\ free_frames' = free_frames + Cardinality(fs) /\ used_frames' = used_frames - Cardinality(fs)
  BY Zenon DEF MarkAvailable
<1> HIDE DEF fs
<1>4. /\ Cardinality(fs) \in Nat /\ Cardinality(Free') = Cardinality(Free) + Cardinality(fs)
      /\ Cardinality(Free') <= frame_limit
  BY <1>0, <1>1, <1>2, <1>3, GiveCounts, Zenon
<1>5. free_frames' = Cardinality(Free') /\ used_frames' = frame_limit - free_frames' /\ free_frames' \in Nat
  <2>1. free_frames = Cardinality(Free) /\ used_frames = frame_limit - free_frames
    BY <1>0, Zenon DEF CountsExact
  <2>2. free_frames \in Nat /\ frame_limit \in Nat  BY <1>0 DEF TypeOK
  <2> QED  BY <1>3, <1>4, <2>1, <2>2
<1>6. Bits' = Bits /\ Frames' = Frames  BY <1>1, Zenon DEF Bits, Frames
<1>7. TypeOK'
  <2>1. used_frames' \in Nat  BY <1>0, <1>4, <1>5, SMTT(60) DEF TypeOK
  <2> QED  BY <1>0, <1>1, <1>3, <1>5, <1>6, <2>1, SMTT(60) DEF TypeOK
<1>8. CountsExact'  BY <1>1, <1>5, Zenon DEF CountsExact
<1>9. SlackStaysSet'  BY <1>0, <1>2, <1>3, <1>6, Zenon DEF SlackStaysSet
<1>10. \A f \in Frames : granted[f] = 0  BY <1>1, Zenon DEF IInv, BootStep
<1>11. HeldOnce'  BY <1>1, <1>6, <1>10 DEF HeldOnce
<1>12. KeptInv'
  <2>1. \A i \in 1 .. 4 : step # Len(plan) - 4 + i  BY <1>0, SMTT(60) DEF KeptInv
  <2>2. Len(plan) >= 4  BY <1>0, Zenon DEF KeptInv
  <2>3. step < Len(plan) - 3  BY <1>1, <2>1, <2>2
  <2>4. \A i \in 1 .. 4 : ~(step' > Len(plan) - 4 + i)  BY <1>1, <2>3
  <2> QED  BY <1>0, <1>1, <2>4, SMTT(60) DEF KeptInv
<1> QED  BY <1>1, <1>6, <1>7, <1>8, <1>9, <1>10, <1>11, <1>12, ZenonT(60) DEF IInv

\* A range that is reserved: if it is one of the four, its frames are used from now on.
LEMMA ReservePreserves ==
  ASSUME IInv, BootStep, NEW r, r = plan[step], ReserveRange(r)
  PROVE  IInv'
<1> DEFINE fs == Changed(Touched(r), FALSE)
<1>0. TypeOK /\ CountsExact /\ SlackStaysSet /\ HeldOnce /\ KeptInv  BY Zenon DEF IInv
<1>1. /\ step \in Nat /\ Len(plan) \in Nat /\ step <= Len(plan) /\ step' = step + 1
      /\ UNCHANGED <<frame_limit, plan, alloc_word_cursor, granted>>
  BY <1>0 DEF BootStep, Booted, TypeOK
<1>2. fs \in SUBSET Free  BY Zenon DEF Changed, Touched, Clip, Free
<1>3. /\ used' = used \cup fs /\ free_frames' = free_frames - Cardinality(fs)
      /\ used_frames' = used_frames + Cardinality(fs)
      /\ reserved_frames' = reserved_frames + Cardinality(fs)
  BY Zenon DEF ReserveRange
<1>a. \A f \in Touched(r) : f \in used \cup fs  BY DEF Changed
<1> HIDE DEF fs
<1>4. /\ Cardinality(fs) \in Nat /\ Cardinality(Free') = Cardinality(Free) - Cardinality(fs)
      /\ Cardinality(fs) <= Cardinality(Free)
  BY <1>0, <1>1, <1>2, <1>3, TakeCounts, Zenon
<1>5. free_frames' = Cardinality(Free') /\ used_frames' = frame_limit - free_frames' /\ free_frames' \in Nat
  <2>1. free_frames = Cardinality(Free) /\ used_frames = frame_limit - free_frames
    BY <1>0, Zenon DEF CountsExact
  <2>2. free_frames \in Nat /\ frame_limit \in Nat  BY <1>0 DEF TypeOK
  <2> QED  BY <1>3, <1>4, <2>1, <2>2
<1>6. Bits' = Bits /\ Frames' = Frames /\ fs \subseteq Bits
  <2>1. Frames \subseteq Bits  BY <1>0, FramesHaveBits DEF TypeOK
  <2>2. fs \subseteq Frames  BY <1>2, Zenon DEF Free
  <2>3. Bits' = Bits /\ Frames' = Frames  BY <1>1, Zenon DEF Bits, Frames
  <2> QED  BY <2>1, <2>2, <2>3, Zenon
<1>7. TypeOK'
  <2>1. used_frames' \in Nat /\ reserved_frames' \in Nat  BY <1>0, <1>3, <1>4, SMTT(60) DEF TypeOK
  <2> QED  BY <1>0, <1>1, <1>3, <1>5, <1>6, <2>1, SMTT(60) DEF TypeOK
<1>8. CountsExact'  BY <1>1, <1>5, Zenon DEF CountsExact
<1>9. SlackStaysSet'  BY <1>0, <1>3, <1>6, Zenon DEF SlackStaysSet
<1>10. \A f \in Frames : granted[f] = 0  BY <1>1, Zenon DEF IInv, BootStep
<1>11. HeldOnce'  BY <1>1, <1>6, <1>10 DEF HeldOnce
<1>12. KeptInv'
  <2> SUFFICES ASSUME NEW i \in 1 .. 4, step' > Len(plan) - 4 + i,
                      NEW f \in Touched(Kept(frame_limit)[i])
               PROVE  f \in used' /\ granted'[f] = 0
    BY <1>0, <1>1, <1>6, SMTT(60) DEF KeptInv, Touched, Clip
  <2>1. f \in Frames  BY Zenon DEF Touched, Clip
  <2>2. CASE step > Len(plan) - 4 + i  BY <1>0, <1>1, <1>3, <2>2, Zenon DEF KeptInv
  <2>3. CASE step = Len(plan) - 4 + i
    <3>1. r.base = Kept(frame_limit)[i].base /\ r.len = Kept(frame_limit)[i].len
      BY <1>0, <2>3, SMTT(60) DEF KeptInv
    <3>2. f \in Touched(r)  BY <3>1, Zenon DEF Touched
    <3> QED  BY <1>1, <1>3, <1>a, <1>10, <2>1, <3>2, ZenonT(60)
  <2> QED  BY <1>1, <2>2, <2>3
<1> QED  BY <1>1, <1>6, <1>7, <1>8, <1>9, <1>10, <1>11, <1>12, ZenonT(60) DEF IInv

-----------------------------------------------------------------------------
(* Allocation *)

\* Frames that were free are handed out.
LEMMA GrantPreserves ==
  ASSUME IInv, Booted, NEW f \in Nat, NEW count \in Nat \ {0}, f .. f + count - 1 \subseteq Free,
         Grant(f, count), alloc_word_cursor' \in 0 .. Words(frame_limit)
  PROVE  IInv'
<1> DEFINE fs == f .. f + count - 1
<1>0. TypeOK /\ CountsExact /\ SlackStaysSet /\ HeldOnce /\ KeptInv  BY Zenon DEF IInv
<1>1. UNCHANGED <<frame_limit, plan, step, reserved_frames>>  BY Zenon DEF Grant
<1>2. fs \in SUBSET Free  BY Zenon
<1>3. /\ used' = used \cup fs
      /\ granted' = [g \in AllFrames |-> granted[g] + (IF g \in fs THEN 1 ELSE 0)]
      /\ free_frames' = free_frames - count /\ used_frames' = used_frames + count
  BY Zenon DEF Grant
<1>a. Cardinality(fs) = count
  <2>1. f \in Int /\ f + count - 1 \in Int /\ f <= f + count - 1  OBVIOUS
  <2>2. Cardinality(fs) = (f + count - 1) - f + 1  BY <2>1, FS_Interval
  <2> QED  BY <2>2
<1> HIDE DEF fs
<1>4. Cardinality(Free') = Cardinality(Free) - count /\ count <= Cardinality(Free)
  BY <1>0, <1>1, <1>2, <1>3, <1>a, TakeCounts, Zenon
<1>5. free_frames' = Cardinality(Free') /\ used_frames' = frame_limit - free_frames' /\ free_frames' \in Nat
  <2>1. free_frames = Cardinality(Free) /\ used_frames = frame_limit - free_frames
    BY <1>0, Zenon DEF CountsExact
  <2>2. free_frames \in Nat /\ frame_limit \in Nat  BY <1>0 DEF TypeOK
  <2> QED  BY <1>3, <1>4, <2>1, <2>2
<1>6. Bits' = Bits /\ Frames' = Frames /\ fs \subseteq Bits /\ fs \cap used = {}
  <2>1. Frames \subseteq Bits  BY <1>0, FramesHaveBits DEF TypeOK
  <2>2. fs \subseteq Frames /\ fs \cap used = {}  BY <1>2, Zenon DEF Free
  <2>3. Bits' = Bits /\ Frames' = Frames  BY <1>1, Zenon DEF Bits, Frames
  <2> QED  BY <2>1, <2>2, <2>3, Zenon
<1>7. TypeOK'
  <2>1. used_frames' \in Nat  BY <1>0, <1>3 DEF TypeOK
  <2>2. granted' \in [AllFrames -> Nat]  BY <1>0, <1>3, SMTT(60) DEF TypeOK
  <2> QED  BY <1>0, <1>1, <1>3, <1>5, <1>6, <2>1, <2>2, ZenonT(60) DEF TypeOK
<1>8. CountsExact'  BY <1>1, <1>5, Zenon DEF CountsExact
<1>9. SlackStaysSet'  BY <1>0, <1>3, <1>6, Zenon DEF SlackStaysSet
<1>11. HeldOnce'
  <2> SUFFICES ASSUME NEW g \in Frames PROVE granted'[g] <= 1 /\ (granted'[g] = 1 => g \in used')
    BY <1>6, Zenon DEF HeldOnce
  <2>1. granted[g] \in Nat /\ granted[g] <= 1 /\ (granted[g] = 1 => g \in used)
    BY <1>0, FramesKnown, Zenon DEF HeldOnce
  <2>a. g \in AllFrames  BY <1>0, FramesKnown, Zenon
  <2>2. CASE g \in fs  BY <1>3, <1>6, <2>1, <2>a, <2>2
  <2>3. CASE g \notin fs  BY <1>3, <2>1, <2>a, <2>3
  <2> QED  BY <2>2, <2>3, Zenon
<1>12. KeptInv'
  <2> SUFFICES ASSUME NEW i \in 1 .. 4, step > Len(plan) - 4 + i,
                      NEW g \in Touched(Kept(frame_limit)[i])
               PROVE  g \in used' /\ granted'[g] = 0
    BY <1>0, <1>1, <1>6, SMTT(60) DEF KeptInv, Touched, Clip
  <2>1. g \in Frames  BY Zenon DEF Touched, Clip
  <2>2. g \in used /\ granted[g] = 0  BY <1>0, SMTT(60) DEF KeptInv
  <2>3. g \in AllFrames  BY <1>0, <2>1, FramesKnown, Zenon
  <2> QED  BY <1>3, <1>6, <2>2, <2>3
<1> QED  BY <1>1, <1>7, <1>8, <1>9, <1>11, <1>12, Zenon DEF IInv, Booted

\* What pmm_alloc_pages finds is free, of the length asked for, and covered by the bitmap.
LEMMA FoundIsFree ==
  ASSUME TypeOK, NEW count \in 1 .. MaxCount, NEW f \in Found(count)
  PROVE  f \in Nat /\ f + count <= frame_limit /\ f .. f + count - 1 \subseteq Free
<1>1. frame_limit \in Nat  BY FramesKnown, Zenon
<1>2. CASE count = 1
  <2>1. f \in Single  BY <1>2, Zenon DEF Found
  <2>2. f \in Free /\ f \in Frames  BY <2>1, Zenon DEF Single, LowestClear, Free
  <2>3. f \in Nat /\ f + 1 <= frame_limit  BY <1>1, <2>2 DEF Frames
  <2> QED  BY <1>2, <2>2, <2>3
<1>3. CASE count # 1
  <2>1. f \in Runs(count)  BY <1>3, ZenonT(60) DEF Found, RunStarts, FirstFrom
  <2> QED  BY <1>1, <2>1 DEF Runs, Frames
<1> QED  BY <1>2, <1>3, Zenon

\* pmm_alloc_pages hands out what it finds.
LEMMA AllocPreserves ==
  ASSUME IInv, NEW count \in 1 .. MaxCount, NEW f \in Found(count), AllocPages(f, count)
  PROVE  IInv'
<1>1. TypeOK /\ frame_limit \in Nat /\ count \in Nat \ {0}  BY FramesKnown, PmmAssumption DEF IInv
<1>2. f \in Nat /\ f + count <= frame_limit /\ f .. f + count - 1 \subseteq Free  BY <1>1, FoundIsFree, Zenon
<1>3. Booted /\ Grant(f, count)  BY Zenon DEF AllocPages
<1>4. alloc_word_cursor' \in 0 .. Words(frame_limit)
  <2>1. f <= frame_limit /\ f + count \in Nat  BY <1>1, <1>2
  <2>2. f \div WordBits \in 0 .. Words(frame_limit)  BY <1>1, <1>2, <2>1, CursorInRange, Zenon
  <2>3. (f + count) \div WordBits \in 0 .. Words(frame_limit)  BY <1>1, <1>2, <2>1, CursorInRange, Zenon
  <2> QED  BY <2>2, <2>3, Zenon DEF AllocPages
<1> QED  BY <1>1, <1>2, <1>3, <1>4, GrantPreserves, ZenonT(60)

\* A frame is given back by its holder, which holds none of the reserved ones.
LEMMA FreePreserves ==
  ASSUME IInv, NEW f \in Frames, FreePage(f)
  PROVE  IInv'
<1>0. TypeOK /\ CountsExact /\ SlackStaysSet /\ HeldOnce /\ KeptInv  BY Zenon DEF IInv
<1>1. Booted /\ UNCHANGED <<frame_limit, plan, step, reserved_frames>>  BY Zenon DEF FreePage
<1>2. {f} \in SUBSET (Frames \cap used) /\ granted[f] = 1
  BY <1>0, FramesKnown DEF FreePage, HeldOnce
<1>3. /\ used' = used \ {f} /\ granted' = [granted EXCEPT ![f] = 0]
      /\ free_frames' = free_frames + 1 /\ used_frames' = used_frames - 1
      /\ alloc_word_cursor' = f \div WordBits
  BY <1>2 DEF FreePage
<1>4. Cardinality({f}) = 1  BY FS_Singleton, Zenon
<1>5. Cardinality(Free') = Cardinality(Free) + 1 /\ Cardinality(Free') <= frame_limit
  BY <1>0, <1>1, <1>2, <1>3, <1>4, GiveCounts, ZenonT(60)
<1>6. free_frames' = Cardinality(Free') /\ used_frames' = frame_limit - free_frames' /\ free_frames' \in Nat
  <2>1. free_frames = Cardinality(Free) /\ used_frames = frame_limit - free_frames
    BY <1>0, Zenon DEF CountsExact
  <2>2. free_frames \in Nat /\ frame_limit \in Nat  BY <1>0 DEF TypeOK
  <2> QED  BY <1>3, <1>5, <2>1, <2>2
<1>7. Bits' = Bits /\ Frames' = Frames /\ Words(frame_limit') = Words(frame_limit)
  BY <1>1, Zenon DEF Bits, Frames
<1>8. TypeOK'
  <2>1. used_frames' \in Nat  BY <1>0, <1>5, <1>6, SMTT(60) DEF TypeOK
  <2>2. alloc_word_cursor' \in 0 .. Words(frame_limit)
    <3>1. f \in Nat /\ f <= frame_limit /\ frame_limit \in Nat  BY <1>0 DEF Frames, TypeOK
    <3> QED  BY <1>3, <3>1, CursorInRange, Zenon
  <2>3. granted' \in [AllFrames -> Nat]  BY <1>0, <1>3, Zenon DEF TypeOK
  <2> QED  BY <1>0, <1>1, <1>3, <1>6, <1>7, <2>1, <2>2, <2>3, ZenonT(60) DEF TypeOK
<1>9. CountsExact'  BY <1>1, <1>6, Zenon DEF CountsExact
<1>10. SlackStaysSet'  BY <1>0, <1>3, <1>7, Zenon DEF SlackStaysSet
<1>11. HeldOnce'
  <2>1. granted \in [AllFrames -> Nat] /\ Frames \subseteq AllFrames  BY <1>0, FramesKnown, Zenon DEF TypeOK
  <2> QED  BY <1>0, <1>3, <1>7, <2>1 DEF HeldOnce
<1>12. KeptInv'
  <2> SUFFICES ASSUME NEW i \in 1 .. 4, step > Len(plan) - 4 + i,
                      NEW g \in Touched(Kept(frame_limit)[i])
               PROVE  g \in used' /\ granted'[g] = 0
    BY <1>0, <1>1, <1>7, SMTT(60) DEF KeptInv, Touched, Clip
  <2>1. g \in Frames  BY Zenon DEF Touched, Clip
  <2>2. g \in used /\ granted[g] = 0  BY <1>0, SMTT(60) DEF KeptInv
  <2>3. g # f  BY <1>2, <2>2
  <2> QED  BY <1>0, <1>3, <2>1, <2>2, <2>3 DEF TypeOK
<1> QED  BY <1>1, <1>8, <1>9, <1>10, <1>11, <1>12, ZenonT(60) DEF IInv, Booted

\* Every operation of the allocator preserves the invariant.
LEMMA NextIInv == IInv /\ [Next]_vars => IInv'
<1> SUFFICES ASSUME IInv, [Next]_vars PROVE IInv'  BY Zenon
<1>0. frame_limit \in Nat \ {0} /\ TypeOK  BY DEF IInv, TypeOK
<1>1. CASE BootStep
  <2>1. CASE plan[step].type = "available" /\ MarkAvailable(plan[step])
    BY <1>1, <2>1, AvailablePreserves, Zenon
  <2>2. CASE ReserveRange(plan[step])  BY <1>1, <2>2, ReservePreserves, Zenon
  <2>3. CASE plan[step].type \in {"other", "module"} /\ UNCHANGED <<used, stats>>
    <3>1. /\ step \in Nat /\ Len(plan) \in Nat /\ step <= Len(plan) /\ step' = step + 1
          /\ UNCHANGED <<frame_limit, plan, alloc_word_cursor, granted, used, stats>>
      BY <1>0, <1>1, <2>3 DEF BootStep, Booted, TypeOK
    <3>2. TypeOK' /\ CountsExact' /\ HeldOnce' /\ SlackStaysSet'
      BY <3>1, SMTT(60) DEF IInv, TypeOK, CountsExact, HeldOnce, SlackStaysSet, Bits, Frames, Free, stats
    <3>3. \A i \in 1 .. 4 : step # Len(plan) - 4 + i  BY <2>3, SMTT(60) DEF IInv, KeptInv
    <3>4. \A i \in 1 .. 4 : step' > Len(plan) - 4 + i => step > Len(plan) - 4 + i
      BY <3>1, <3>3
    <3>5. Frames' = Frames  BY <3>1, ZenonT(60) DEF Frames
    <3>6. KeptInv'  BY <3>1, <3>4, <3>5, SMTT(60) DEF IInv, KeptInv, Touched, Clip
    <3>7. \A f \in Frames' : granted'[f] = 0  BY <1>1, <3>1, <3>5, SMTT(60) DEF IInv, BootStep
    <3> QED  BY <3>2, <3>6, <3>7, Zenon DEF IInv
  <2> QED  BY <1>1, <2>1, <2>2, <2>3, ZenonT(60) DEF BootStep
<1>2. CASE \E count \in 1 .. MaxCount : \E f \in Found(count) : AllocPages(f, count)
  <2>1. PICK count \in 1 .. MaxCount : \E f \in Found(count) : AllocPages(f, count)  BY <1>2, Zenon
  <2>2. PICK f \in Found(count) : AllocPages(f, count)  BY <2>1, Zenon
  <2> QED  BY <2>2, AllocPreserves, Zenon
<1>4. CASE \E f \in Frames : FreePage(f)  BY <1>4, FreePreserves, Zenon
<1>5. CASE UNCHANGED vars
  <2>1. UNCHANGED <<frame_limit, plan, step, used, stats, alloc_word_cursor, granted>>
    BY <1>5, ZenonT(60) DEF vars
  <2>2. TypeOK' /\ CountsExact' /\ HeldOnce' /\ SlackStaysSet'
    BY <2>1, SMTT(60) DEF IInv, TypeOK, CountsExact, HeldOnce, SlackStaysSet, Bits, Frames, Free, stats
  <2>3. KeptInv'  BY <2>1, SMTT(60) DEF IInv, KeptInv, Touched, Clip, Frames
  <2> QED  BY <2>1, <2>2, <2>3, Zenon DEF IInv, Booted, Frames
<1> QED  BY <1>1, <1>2, <1>4, <1>5, Zenon DEF Next

\* The invariant holds from the first step of the boot on.
THEOREM PmmInvariant == Spec => []IInv
BY InitIInv, NextIInv, PTL DEF Spec

\* The variables of the allocator keep their types: no counter goes below zero.
THEOREM PmmTypeCorrect == Spec => []TypeOK
<1>1. IInv => TypeOK  BY Zenon DEF IInv
<1> QED  BY <1>1, PmmInvariant, PTL

\* mm_stats counts the bitmap exactly, for every memory map.
THEOREM StatsExact == Spec => []CountsExact
<1>1. IInv => CountsExact  BY Zenon DEF IInv
<1> QED  BY <1>1, PmmInvariant, PTL

\* No frame is ever handed to two callers.
THEOREM NoDoubleGrant == Spec => []HeldOnce
<1>1. IInv => HeldOnce  BY Zenon DEF IInv
<1> QED  BY <1>1, PmmInvariant, PTL

\* The bits of the last word that stand for no frame are never cleared.
THEOREM SlackNeverCleared == Spec => []SlackStaysSet
<1>1. IInv => SlackStaysSet  BY Zenon DEF IInv
<1> QED  BY <1>1, PmmInvariant, PTL

\* A set of natural numbers has a least member.
LEMMA NatMin ==
  ASSUME NEW T \in SUBSET Nat, T # {}
  PROVE  \E x \in T : \A y \in T : x <= y
<1> DEFINE R == OpToRel(<, Nat)
<1>1. IsWellFoundedOn(R, Nat)  BY NatLessThanWellFounded, Zenon
<1>2. \A x, y \in Nat : y < x => <<y, x>> \in R  BY Zenon DEF OpToRel
<1> HIDE DEF R
<1>3. PICK x \in T : \A y \in T : ~(<<y, x>> \in R)  BY <1>1, WFMin, Zenon
<1>4. \A y \in T : ~(y < x)  BY <1>2, <1>3, Zenon
<1>5. \A y \in T : x <= y  BY <1>4
<1> QED  BY <1>5, Zenon

\* Two indices of a ring that are equally far from a third are the same.
LEMMA ModDistinct ==
  ASSUME NEW n \in Nat \ {0}, NEW s \in Int, NEW x \in 0 .. n - 1, NEW y \in 0 .. n - 1,
         (x - s) % n = (y - s) % n
  PROVE  x = y
<1> DEFINE q == (x - s) \div n  r == (y - s) \div n  m == (x - s) % n
<1>1. q \in Int /\ r \in Int /\ m \in Int /\ x - s = n * q + m /\ y - s = n * r + m  OBVIOUS
<1> HIDE DEF q, r, m
<1>2. x - y = n * (q - r)  BY <1>1
<1>3. q - r >= 1 => n * (q - r) >= n  BY <1>1
<1>4. q - r <= -1 => n * (q - r) <= -n  BY <1>1
<1>5. q - r = 0  BY <1>1, <1>2, <1>3, <1>4
<1> QED  BY <1>1, <1>2, <1>5

\* The words are numbered from 0, and the last bit is in the last word.
LEMMA WordOfBit ==
  ASSUME frame_limit \in Nat, NEW b \in Bits
  PROVE  b \in Nat /\ b \div WordBits \in 0 .. Words(frame_limit) - 1
<1> DEFINE n == Words(frame_limit)  w == b \div WordBits
<1>1. n \in Nat /\ WordBits \in Nat \ {0}  BY FramesHaveBits, PmmAssumption, Zenon
<1>2. b \in Nat /\ b < n * WordBits
  <2>1. n * WordBits \in Int  BY <1>1
  <2> QED  BY <2>1 DEF Bits
<1>3. w \in Nat /\ w * WordBits <= b  BY <1>1, <1>2, DivFacts, Zenon
<1> HIDE DEF n, w
<1>4. ~(n <= w)
  <2> SUFFICES ASSUME n <= w PROVE FALSE  BY Zenon
  <2>1. n * WordBits <= w * WordBits  BY <1>1, <1>3, MulMono, Zenon
  <2>2. n * WordBits \in Int /\ w * WordBits \in Int  BY <1>1, <1>3
  <2> QED  BY <1>2, <1>3, <2>1, <2>2
<1>5. w \in 0 .. n - 1  BY <1>1, <1>3, <1>4
<1> QED  BY <1>2, <1>5, Zenon DEF n, w

LEMMA PageIsFoundFromInv == IInv => PageIsFound
<1> SUFFICES ASSUME IInv, free_frames > 0 PROVE Cardinality(Single) = 1  BY Zenon DEF PageIsFound
<1> DEFINE n == Words(frame_limit)  Dist(w) == (w - alloc_word_cursor) % n
<1>1. frame_limit \in Nat \ {0} /\ alloc_word_cursor \in 0 .. n /\ n \in Nat
  BY FramesKnown, FramesHaveBits, Zenon DEF IInv, TypeOK
<1>2. PICK f \in Free : TRUE
  <2>1. Cardinality(Free) > 0  BY Zenon DEF IInv, CountsExact
  <2>2. Free # {}  BY <2>1, FS_EmptySet
  <2> QED  BY <2>2, Zenon
\* Every clear bit is a frame.
<1>3. Bits \ used \subseteq Frames /\ f \in Bits \ used
  BY <1>1, <1>2, FramesHaveBits, Zenon DEF IInv, SlackStaysSet, Free
<1>4. \A b \in Bits : b \in Nat /\ b \div WordBits \in 0 .. n - 1  BY <1>1, WordOfBit, Zenon
<1>5. n \in Nat \ {0}  BY <1>1, <1>3, <1>4
<1> HIDE DEF n
<1>6. OpenWords # {} /\ OpenWords \subseteq 0 .. n - 1
  <2> DEFINE T == {c \in Bits \ used : c \div WordBits = f \div WordBits}
  <2>1. T \subseteq Nat /\ f \in T  BY <1>3, <1>4, Zenon
  <2>2. PICK b \in T : \A c \in T : b <= c  BY <2>1, NatMin, Zenon
  <2>3. b \in LowestClear  BY <2>2, Zenon DEF LowestClear
  <2>4. b \div WordBits \in OpenWords  BY <1>3, <2>2, <2>3, Zenon DEF OpenWords
  <2>5. OpenWords \subseteq 0 .. n - 1  BY <1>4, Zenon DEF OpenWords, LowestClear
  <2> QED  BY <2>4, <2>5, Zenon
<1>7. \A w \in OpenWords : Dist(w) \in Nat  BY <1>1, <1>5, <1>6
<1>8. PICK w \in OpenWords : \A v \in OpenWords : Dist(w) <= Dist(v)
  <2> DEFINE T == {Dist(v) : v \in OpenWords}
  <2>1. T \subseteq Nat /\ T # {}  BY <1>6, <1>7, Zenon
  <2>2. PICK d \in T : \A e \in T : d <= e  BY <2>1, NatMin, Zenon
  <2> QED  BY <2>2, Zenon
<1>9. ASSUME NEW v \in FirstFrom(OpenWords, alloc_word_cursor, n) PROVE v = w
  <2>1. v \in OpenWords /\ Dist(v) <= Dist(w)  BY <1>9, Zenon DEF FirstFrom
  <2>2. Dist(v) = Dist(w)  BY <1>7, <1>8, <2>1
  <2> QED  BY <1>1, <1>5, <1>6, <2>1, <2>2, ModDistinct
<1>10. w \in FirstFrom(OpenWords, alloc_word_cursor, n)  BY <1>8, Zenon DEF FirstFrom
<1>11. PICK g \in LowestClear \cap Frames : g \div WordBits = w  BY Zenon DEF OpenWords
<1>12. g \in Single  BY <1>10, <1>11, Zenon DEF Single, n
<1>13. ASSUME NEW h \in Single PROVE h = g
  <2>1. h \in LowestClear \cap Frames /\ h \div WordBits = w  BY <1>9, Zenon DEF Single, n
  <2>2. h \in Bits \ used /\ g \in Bits \ used /\ h <= g /\ g <= h  BY <1>11, <2>1, Zenon DEF LowestClear
  <2>3. h \in Nat /\ g \in Nat  BY <1>4, <2>2, Zenon
  <2> QED  BY <2>2, <2>3
<1>14. Single = {g}  BY <1>12, <1>13, Zenon
<1> QED  BY <1>14, FS_Singleton, Zenon

\* pmm_alloc_page fails only when no frame is free, wherever the cursor was left.
THEOREM PageAlwaysFound == Spec => []PageIsFound
BY PmmInvariant, PageIsFoundFromInv, PTL

\* Every step of the allocator is one its clients may rely on: a run of frames nobody holds is handed
\* out, a frame comes back from its holder, or nothing the clients see changes.
LEMMA StepKeepsPromise == IInv /\ [Next]_vars => [Promise!Next]_granted
<1> SUFFICES ASSUME IInv, [Next]_vars PROVE Promise!Next \/ UNCHANGED granted  BY Zenon
<1>0. TypeOK /\ HeldOnce /\ frame_limit \in Nat /\ Frames \subseteq AllFrames
  BY FramesKnown, Zenon DEF IInv
<1>1. CASE BootStep  BY <1>1, Zenon DEF BootStep
<1>2. CASE \E count \in 1 .. MaxCount : \E f \in Found(count) : AllocPages(f, count)
  <2>1. PICK count \in 1 .. MaxCount : \E f \in Found(count) : AllocPages(f, count)  BY <1>2, Zenon
  <2>2. PICK f \in Found(count) : AllocPages(f, count)  BY <2>1, Zenon
  <2>3. f \in Nat /\ f + count <= frame_limit /\ f .. f + count - 1 \subseteq Free
    BY <1>0, FoundIsFree, Zenon
  <2>4. f \in AllFrames /\ f + count - 1 \in AllFrames
    <3>1. f \in Frames /\ f + count - 1 \in Frames  BY <1>0, <2>3 DEF Frames
    <3> QED  BY <1>0, <3>1, Zenon
  <2>5. \A g \in f .. f + count - 1 : granted[g] = 0
    <3>1. \A g \in Free : g \in Frames /\ g \notin used  BY Zenon DEF Free
    <3>2. \A g \in Frames : granted[g] \in Nat  BY <1>0, Zenon DEF TypeOK
    <3> QED  BY <1>0, <2>3, <3>1, <3>2 DEF HeldOnce
  <2>6. granted' = [g \in AllFrames |-> granted[g] + (IF g \in f .. f + count - 1 THEN 1 ELSE 0)]
    BY <2>2, Zenon DEF AllocPages, Grant
  <2>7. Promise!Take(f, f + count - 1)
    <3>1. f .. f + count - 1 \subseteq AllFrames  BY <1>0, <2>3, Zenon DEF Free
    <3>2. f .. f + count - 1 \subseteq AllFrames \ Promise!Held  BY <2>5, <3>1 DEF Promise!Held
    <3>3. \A g \in AllFrames : granted[g] \in Nat  BY <1>0, Zenon DEF TypeOK
    <3>4. \A g \in AllFrames : granted[g] + (IF g \in f .. f + count - 1 THEN 1 ELSE 0)
            = IF g \in f .. f + count - 1 THEN 1 ELSE granted[g]
      BY <2>5, <3>3
    <3>5. granted' = [g \in AllFrames |-> IF g \in f .. f + count - 1 THEN 1 ELSE granted[g]]
      BY <2>6, <3>4, Zenon
    <3> QED  BY <3>2, <3>5, Zenon DEF Promise!Take
  <2> QED  BY <2>4, <2>7, Zenon DEF Promise!Next
<1>3. CASE \E f \in Frames : FreePage(f)
  <2>1. PICK f \in Frames : FreePage(f)  BY <1>3, Zenon
  <2>2. f \in AllFrames /\ granted[f] = 1 /\ granted[f] - 1 = 0
    BY <1>0, <2>1, FramesKnown DEF FreePage, HeldOnce
  <2>3. granted' = [granted EXCEPT ![f] = 0]  BY <2>1, <2>2, Zenon DEF FreePage
  <2> QED  BY <2>2, <2>3, Zenon DEF Promise!Next, Promise!Give
<1>4. CASE UNCHANGED vars  BY <1>4, Zenon DEF vars
<1> QED  BY <1>1, <1>2, <1>3, <1>4, Zenon DEF Next

\* pmm.c implements PageAlloc, which is all that the page tables and the heap use of it: no run of
\* frames it hands out overlaps what is held, whatever the memory map, the cursor and the sizes are.
THEOREM PmmImplementsPageAlloc == Spec => ImplementsPageAlloc
<1>1. Init => Promise!Init  BY Zenon DEF Init, Promise!Init
<1>2. IInv /\ [Next]_vars => [Promise!Next]_granted  BY StepKeepsPromise, ZenonT(60)
<1> QED  BY <1>1, <1>2, PmmInvariant, PTL DEF Spec, Promise!Spec, ImplementsPageAlloc

\* No frame with a byte of the low memory, the image, the bitmap or the boot
\* information is free or handed out after boot, for every memory map.
THEOREM KeptStaysReserved == Spec => []KeptReserved
<1>1. IInv => KeptReserved
  <2> SUFFICES ASSUME IInv, Booted, NEW i \in 1 .. 4, NEW f \in SharesByte(Kept(frame_limit)[i])
               PROVE  f \in used /\ granted[f] = 0
    BY Zenon DEF KeptReserved
  <2>1. frame_limit \in Nat  BY DEF IInv, TypeOK
  <2>2. f \in Touched(Kept(frame_limit)[i])  BY <2>1, KeptType, SharedIsTouched, ZenonT(60)
  <2>3. Len(plan) \in Nat /\ step \in Nat  BY DEF IInv, TypeOK
  <2>4. step > Len(plan) - 4 + i  BY <2>3 DEF Booted
  <2> QED  BY <2>2, <2>4, SMTT(60) DEF IInv, KeptInv
<1> QED  BY <1>1, PmmInvariant, PTL

-----------------------------------------------------------------------------
(* The heap as a caller of the page allocator *)

\* kmalloc asks for at least one page, with room for the block and its header.
LEMMA PagesForFacts ==
  ASSUME NEW size \in Sizes
  PROVE  /\ PagesFor(size) \in 1 .. MaxCount /\ size \in Nat \ {0}
         /\ Header + size <= PagesFor(size) * Page
<1>1. size \in Nat \ {0} /\ Header \in Nat \ {0} /\ Page \in Nat \ {0} /\ MaxCount \in Nat
  BY KheapAssumption, PmmAssumption, Zenon
<1>a. Header + size \in Nat \ {0}  BY <1>1
<1>2. PagesFor(size) \in Nat /\ Header + size <= PagesFor(size) * Page
  BY <1>1, <1>a, CeilDivFacts, Zenon DEF PagesFor
<1>3. PagesFor(size) # 0  BY <1>1, <1>a, <1>2
<1>4. PagesFor(size) <= MaxCount  BY KheapAssumption, Zenon
<1> QED  BY <1>1, <1>2, <1>3, <1>4

\* Every step of the heap and of the other callers is a step of the page allocator.
LEMMA HeapStep == [KheapNext]_kheap_vars => [Next]_vars
<1> SUFFICES ASSUME [KheapNext]_kheap_vars PROVE Next \/ UNCHANGED vars  BY Zenon
<1>1. CASE OtherPages
  <2>1. CASE BootStep  BY <2>1, Zenon DEF Next
  <2>2. CASE \E count \in 1 .. MaxCount : \E f \in Found(count) : AllocPages(f, count)
    BY <2>2, Zenon DEF Next
  <2>3. CASE \E f \in Frames \ HeapFrames : FreePage(f)  BY <2>3, Zenon DEF Next
  <2> QED  BY <1>1, <2>1, <2>2, <2>3, ZenonT(60) DEF OtherPages
<1>2. ASSUME NEW size \in Sizes, KmallocFresh(size) PROVE Next
  <2>1. PICK f \in Found(PagesFor(size)) : AllocPages(f, PagesFor(size))  BY <1>2, Zenon DEF KmallocFresh
  <2>2. PagesFor(size) \in 1 .. MaxCount  BY PagesForFacts, Zenon
  <2> QED  BY <2>1, <2>2, Zenon DEF Next
<1>3. ASSUME NEW size \in Sizes, KmallocReuse(size) PROVE UNCHANGED vars
  BY <1>3, Zenon DEF KmallocReuse
<1>4. ASSUME NEW a \in DOMAIN held, Kfree(a) PROVE UNCHANGED vars  BY <1>4, Zenon DEF Kfree
<1>5. CASE UNCHANGED kheap_vars  BY <1>5, Zenon DEF kheap_vars
<1> QED  BY <1>1, <1>2, <1>3, <1>4, <1>5, ZenonT(60) DEF KheapNext

\* The heap only does what any caller of the page allocator may do: whatever holds of Pmm holds with the
\* heap on top of it, the promise of PageAlloc above all.
THEOREM HeapUsesPages == KheapSpec => Spec
<1>1. KheapInit => Init  BY Zenon DEF KheapInit
<1>2. [KheapNext]_kheap_vars => [Next]_vars  BY HeapStep, Zenon
<1> QED  BY <1>1, <1>2, PTL DEF KheapSpec, Spec

-----------------------------------------------------------------------------
(* The free list *)

\* Taking one element out of a list.
LEMMA UnlinkFacts ==
  ASSUME NEW S, NEW s \in Seq(S), NEW i \in 1 .. Len(s)
  PROVE  /\ Unlink(s, i) \in Seq(S) /\ Len(Unlink(s, i)) = Len(s) - 1
         /\ \A j \in 1 .. Len(s) - 1 : Unlink(s, i)[j] = IF j < i THEN s[j] ELSE s[j + 1]
<1> DEFINE left == SubSeq(s, 1, i - 1)
           right == SubSeq(s, i + 1, Len(s))
<1>1. Len(s) \in Nat /\ i \in Nat /\ 1 <= i /\ i <= Len(s)  OBVIOUS
<1>2. left \in Seq(S) /\ Len(left) = i - 1 /\ \A j \in 1 .. i - 1 : left[j] = s[j]
  BY <1>1
<1>3. right \in Seq(S) /\ Len(right) = Len(s) - i /\ \A j \in 1 .. Len(s) - i : right[j] = s[i + j]
  <2>1. i + 1 \in Int /\ Len(s) \in Int /\ \A k \in i + 1 .. Len(s) : s[k] \in S  BY <1>1
  <2>b. right \in Seq(S)  BY <2>1, SeqPart, SMTT(30)
  <2>2. /\ Len(right) = IF i + 1 <= Len(s) THEN Len(s) - (i + 1) + 1 ELSE 0
        /\ \A j \in 1 .. Len(s) - (i + 1) + 1 : right[j] = s[(i + 1) + j - 1]
    BY <2>1, SeqPart, SMTT(30)
  <2> HIDE DEF right
  <2>3. Len(right) = Len(s) - i  BY <1>1, <2>2
  <2>4. ASSUME NEW j \in 1 .. Len(s) - i PROVE right[j] = s[i + j]
    <3>1. j \in 1 .. Len(s) - (i + 1) + 1 /\ (i + 1) + j - 1 = i + j  BY <1>1
    <3>2. right[j] = s[(i + 1) + j - 1]  BY <2>2, <3>1, Zenon
    <3> QED  BY <3>1, <3>2, Zenon
  <2> QED  BY <2>b, <2>3, <2>4, Zenon
<1>4. Unlink(s, i) = left \o right  BY Zenon DEF Unlink
<1> HIDE DEF left, right
<1>5. Unlink(s, i) \in Seq(S) /\ Len(Unlink(s, i)) = Len(s) - 1
  <2>1. left \o right \in Seq(S) /\ Len(left \o right) = Len(left) + Len(right)
    BY <1>2, <1>3, SeqConcat, Zenon
  <2>2. (i - 1) + (Len(s) - i) = Len(s) - 1  BY <1>1
  <2> QED  BY <1>2, <1>3, <1>4, <2>1, <2>2, ZenonT(60)
<1>6. ASSUME NEW j \in 1 .. Len(s) - 1
      PROVE  Unlink(s, i)[j] = IF j < i THEN s[j] ELSE s[j + 1]
  <2>1. CASE j < i  BY <1>1, <1>2, <1>3, <1>4, <2>1
  <2>2. CASE ~(j < i)
    <3>1. Unlink(s, i)[j] = right[j - (i - 1)]
      <4>1. j \in 1 .. Len(left) + Len(right) /\ ~(j <= Len(left)) /\ j - Len(left) = j - (i - 1)
        BY <1>1, <1>2, <1>3, <2>2
      <4>2. (left \o right)[j] = right[j - Len(left)]
        BY <1>2, <1>3, <4>1, SeqConcat, Zenon
      <4> QED  BY <1>4, <4>1, <4>2, Zenon
    <3>2. j - (i - 1) \in 1 .. Len(s) - i /\ i + (j - (i - 1)) = j + 1  BY <1>1, <2>2
    <3> QED  BY <1>3, <2>2, <3>1, <3>2, Zenon
  <2> QED  BY <2>1, <2>2, Zenon
<1> QED  BY <1>5, <1>6, Zenon

\* Putting an element before a list that does not hold it.
LEMMA PutFirstFacts ==
  ASSUME NEW S, NEW s \in Seq(S), NEW a \in S
  PROVE  /\ <<a>> \o s \in Seq(S) /\ Len(<<a>> \o s) = Len(s) + 1
         /\ Range(<<a>> \o s) = {a} \cup Range(s)
         /\ IsInjective(s) /\ a \notin Range(s) => IsInjective(<<a>> \o s)
<1> DEFINE t == <<a>> \o s
<1>1. t \in Seq(S) /\ Len(t) = Len(s) + 1 /\ Len(s) \in Nat  OBVIOUS
<1>2. t[1] = a /\ \A j \in 1 .. Len(s) : t[j + 1] = s[j]  OBVIOUS
<1>3. DOMAIN t = 1 .. Len(s) + 1 /\ DOMAIN s = 1 .. Len(s)  OBVIOUS
<1> HIDE DEF t
<1>4. \A j \in DOMAIN t : j = 1 \/ (j - 1 \in 1 .. Len(s) /\ t[j] = s[j - 1])
  <2> SUFFICES ASSUME NEW j \in DOMAIN t, j # 1 PROVE j - 1 \in 1 .. Len(s) /\ t[j] = s[j - 1]
    BY Zenon
  <2>1. j \in Nat /\ j - 1 \in 1 .. Len(s) /\ (j - 1) + 1 = j  BY <1>1, <1>3
  <2> QED  BY <1>2, <2>1, Zenon
<1>5. Range(t) = {a} \cup Range(s)
  <2>1. Range(t) \subseteq {a} \cup Range(s)  BY <1>2, <1>3, <1>4 DEF Range
  <2>2. a \in Range(t)  BY <1>1, <1>2, <1>3 DEF Range
  <2>3. ASSUME NEW j \in DOMAIN s PROVE s[j] \in Range(t)
    <3>1. j + 1 \in DOMAIN t /\ t[j + 1] = s[j]  BY <1>1, <1>2, <1>3
    <3> QED  BY <3>1, Zenon DEF Range
  <2> QED  BY <2>1, <2>2, <2>3, Zenon DEF Range
<1>6. ASSUME IsInjective(s), a \notin Range(s) PROVE IsInjective(t)
  <2> SUFFICES ASSUME NEW i \in DOMAIN t, NEW j \in DOMAIN t, t[i] = t[j] PROVE i = j
    BY Zenon DEF IsInjective
  <2>1. \A k \in 1 .. Len(s) : s[k] # a  BY <1>3, <1>6, Zenon DEF Range
  <2>2. i = 1 <=> j = 1  BY <1>2, <1>4, <2>1, ZenonT(60)
  <2>3. CASE i # 1 /\ j # 1
    <3>1. i - 1 \in DOMAIN s /\ j - 1 \in DOMAIN s /\ s[i - 1] = s[j - 1]  BY <1>3, <1>4, <2>3, Zenon
    <3>2. i - 1 = j - 1  BY <1>6, <3>1, Zenon DEF IsInjective
    <3> QED  BY <1>1, <1>3, <3>2
  <2> QED  BY <2>2, <2>3, Zenon
<1> QED  BY <1>1, <1>5, <1>6, Zenon DEF t

-----------------------------------------------------------------------------
(* Blocks and pages *)

HeapType ==
  /\ Blocks \subseteq Nat /\ sizes \in [Blocks -> Nat]
  /\ free_list \in Seq(Blocks)

\* The list holds blocks, each at most once.
ListSound == Listed \subseteq Blocks /\ IsInjective(free_list)

\* What concerns the blocks themselves; HeapSafe adds who holds them.
HeapInv == IInv /\ HeapType /\ BlocksApart /\ NoByteLost /\ ListSound
HeapSafe == HeapInv /\ HeldSafe

\* The frame that holds a byte.
LEMMA FrameOfByte ==
  ASSUME NEW x \in Nat
  PROVE  x \div Page \in Nat /\ (x \div Page) * Page <= x /\ x < (x \div Page + 1) * Page
<1>1. Page \in Nat \ {0}  BY PmmAssumption, Zenon
<1>2. x \div Page \in Nat /\ (x \div Page) * Page <= x /\ x < (x \div Page) * Page + Page
  BY <1>1, DivFacts, Zenon
<1> QED  BY <1>1, <1>2

\* A byte of the frames f .. f+n-1 is in one of them, and a frame with such a byte is one of them.
LEMMA FrameOfRun ==
  ASSUME NEW f \in Nat, NEW n \in Nat, NEW x \in Nat, f * Page <= x, x < (f + n) * Page,
         NEW g \in Nat, g * Page <= x, x < (g + 1) * Page
  PROVE  f <= g /\ g < f + n
<1>1. Page \in Nat \ {0}  BY PmmAssumption, ZenonT(60)
<1>2. ~(g + 1 <= f)
  <2> SUFFICES ASSUME g + 1 <= f PROVE FALSE  BY Zenon
  <2>1. (g + 1) * Page <= f * Page  BY <1>1, MulMono
  <2>2. (g + 1) * Page \in Nat /\ f * Page \in Nat  BY <1>1
  <2> QED  BY <2>1, <2>2
<1>3. ~(f + n <= g)
  <2> SUFFICES ASSUME f + n <= g PROVE FALSE  BY Zenon
  <2>1. (f + n) * Page <= g * Page  BY <1>1, MulMono
  <2>2. (f + n) * Page \in Nat /\ g * Page \in Nat  BY <1>1
  <2> QED  BY <2>1, <2>2
<1> QED  BY <1>2, <1>3

\* A block that has no frame of a run does not reach into the run.
LEMMA ApartFromRun ==
  ASSUME HeapType, NEW a \in Blocks, NEW f \in Nat, NEW n \in Nat \ {0}, f .. f + n - 1 \subseteq Frames,
         frame_limit \in Nat,
         \A g \in f .. f + n - 1 : g \notin HeapFrames
  PROVE  a + Header + sizes[a] <= f * Page \/ (f + n) * Page <= a
<1>1. /\ a \in Nat /\ sizes[a] \in Nat /\ Header \in Nat \ {0} /\ Page \in Nat \ {0}
  BY KheapAssumption, PmmAssumption, Zenon DEF HeapType
<1>2. f * Page \in Nat /\ (f + n) * Page \in Nat /\ f * Page < (f + n) * Page  BY <1>1
<1> DEFINE x == IF a <= f * Page THEN f * Page ELSE a
           g == x \div Page
<1> SUFFICES ASSUME f * Page < a + Header + sizes[a], a < (f + n) * Page PROVE FALSE
  BY <1>1, <1>2
<1>3. x \in Nat /\ a <= x /\ x < a + Header + sizes[a] /\ f * Page <= x /\ x < (f + n) * Page
  BY <1>1, <1>2
<1> HIDE DEF x
<1>4. g \in Nat /\ g * Page <= x /\ x < (g + 1) * Page  BY <1>3, FrameOfByte, Zenon
<1> HIDE DEF g
<1>5. f <= g /\ g < f + n  BY <1>3, <1>4, FrameOfRun, ZenonT(60)
<1>6. g \in f .. f + n - 1  BY <1>4, <1>5
<1>7. g * Page \in Nat /\ (g + 1) * Page \in Nat  BY <1>1, <1>4
<1>8. g * Page < a + (Header + sizes[a]) /\ a < (g + 1) * Page /\ Header + sizes[a] > 0
  BY <1>1, <1>3, <1>4, <1>7
<1>9. g \in SharesByte(Extent(a))  BY <1>6, <1>8, Zenon DEF SharesByte, Extent
<1> QED  BY <1>6, <1>9, Zenon DEF HeapFrames

\* The blocks cut from fresh pages, which no block reaches into, fill them and do not overlap.
LEMMA NewBlockFacts ==
  ASSUME HeapType, ListSound, NEW a \in Nat, NEW size \in Nat \ {0}, NEW total \in Nat,
         Header + size <= total, NewBlock(a, size, total - Header),
         \A b \in Blocks : b + Header + sizes[b] <= a \/ a + total <= b
  PROVE  \E new \in SUBSET Nat :
           /\ Blocks' = Blocks \cup new /\ new \cap Blocks = {}
           /\ HeapType' /\ ListSound'
           /\ a \in new /\ size <= sizes'[a] /\ Listed' = Listed \cup (new \ {a})
           /\ \A b \in Blocks : sizes'[b] = sizes[b]
           /\ \A b \in new : a <= b /\ b + Header + sizes'[b] <= a + total
           /\ \A b, c \in new : b # c => Apart(b, c)'
           /\ \A x \in a .. a + total - 1 : \E b \in new : b <= x /\ x < b + Header + sizes'[b]
<1>0. /\ Header \in Nat \ {0} /\ MinSplit \in Nat /\ Blocks \subseteq Nat
      /\ sizes \in [Blocks -> Nat] /\ free_list \in Seq(Blocks)
  BY KheapAssumption, Zenon DEF HeapType
<1>a. \A b \in Nat : a <= b /\ b < a + total => b \notin Blocks  BY <1>0
<1>1. CASE (total - Header) - size > Header + MinSplit
  <2> DEFINE rest == a + Header + size
             left == (total - Header) - size - Header
             new == {a, rest}
             mid == WithBlock(sizes, rest, left)
  <2>1. /\ rest \in Nat /\ left \in Nat /\ a < rest /\ rest + Header + left = a + total
        /\ a \notin Blocks /\ rest \notin Blocks
    BY <1>0, <1>a, <1>1
  <2>2. sizes' = WithBlock(mid, a, size) /\ free_list' = <<rest>> \o free_list
    BY <1>1, Zenon DEF NewBlock
  <2>3. mid \in [Blocks \cup {rest} -> Nat] /\ mid[rest] = left /\ \A b \in Blocks : mid[b] = sizes[b]
    BY <1>0, <2>1, Zenon DEF WithBlock
  <2> HIDE DEF mid
  <2>4. /\ sizes' \in [Blocks \cup new -> Nat] /\ sizes'[a] = size /\ sizes'[rest] = left
        /\ \A b \in Blocks : sizes'[b] = sizes[b]
    BY <2>1, <2>2, <2>3 DEF WithBlock
  <2>5. a + Header + size = rest  BY Zenon
  <2> HIDE DEF rest, left
  <2>6. Blocks' = Blocks \cup new /\ new \cap Blocks = {} /\ new \in SUBSET Nat
    BY <2>1, <2>4, Zenon DEF Blocks
  <2>7. HeapType' /\ ListSound' /\ Listed' = Listed \cup (new \ {a})
    <3>1. free_list \in Seq(Blocks \cup new) /\ rest \in Blocks \cup new  BY <1>0
    <3>2. rest \notin Range(free_list)  BY <2>1, Zenon DEF ListSound, Listed
    <3>3. free_list' \in Seq(Blocks') /\ Listed' = {rest} \cup Listed /\ IsInjective(free_list')
      BY <2>2, <2>6, <3>1, <3>2, PutFirstFacts DEF ListSound, Listed
    <3>4. Listed \subseteq Blocks  BY Zenon DEF ListSound
    <3>5. ListSound'  BY <2>6, <3>3, <3>4, ZenonT(60) DEF ListSound
    <3>6. HeapType'  BY <1>0, <2>4, <2>6, <3>3, Zenon DEF HeapType
    <3>7. new \ {a} = {rest}  BY <2>1
    <3> QED  BY <3>3, <3>5, <3>6, <3>7, ZenonT(60)
  <2>11. a \in new /\ size <= sizes'[a]  BY <2>4
  <2>8. \A b \in new : a <= b /\ b + Header + sizes'[b] <= a + total
    BY <1>0, <2>1, <2>4, <2>5, SMTT(60)
  <2>9. \A b, c \in new : b # c => Apart(b, c)'
    BY <1>0, <2>1, <2>4, <2>5, SMTT(60) DEF Apart
  <2>10. \A x \in a .. a + total - 1 : \E b \in new : b <= x /\ x < b + Header + sizes'[b]
    <3> SUFFICES ASSUME NEW x \in a .. a + total - 1
                 PROVE  \E b \in new : b <= x /\ x < b + Header + sizes'[b]
      BY Zenon
    <3>1. CASE x < rest  BY <1>0, <2>4, <2>5, <3>1
    <3>2. CASE ~(x < rest)  BY <1>0, <2>1, <2>4, <3>2
    <3> QED  BY <3>1, <3>2, Zenon
  <2> HIDE DEF new
  <2> QED  BY <2>4, <2>6, <2>7, <2>8, <2>9, <2>10, <2>11, ZenonT(60)
<1>2. CASE ~((total - Header) - size > Header + MinSplit)
  <2>1. sizes' = WithBlock(sizes, a, total - Header) /\ free_list' = free_list
    BY <1>2, Zenon DEF NewBlock
  <2>2. a \notin Blocks /\ total - Header \in Nat  BY <1>0, <1>a
  <2>3. /\ sizes' \in [Blocks \cup {a} -> Nat] /\ sizes'[a] = total - Header
        /\ \A b \in Blocks : sizes'[b] = sizes[b]
    BY <1>0, <2>1, <2>2, Zenon DEF WithBlock
  <2>4. Blocks' = Blocks \cup {a} /\ {a} \cap Blocks = {}  BY <2>2, <2>3, Zenon DEF Blocks
  <2>5. HeapType' /\ ListSound' /\ Listed' = Listed \cup ({a} \ {a})
    <3>1. ListSound' /\ Listed' = Listed \cup ({a} \ {a})  BY <2>1, <2>4, Zenon DEF ListSound, Listed
    <3>2. HeapType'  BY <1>0, <2>1, <2>3, <2>4 DEF HeapType
    <3> QED  BY <3>1, <3>2, Zenon
  <2>6. a + Header + sizes'[a] = a + total  BY <1>0, <2>3
  <2>7. {a} \in SUBSET Nat  BY Zenon
  <2>8. \A x \in a .. a + total - 1 : \E b \in {a} : b <= x /\ x < b + Header + sizes'[b]
    BY <2>6
  <2>9. \A b \in {a} : a <= b /\ b + Header + sizes'[b] <= a + total  BY <1>0, <2>6
  <2>10. \A b, c \in {a} : b # c => Apart(b, c)'  BY Zenon
  <2>11. a \in {a} /\ size <= sizes'[a]  BY <1>0, <2>3
  <2> QED  BY <2>3, <2>4, <2>5, <2>7, <2>8, <2>9, <2>10, <2>11, ZenonT(60)
<1> QED  BY <1>1, <1>2, Zenon

-----------------------------------------------------------------------------
(* The invariant *)

LEMMA HeapInitInv == KheapInit => HeapInv
<1> SUFFICES ASSUME KheapInit PROVE HeapInv  BY Zenon
<1>1. IInv  BY InitIInv, Zenon DEF KheapInit
<1>2. Blocks = {} /\ free_list = << >> /\ sizes = << >>  BY DEF KheapInit, Blocks
<1>3. HeapFrames = {} /\ Listed = {}  BY <1>2 DEF HeapFrames, Listed, Range
<1>4. HeapType  BY <1>2 DEF HeapType
<1>5. BlocksApart /\ NoByteLost  BY <1>2, <1>3, Zenon DEF BlocksApart, NoByteLost
<1>6. ListSound  BY <1>2, <1>3 DEF ListSound, IsInjective
<1> QED  BY <1>1, <1>4, <1>5, <1>6, ZenonT(60) DEF HeapInv

\* A step that leaves the blocks alone and the holders of the heap's frames.
LEMMA BlocksKept ==
  ASSUME HeapInv, IInv', sizes' = sizes, frame_limit' = frame_limit,
         free_list' \in Seq(Blocks), IsInjective(free_list'),
         \A f \in HeapFrames : granted'[f] = granted[f]
  PROVE  HeapInv'
<1>1. Blocks' = Blocks /\ HeapFrames' = HeapFrames
  BY DEF Blocks, HeapFrames, SharesByte, Extent, Frames
<1>2. HeapType'  BY <1>1, Zenon DEF HeapInv, HeapType
<1>3. BlocksApart'  BY <1>1, Zenon DEF HeapInv, BlocksApart, Apart
<1>4. NoByteLost'  BY <1>1, Zenon DEF HeapInv, NoByteLost
<1>5. Listed' \subseteq Blocks  BY DEF Listed, Range
<1>6. ListSound'  BY <1>1, <1>5, Zenon DEF ListSound
<1> QED  BY <1>2, <1>3, <1>4, <1>6, Zenon DEF HeapInv

\* No step of the page allocator moves the end of memory, and its next state is sound.
LEMMA PagesSound ==
  ASSUME HeapInv, [KheapNext]_kheap_vars
  PROVE  IInv' /\ frame_limit' = frame_limit
<1>1. [Next]_vars  BY HeapStep, Zenon
<1>2. IInv'  BY <1>1, NextIInv, Zenon DEF HeapInv
<1>3. frame_limit' = frame_limit
  BY <1>1, Zenon DEF Next, BootStep, AllocPages, Grant, FreePage, vars
<1> QED  BY <1>2, <1>3, Zenon

\* What the allocator finds is no page of the heap.
LEMMA FoundIsNotHeap ==
  ASSUME HeapInv, NEW count \in 1 .. MaxCount, NEW f \in Found(count)
  PROVE  /\ f \in Nat /\ frame_limit \in Nat /\ f + count <= frame_limit
         /\ f .. f + count - 1 \subseteq Frames
         /\ \A g \in f .. f + count - 1 : granted[g] = 0 /\ g \notin HeapFrames
<1>1. TypeOK /\ HeldOnce  BY Zenon DEF HeapInv, IInv
<1>2. f \in Nat /\ f + count <= frame_limit /\ f .. f + count - 1 \subseteq Free
  BY <1>1, FoundIsFree, Zenon
<1>3. frame_limit \in Nat /\ \A g \in Frames : granted[g] \in Nat  BY <1>1, FramesKnown, Zenon
<1>4. \A g \in Free : g \in Frames /\ granted[g] = 0  BY <1>1, <1>3 DEF Free, HeldOnce
<1>5. \A g \in HeapFrames : granted[g] = 1  BY Zenon DEF HeapInv, BlocksApart
<1> QED  BY <1>2, <1>3, <1>4, <1>5

\* The other callers get and give back pages that are not the heap's.
LEMMA OtherPagesPreserves ==
  ASSUME HeapInv, OtherPages
  PROVE  HeapInv'
<1>1. sizes' = sizes /\ free_list' = free_list  BY Zenon DEF OtherPages, heap
<1>2. IInv' /\ frame_limit' = frame_limit  BY PagesSound, Zenon DEF KheapNext
<1>a. HeapFrames \subseteq Frames  BY Zenon DEF HeapFrames, SharesByte
<1>b. Frames \subseteq AllFrames /\ granted \in [AllFrames -> Nat]
  BY FramesKnown, Zenon DEF HeapInv, IInv, TypeOK
<1>3. \A f \in HeapFrames : granted'[f] = granted[f]
  <2>1. CASE BootStep  BY <2>1, Zenon DEF BootStep
  <2>2. CASE \E count \in 1 .. MaxCount : \E f \in Found(count) : AllocPages(f, count)
    <3>1. PICK count \in 1 .. MaxCount : \E f \in Found(count) : AllocPages(f, count)  BY <2>2, Zenon
    <3>2. PICK f \in Found(count) : AllocPages(f, count)  BY <3>1, Zenon
    <3>3. \A g \in f .. f + count - 1 : g \notin HeapFrames  BY FoundIsNotHeap, Zenon
    <3>4. granted' = [g \in AllFrames |-> granted[g] + (IF g \in f .. f + count - 1 THEN 1 ELSE 0)]
      BY <3>2, Zenon DEF AllocPages, Grant
    <3> QED  BY <1>a, <1>b, <3>3, <3>4
  <2>3. CASE \E f \in Frames \ HeapFrames : FreePage(f)
    BY <1>a, <1>b, <2>3, ZenonT(60) DEF FreePage
  <2> QED  BY <2>1, <2>2, <2>3, ZenonT(60) DEF OtherPages
<1>4. free_list' \in Seq(Blocks) /\ IsInjective(free_list')
  BY <1>1, Zenon DEF HeapInv, HeapType, ListSound
<1> QED  BY <1>1, <1>2, <1>3, <1>4, BlocksKept, ZenonT(60)

\* A block a is handed out: it is new, or was in the list, and is in the list no longer.
LEMMA HoldPreserves ==
  ASSUME HeldSafe, NEW a, NEW size, held' = WithBlock(held, a, size), NEW new, NEW put,
         Blocks' = Blocks \cup new, Listed' = (Listed \cup put) \ {a}, new \subseteq put \cup {a},
         a \in Blocks', a \notin DOMAIN held, put \cap Blocks = {},
         size <= sizes'[a], \A b \in Blocks : sizes'[b] = sizes[b], IsInjective(free_list)'
  PROVE  HeldSafe'
<1>1. DOMAIN held' = DOMAIN held \cup {a} /\ held'[a] = size /\ \A b \in DOMAIN held : held'[b] = held[b]
  BY Zenon DEF WithBlock
<1>2. ASSUME NEW b \in DOMAIN held' PROVE b \in Blocks' \ Listed' /\ held'[b] <= sizes'[b]
  <2>1. CASE b = a  BY <1>1, <2>1, Zenon
  <2>2. CASE b # a
    <3>1. b \in DOMAIN held  BY <1>1, <2>2, Zenon
    <3>2. b \in Blocks \ Listed /\ held[b] <= sizes[b]  BY <3>1, Zenon DEF HeldSafe
    <3> QED  BY <1>1, <3>1, <3>2, Zenon
  <2> QED  BY <2>1, <2>2, Zenon
<1>3. Blocks' \subseteq DOMAIN held' \cup Listed'  BY <1>1, Zenon DEF HeldSafe
<1> QED  BY <1>2, <1>3, Zenon DEF HeldSafe

\* A block leaves the list, in which it was once.
LEMMA ReusePreserves ==
  ASSUME HeapInv, HeldSafe, NEW size \in Sizes, KmallocReuse(size)
  PROVE  HeapInv' /\ HeldSafe'
<1>1. sizes' = sizes /\ UNCHANGED vars  BY Zenon DEF KmallocReuse
<1>2. IInv' /\ frame_limit' = frame_limit  BY PagesSound, Zenon DEF KheapNext
<1>3. granted' = granted  BY <1>1, Zenon DEF vars
<1>4. PICK i \in FirstFit(size) :
        free_list' = Unlink(free_list, i) /\ held' = WithBlock(held, free_list[i], size)
  BY Zenon DEF KmallocReuse
<1>5. free_list \in Seq(Blocks) /\ IsInjective(free_list)  BY Zenon DEF HeapInv, HeapType, ListSound
<1>6. i \in 1 .. Len(free_list)  BY <1>5 DEF FirstFit, Fits
<1>7. /\ free_list' \in Seq(Blocks) /\ Len(free_list') = Len(free_list) - 1
      /\ \A j \in 1 .. Len(free_list) - 1 :
           free_list'[j] = IF j < i THEN free_list[j] ELSE free_list[j + 1]
  BY <1>4, <1>5, <1>6, UnlinkFacts, Zenon
<1>8. IsInjective(free_list')
  <2>1. DOMAIN free_list' = 1 .. Len(free_list) - 1 /\ Len(free_list) \in Nat  BY <1>5, <1>7
  <2> SUFFICES ASSUME NEW j \in 1 .. Len(free_list) - 1, NEW k \in 1 .. Len(free_list) - 1,
                      free_list'[j] = free_list'[k]
               PROVE  j = k
    BY <2>1, ZenonT(60) DEF IsInjective
  <2> DEFINE at(m) == IF m < i THEN m ELSE m + 1
  <2>2. free_list'[j] = free_list[at(j)] /\ free_list'[k] = free_list[at(k)]  BY <1>7, SMTT(60)
  <2>3. at(j) \in DOMAIN free_list /\ at(k) \in DOMAIN free_list  BY <1>5, <2>1
  <2>4. at(j) = at(k)  BY <1>5, <2>2, <2>3, Zenon DEF IsInjective
  <2> QED  BY <1>6, <2>1, <2>4
<1>9. HeapInv'  BY <1>1, <1>2, <1>3, <1>7, <1>8, BlocksKept, ZenonT(60)
<1>10. Listed' = Listed \ {free_list[i]}
  <2>1. DOMAIN free_list' = 1 .. Len(free_list) - 1 /\ DOMAIN free_list = 1 .. Len(free_list) /\ Len(free_list) \in Nat
    BY <1>5, <1>7
  <2>2. ASSUME NEW j \in DOMAIN free_list' PROVE free_list'[j] \in Listed \ {free_list[i]}
    <3>1. PICK k \in DOMAIN free_list : k # i /\ free_list'[j] = free_list[k]
      <4>1. CASE j < i
        <5>1. j \in DOMAIN free_list /\ j # i  BY <1>6, <2>1, <4>1
        <5>2. free_list'[j] = free_list[j]  BY <1>7, <2>1, <4>1, Zenon
        <5> QED  BY <5>1, <5>2, Zenon
      <4>2. CASE ~(j < i)
        <5>1. j + 1 \in DOMAIN free_list /\ j + 1 # i  BY <1>6, <2>1, <4>2
        <5>2. free_list'[j] = free_list[j + 1]  BY <1>7, <2>1, <4>2, Zenon
        <5> QED  BY <5>1, <5>2, Zenon
      <4> QED  BY <4>1, <4>2, Zenon
    <3> QED  BY <1>5, <1>6, <2>1, <3>1, Zenon DEF IsInjective, Listed, Range
  <2>3. ASSUME NEW k \in DOMAIN free_list, k # i PROVE free_list[k] \in Listed'
    <3>1. CASE k < i
      <4>1. k \in DOMAIN free_list'  BY <1>6, <2>1, <3>1
      <4>2. free_list'[k] = free_list[k]  BY <1>7, <2>1, <3>1, <4>1, Zenon
      <4> QED  BY <4>1, <4>2, Zenon DEF Listed, Range
    <3>2. CASE ~(k < i)
      <4>1. k - 1 \in DOMAIN free_list' /\ ~(k - 1 < i) /\ (k - 1) + 1 = k  BY <1>6, <2>1, <2>3, <3>2
      <4>2. free_list'[k - 1] = free_list[k]  BY <1>7, <2>1, <4>1, Zenon
      <4> QED  BY <4>1, <4>2, Zenon DEF Listed, Range
    <3> QED  BY <3>1, <3>2, Zenon
  <2>4. Listed' \subseteq Listed \ {free_list[i]}  BY <2>2, Zenon DEF Listed, Range
  <2>5. Listed \ {free_list[i]} \subseteq Listed'  BY <2>3, Zenon DEF Listed, Range
  <2> QED  BY <2>4, <2>5, Zenon
<1>11. HeldSafe'
  <2> DEFINE a == free_list[i]
  <2>1. a \in Blocks /\ a \in Listed /\ size <= sizes[a]
    <3>1. i \in DOMAIN free_list /\ sizes[a] >= size  BY Zenon DEF FirstFit, Fits
    <3>2. a \in Listed  BY <3>1, Zenon DEF Listed, Range
    <3>3. Listed \subseteq Blocks  BY Zenon DEF HeapInv, ListSound
    <3>4. sizes[a] \in Nat /\ size \in Nat  BY <3>2, <3>3, KheapAssumption, Zenon DEF HeapInv, HeapType
    <3> QED  BY <3>1, <3>2, <3>3, <3>4
  <2>2. Blocks' = Blocks \cup {} /\ \A b \in Blocks : sizes'[b] = sizes[b]  BY <1>1, Zenon DEF Blocks
  <2>3. held' = WithBlock(held, a, size) /\ Listed' = (Listed \cup {}) \ {a}  BY <1>4, <1>10, Zenon
  <2>4. a \notin DOMAIN held  BY <2>1, Zenon DEF HeldSafe
  <2>5. IsInjective(free_list)'  BY <1>8, Zenon
  <2> HIDE DEF a
  <2>6. size <= sizes'[a] /\ a \in Blocks' /\ {} \subseteq {} \cup {a} /\ {} \cap Blocks = {}
    BY <2>1, <2>2, Zenon
  <2> QED  BY <2>2, <2>3, <2>4, <2>5, <2>6, HoldPreserves, ZenonT(60)
<1> QED  BY <1>9, <1>11, Zenon

\* A block that is held is not in the list: it enters it when its holder frees it.
LEMMA KfreeHeld ==
  ASSUME HeapInv, HeldSafe, NEW a \in DOMAIN held, Kfree(a), IsInjective(free_list)'
  PROVE  HeldSafe'
<1>1. free_list' = <<a>> \o free_list /\ held' = Restrict(held, DOMAIN held \ {a}) /\ sizes' = sizes
  BY Zenon DEF Kfree
<1>2. DOMAIN held' = DOMAIN held \ {a} /\ \A b \in DOMAIN held \ {a} : held'[b] = held[b]
  BY <1>1, Zenon DEF Restrict
<1>3. a \in Blocks  BY Zenon DEF HeldSafe
<1>4. Listed' = {a} \cup Listed
  BY <1>1, <1>3, PutFirstFacts, Zenon DEF Listed, HeapInv, HeapType
<1>5. Blocks' = Blocks  BY <1>1, Zenon DEF Blocks
<1> QED  BY <1>1, <1>2, <1>4, <1>5, ZenonT(60) DEF HeldSafe

\* Freeing a block leaves the blocks as they are.
LEMMA KfreePreserves ==
  ASSUME HeapInv, NEW a \in Blocks \ Listed, Kfree(a), IInv', frame_limit' = frame_limit
  PROVE  HeapInv'
<1>1. sizes' = sizes /\ UNCHANGED vars /\ free_list' = <<a>> \o free_list  BY Zenon DEF Kfree
<1>3. granted' = granted  BY <1>1, Zenon DEF vars
<1>4. free_list \in Seq(Blocks) /\ IsInjective(free_list)  BY Zenon DEF HeapInv, HeapType, ListSound
<1>5. a \notin Range(free_list)  BY Zenon DEF Listed
<1>6. free_list' \in Seq(Blocks) /\ IsInjective(free_list')  BY <1>1, <1>4, <1>5, PutFirstFacts, ZenonT(60)
<1> QED  BY <1>1, <1>3, <1>6, BlocksKept, ZenonT(60)

\* The blocks cut from fresh pages join the others.
LEMMA FreshPreserves ==
  ASSUME HeapInv, HeldSafe, NEW size \in Sizes, KmallocFresh(size)
  PROVE  HeapInv' /\ HeldSafe'
<1> DEFINE n == PagesFor(size)
<1>1. PICK f \in Found(n) :
        /\ AllocPages(f, n) /\ NewBlock(f * Page, size, n * Page - Header)
        /\ held' = WithBlock(held, f * Page, size)
  BY Zenon DEF KmallocFresh
<1>2. n \in 1 .. MaxCount /\ size \in Nat \ {0} /\ Header + size <= n * Page  BY PagesForFacts, Zenon
<1> HIDE DEF n
<1>3. /\ f \in Nat /\ frame_limit \in Nat /\ f + n <= frame_limit /\ f .. f + n - 1 \subseteq Frames
      /\ \A g \in f .. f + n - 1 : granted[g] = 0 /\ g \notin HeapFrames
  BY <1>2, FoundIsNotHeap, ZenonT(60)
<1>4. IInv' /\ frame_limit' = frame_limit  BY PagesSound, Zenon DEF KheapNext
<1>5. Page \in Nat \ {0} /\ Header \in Nat \ {0} /\ n \in Nat \ {0}
  BY <1>2, PmmAssumption, KheapAssumption
<1>6. f * Page \in Nat /\ n * Page \in Nat /\ f * Page + n * Page = (f + n) * Page  BY <1>3, <1>5
<1>7. HeapType /\ ListSound /\ BlocksApart /\ NoByteLost  BY Zenon DEF HeapInv
<1>8. \A b \in Blocks : b + Header + sizes[b] <= f * Page \/ f * Page + n * Page <= b
  BY <1>3, <1>5, <1>6, <1>7, ApartFromRun, Zenon
<1>9. PICK new \in SUBSET Nat :
        /\ Blocks' = Blocks \cup new /\ new \cap Blocks = {}
        /\ HeapType' /\ ListSound'
        /\ f * Page \in new /\ size <= sizes'[f * Page] /\ Listed' = Listed \cup (new \ {f * Page})
        /\ \A b \in Blocks : sizes'[b] = sizes[b]
        /\ \A b \in new : f * Page <= b /\ b + Header + sizes'[b] <= f * Page + n * Page
        /\ \A b, c \in new : b # c => Apart(b, c)'
        /\ \A x \in f * Page .. f * Page + n * Page - 1 :
             \E b \in new : b <= x /\ x < b + Header + sizes'[b]
  BY <1>1, <1>2, <1>6, <1>7, <1>8, NewBlockFacts, Zenon
<1>10. /\ \A b \in Blocks' : b \in Nat /\ sizes'[b] \in Nat
       /\ \A b \in Blocks : b \in Nat /\ sizes[b] \in Nat
  BY <1>7, <1>9, ZenonT(60) DEF HeapType
<1>11. Frames' = Frames  BY <1>4, Zenon DEF Frames
<1>12. ASSUME NEW b \in new, NEW g \in SharesByte(Extent(b))' PROVE g \in f .. f + n - 1
  <2>1. g \in Nat /\ g * Page < b + (Header + sizes'[b]) /\ b < (g + 1) * Page
    BY <1>11, <1>3 DEF SharesByte, Extent, Frames
  <2>2. b \in Nat /\ sizes'[b] \in Nat /\ f * Page <= b /\ b + Header + sizes'[b] <= f * Page + n * Page
    BY <1>9, <1>10, Zenon
  <2>3. g * Page \in Nat /\ (g + 1) * Page \in Nat /\ g * Page < (g + 1) * Page  BY <1>5, <2>1
  <2> DEFINE x == IF b <= g * Page THEN g * Page ELSE b
  <2>4. x \in Nat /\ f * Page <= x /\ x < (f + n) * Page /\ g * Page <= x /\ x < (g + 1) * Page
    BY <1>5, <1>6, <2>1, <2>2, <2>3
  <2> HIDE DEF x
  <2>5. f <= g /\ g < f + n  BY <1>3, <1>5, <2>1, <2>4, FrameOfRun, ZenonT(60)
  <2> QED  BY <1>3, <1>5, <2>1, <2>5
<1>13. HeapFrames' \subseteq HeapFrames \cup (f .. f + n - 1)
  <2> SUFFICES ASSUME NEW b \in Blocks', NEW g \in SharesByte(Extent(b))'
               PROVE  g \in HeapFrames \cup (f .. f + n - 1)
    BY Zenon DEF HeapFrames
  <2>1. CASE b \in new  BY <1>12, <2>1, Zenon
  <2>2. CASE b \in Blocks
    <3>1. SharesByte(Extent(b))' = SharesByte(Extent(b))
      BY <1>9, <1>11, <2>2, ZenonT(60) DEF SharesByte, Extent
    <3> QED  BY <2>2, <3>1, ZenonT(60) DEF HeapFrames
  <2> QED  BY <1>9, <2>1, <2>2, ZenonT(60)
<1>14. BlocksApart'
  <2>1. ASSUME NEW b \in Blocks', NEW c \in Blocks', b # c PROVE Apart(b, c)'
    <3>1. CASE b \in Blocks /\ c \in Blocks
      <4>1. Apart(b, c)  BY <1>7, <2>1, <3>1, ZenonT(60) DEF BlocksApart
      <4> QED  BY <1>9, <3>1, <4>1, ZenonT(60) DEF Apart
    <3>2. CASE b \in new /\ c \in new  BY <1>9, <2>1, <3>2, ZenonT(60)
    <3>3. CASE b \in new /\ c \in Blocks
      <4>1. c + Header + sizes'[c] <= f * Page \/ f * Page + n * Page <= c  BY <1>8, <1>9, <3>3, ZenonT(60)
      <4>2. f * Page <= b /\ b + Header + sizes'[b] <= f * Page + n * Page  BY <1>9, <3>3, ZenonT(60)
      <4> QED  BY <1>5, <1>6, <1>10, <4>1, <4>2 DEF Apart
    <3>4. CASE b \in Blocks /\ c \in new
      <4>1. b + Header + sizes'[b] <= f * Page \/ f * Page + n * Page <= b  BY <1>8, <1>9, <3>4, ZenonT(60)
      <4>2. f * Page <= c /\ c + Header + sizes'[c] <= f * Page + n * Page  BY <1>9, <3>4, ZenonT(60)
      <4> QED  BY <1>5, <1>6, <1>10, <4>1, <4>2 DEF Apart
    <3> QED  BY <1>9, <3>1, <3>2, <3>3, <3>4, ZenonT(60)
  <2>2. ASSUME NEW g \in HeapFrames' PROVE granted'[g] = 1
    <3>1. granted' = [h \in AllFrames |-> granted[h] + (IF h \in f .. f + n - 1 THEN 1 ELSE 0)]
      BY <1>1, ZenonT(60) DEF AllocPages, Grant
    <3>2. g \in AllFrames
      <4>1. g \in Frames'  BY Zenon DEF HeapFrames, SharesByte
      <4> QED  BY <1>11, <4>1, FramesKnown, ZenonT(60) DEF HeapInv, IInv
    <3>3. CASE g \in f .. f + n - 1  BY <1>3, <3>1, <3>2, <3>3
    <3>4. CASE g \notin f .. f + n - 1
      <4>1. g \in HeapFrames  BY <1>13, <3>4, Zenon
      <4>2. granted[g] = 1  BY <1>7, <4>1, ZenonT(60) DEF BlocksApart
      <4> QED  BY <3>1, <3>2, <3>4, <4>2
    <3> QED  BY <3>3, <3>4, ZenonT(60)
  <2> QED  BY <2>1, <2>2, ZenonT(60) DEF BlocksApart
<1>15. NoByteLost'
  <2> SUFFICES ASSUME NEW g \in HeapFrames', NEW x \in g * Page .. (g + 1) * Page - 1
               PROVE  \E b \in Blocks' : b <= x /\ x < b + Header + sizes'[b]
    BY Zenon DEF NoByteLost
  <2>1. CASE g \in HeapFrames
    <3>1. PICK b \in Blocks : b <= x /\ x < b + Header + sizes[b]  BY <1>7, <2>1, ZenonT(60) DEF NoByteLost
    <3> QED  BY <1>9, <3>1, ZenonT(60)
  <2>2. CASE g \in f .. f + n - 1
    <3>1. g \in Nat /\ f <= g /\ g + 1 <= f + n  BY <1>3, <1>5, <2>2
    <3>2. f * Page <= g * Page /\ (g + 1) * Page <= (f + n) * Page  BY <1>3, <1>5, <3>1, MulMono
    <3>3. g * Page \in Nat /\ (g + 1) * Page \in Nat  BY <1>5, <3>1
    <3>4. x \in f * Page .. f * Page + n * Page - 1  BY <1>6, <3>2, <3>3
    <3>5. PICK b \in new : b <= x /\ x < b + Header + sizes'[b]  BY <1>9, <3>4, Zenon
    <3> QED  BY <1>9, <3>5, Zenon
  <2> QED  BY <1>13, <2>1, <2>2, ZenonT(60)
<1>16. HeldSafe'
  <2> DEFINE a == f * Page
  <2>1. /\ Blocks' = Blocks \cup new /\ new \cap Blocks = {} /\ a \in new /\ size <= sizes'[a]
        /\ Listed' = Listed \cup (new \ {a}) /\ \A b \in Blocks : sizes'[b] = sizes[b]
        /\ IsInjective(free_list)' /\ Listed \subseteq Blocks
    BY <1>7, <1>9, ZenonT(60) DEF ListSound
  <2>2. held' = WithBlock(held, a, size)  BY <1>1, Zenon
  <2> HIDE DEF a
  <2>3. /\ Listed' = (Listed \cup (new \ {a})) \ {a} /\ new \subseteq (new \ {a}) \cup {a}
        /\ a \in Blocks' /\ a \notin DOMAIN held /\ (new \ {a}) \cap Blocks = {}
    BY <2>1, ZenonT(60) DEF HeldSafe
  <2> QED  BY <2>1, <2>2, <2>3, HoldPreserves, ZenonT(60)
<1> QED  BY <1>4, <1>9, <1>14, <1>15, <1>16, ZenonT(60) DEF HeapInv

\* Every operation preserves the invariant.
LEMMA HeapNextInv == HeapSafe /\ [KheapNext]_kheap_vars => HeapSafe'
<1> SUFFICES ASSUME HeapInv, HeldSafe, [KheapNext]_kheap_vars PROVE HeapInv' /\ HeldSafe'  BY Zenon DEF HeapSafe
<1>0. IInv' /\ frame_limit' = frame_limit  BY PagesSound, Zenon
<1>1. CASE OtherPages
  <2>1. sizes' = sizes /\ free_list' = free_list /\ held' = held  BY <1>1, Zenon DEF OtherPages, heap
  <2>2. HeldSafe'  BY <2>1, Zenon DEF HeldSafe, Blocks, Listed
  <2> QED  BY <1>1, <2>2, OtherPagesPreserves, Zenon
<1>2. ASSUME NEW size \in Sizes, KmallocReuse(size) PROVE HeapInv' /\ HeldSafe'  BY <1>2, ReusePreserves, Zenon
<1>3. ASSUME NEW size \in Sizes, KmallocFresh(size) PROVE HeapInv' /\ HeldSafe'  BY <1>3, FreshPreserves, Zenon
<1>4. ASSUME NEW a \in DOMAIN held, Kfree(a) PROVE HeapInv' /\ HeldSafe'
  <2>1. a \in Blocks \ Listed  BY Zenon DEF HeldSafe
  <2>2. HeapInv'  BY <1>0, <1>4, <2>1, KfreePreserves, ZenonT(60)
  <2>3. IsInjective(free_list)'  BY <2>2, Zenon DEF HeapInv, ListSound
  <2> QED  BY <1>4, <2>2, <2>3, KfreeHeld, ZenonT(60)
<1>5. CASE UNCHANGED kheap_vars
  <2>1. sizes' = sizes /\ free_list' = free_list /\ held' = held /\ granted' = granted
    BY <1>5, Zenon DEF kheap_vars, heap, vars
  <2>2. free_list' \in Seq(Blocks) /\ IsInjective(free_list')
    BY <2>1, ZenonT(60) DEF HeapInv, HeapType, ListSound
  <2>3. HeapInv'  BY <1>0, <2>1, <2>2, BlocksKept, ZenonT(60)
  <2>4. HeldSafe'  BY <2>1, Zenon DEF HeldSafe, Blocks, Listed
  <2> QED  BY <2>3, <2>4, Zenon
<1> QED  BY <1>1, <1>2, <1>3, <1>4, <1>5, ZenonT(60) DEF KheapNext

LEMMA HeapInvariant == KheapSpec => []HeapSafe
<1>1. KheapInit => HeapSafe
  <2>1. KheapInit => HeldSafe  BY DEF KheapInit, HeldSafe, Blocks, Listed, Range, IsInjective
  <2> QED  BY <2>1, HeapInitInv, Zenon DEF HeapSafe
<1> QED  BY <1>1, HeapNextInv, PTL DEF KheapSpec

\* Two blocks of kmalloc never overlap and their pages are the heap's own, for all sizes of pages,
\* headers and requests, any number of blocks and whatever the other callers of pmm.c do.
THEOREM HeapBlocksApart == KheapSpec => []BlocksApart
<1>1. HeapSafe => BlocksApart  BY ZenonT(60) DEF HeapSafe, HeapInv
<1> QED  BY <1>1, HeapInvariant, PTL

\* Splitting leaves no byte of the heap's pages outside the blocks.
THEOREM HeapLosesNothing == KheapSpec => []NoByteLost
<1>1. HeapSafe => NoByteLost  BY ZenonT(60) DEF HeapSafe, HeapInv
<1> QED  BY <1>1, HeapInvariant, PTL

\* As long as callers free only what they hold, kmalloc hands no block to two of them and none that is too
\* small, and forgets none: every block is held or in the list, once.
THEOREM HeldBlocksSafe == KheapSpec => []HeldSafe
<1>1. HeapSafe => HeldSafe  BY Zenon DEF HeapSafe
<1> QED  BY <1>1, HeapInvariant, PTL
=============================================================================
