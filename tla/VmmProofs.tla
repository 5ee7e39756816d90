----------------------------- MODULE VmmProofs -----------------------------
(***************************************************************************)
(* Proofs about Vmm, for any frames, callers, virtual pages and rights:    *)
(* the steps under vmm_lock, and the theorems.                             *)
(***************************************************************************)
EXTENDS VmmInvariant, FiniteSetTheorems

-----------------------------------------------------------------------------
(* The steps under vmm_lock *)

From(k) == [table |-> Root, pool |-> call[k].pool, mem |-> mem]

LEMMA StartFacts ==
  ASSUME NEW d \in Depths, Inv(d), NEW k \in Callers, NEW v \in Virt, NEW rights \in SUBSET Flags,
         call[k].op \in {"map", "large"}
  PROVE  WalkOK(From(k), d, 0, v, rights)
<1>1. /\ Shape(mem, d) /\ NonEmpty(mem, d, Root) /\ CallOK(call[k], mem) /\ Account(holders, call, lost, InTree(d))
  BY Zenon DEF Inv
<1>2. call[k].pool \in Seq(Frames) /\ Distinct(call[k].pool) /\ ZeroedPool(mem, call[k].pool)  BY <1>1, ZenonT(60) DEF CallOK, Calls
<1>3. Members(call[k].pool) \cap InTree(d) = {}  BY <1>1, ZenonT(60) DEF Account
<1>4. Root \in Tables(d) /\ d[Root] = 0 /\ \A s \in Tables(d), j \in Idx : mem[s][j] \in Entries  BY <1>1, ShapeFacts, ZenonT(60)
<1>5. Above(mem, d, Root, rights)
  <2>1. \A s \in Tables(d), j \in Idx : ~Link(mem, s, j, Root)  BY <1>4, EntryFacts, VmmAssumption DEF Link
  <2> QED  BY <2>1, ZenonT(60) DEF Above
<1>6. Reached(mem, v, 0, Root)  BY Zenon DEF Reached
<1>7. From(k).table = Root /\ From(k).pool = call[k].pool /\ From(k).mem = mem  BY ZenonT(60) DEF From
<1> QED  BY <1>1, <1>2, <1>3, <1>4, <1>5, <1>6, <1>7, Zenon DEF WalkOK

\* What the entries of the upper two levels may be, and of the others.
LEMMA KindAt ==
  ASSUME NEW m, NEW d, Shape(m, d), NEW t \in Tables(d), NEW i \in Idx
  PROVE  /\ d[t] \in {0, 1} => m[t][i].kind \in {"absent", "table"}
         /\ d[t] = 2 => m[t][i].kind \in {"absent", "table", "large"} /\ (m[t][i].kind = "large" => m[t][i].to \in Pages)
         /\ d[t] = 3 => m[t][i].kind \in {"absent", "page"}
<1>1. Fits(m[t][i], d[t], d)  BY ZenonT(60) DEF Shape
<1> QED  BY <1>1 DEF Fits

\* An entry of the root or of a pdpt that is not absent leads to a table.
LEMMA LeadsOn ==
  ASSUME NEW m, NEW d, Shape(m, d), NEW t \in Tables(d), NEW i \in Idx, d[t] = 0 \/ d[t] = 1, m[t][i].kind # "absent"
  PROVE  m[t][i].kind = "table"
<1>1. m[t][i].kind \in {"absent", "table"}  BY KindAt, Zenon
<1> QED  BY <1>1, Zenon

LEMMA DirectoryFacts ==
  ASSUME NEW d \in Depths, Inv(d), NEW k \in Callers, NEW v \in Virt, NEW rights \in SUBSET Flags,
         call[k].op \in {"map", "large"}, ~Filling(k), NEW pd, pd = Directory(k, v, rights)
  PROVE  \E d2 \in Depths : /\ WalkOK(pd, d2, 2, v, rights) /\ Moved(From(k), d, pd, d2)
                            /\ call[k].op = "map" => pd.pool # << >>
<1>1. PICK pdpt : pdpt = GetOrCreateNext(From(k), v[1], rights)  BY Zenon
<1>2. pd = GetOrCreateNext(pdpt, v[2], rights)  BY <1>1, ZenonT(60) DEF Directory, From
<1>3. WalkOK(From(k), d, 0, v, rights)  BY StartFacts, ZenonT(60)
<1>4. From(k).pool = call[k].pool /\ call[k].pool \in Seq(Frames) /\ Len(call[k].pool) = Need(call[k].op)
  <2>1. call[k] \in Calls /\ Len(call[k].pool) <= Need(call[k].op)  BY Zenon DEF Inv, CallOK
  <2>2. call[k].pool \in Seq(Frames)  BY <2>1, ZenonT(60) DEF Calls
  <2>3. ~(Len(call[k].pool) < Need(call[k].op))  BY Zenon DEF Filling
  <2>4. Len(call[k].pool) \in Nat /\ Need(call[k].op) \in Nat  BY <2>2 DEF Need
  <2> QED  BY <2>1, <2>2, <2>3, <2>4 DEF From
<1>5. Need(call[k].op) \in {2, 3} /\ (call[k].op = "map" => Need(call[k].op) = 3)  BY Zenon DEF Need
<1>6. From(k).pool # << >>
  <2>1. Len(From(k).pool) > 0  BY <1>4, <1>5
  <2> QED  BY <2>1
<1>7. v[1] \in Idx /\ v[2] \in Idx  BY IdxFacts, ZenonT(60)
<1>8. From(k).mem[From(k).table][v[0 + 1]].kind \in {"absent", "table"}
  <2>1. /\ Shape(From(k).mem, d) /\ From(k).table \in Tables(d) /\ d[From(k).table] = 0
    BY <1>3, ZenonT(60) DEF WalkOK
  <2> QED  BY ONLY <1>7, <2>1, KindAt, SMTT(60)
<1>9. pdpt = GetOrCreateNext(From(k), v[0 + 1], rights)  BY ONLY <1>1, SMTT(60)
<1>10. PICK d1 \in Depths : /\ WalkOK(pdpt, d1, 0 + 1, v, rights) /\ Moved(From(k), d, pdpt, d1)
                            /\ Len(pdpt.pool) >= Len(From(k).pool) - 1
  <2>1. Descends(From(k), d, 0, v, rights, pdpt)
    <3>1. 0 \in 0 .. 2  OBVIOUS
    <3> QED  BY <1>3, <1>6, <1>8, <1>9, <3>1, Zenon DEF Descends
  <2> QED  BY <2>1, NextTable, ZenonT(60)
<1>11. WalkOK(pdpt, d1, 1, v, rights)  BY <1>10
<1>12. Len(pdpt.pool) >= Need(call[k].op) - 1 /\ pdpt.pool \in Seq(Frames)  BY <1>4, <1>10, <1>11, ZenonT(60) DEF WalkOK
<1>13. pdpt.pool # << >>
  <2>1. Len(pdpt.pool) > 0  BY <1>5, <1>12
  <2> QED  BY <2>1
<1>14. pdpt.mem[pdpt.table][v[1 + 1]].kind \in {"absent", "table"}
  <2>1. /\ Shape(pdpt.mem, d1) /\ pdpt.table \in Tables(d1) /\ d1[pdpt.table] = 1
    BY <1>11, ZenonT(60) DEF WalkOK
  <2> QED  BY ONLY <1>7, <2>1, KindAt, SMTT(60)
<1>15. pd = GetOrCreateNext(pdpt, v[1 + 1], rights)  BY <1>2
<1>16. PICK d2 \in Depths : /\ WalkOK(pd, d2, 1 + 1, v, rights) /\ Moved(pdpt, d1, pd, d2)
                            /\ Len(pd.pool) >= Len(pdpt.pool) - 1
  <2>1. Descends(pdpt, d1, 1, v, rights, pd)
    <3>1. 1 \in 0 .. 2  OBVIOUS
    <3> QED  BY <1>11, <1>13, <1>14, <1>15, <3>1, Zenon DEF Descends
  <2> QED  BY <2>1, NextTable, Zenon
<1>17. WalkOK(pd, d2, 2, v, rights)  BY <1>16
<1>18. Moved(From(k), d, pd, d2)  BY <1>10, <1>16, MovedOn, ZenonT(60)
<1>19. call[k].op = "map" => pd.pool # << >>
  <2>1. pd.pool \in Seq(Frames)  BY <1>17, ZenonT(60) DEF WalkOK
  <2>2. Len(pdpt.pool) \in Nat /\ Len(pd.pool) \in Nat  BY <1>12, <2>1
  <2>3. call[k].op = "map" => Len(pd.pool) > 0  BY <1>5, <1>12, <1>16, <2>2
  <2> QED  BY <2>3
<1> QED  BY <1>17, <1>18, <1>19, ZenonT(60)

\* Pages that one entry of a page directory covers.
Covered(v, w) == w[1] = v[1] /\ w[2] = v[2] /\ w[3] = v[3]

LEMMA ReachCovered ==
  ASSUME NEW m, NEW d, Shape(m, d), NEW v \in Virt, NEW w \in Virt, NEW t \in Frames
  PROVE  /\ Reached(m, v, 2, t) => (Reached(m, w, 2, t) /\ w[3] = v[3] <=> Covered(v, w))
         /\ Reached(m, v, 3, t) => (Reached(m, w, 3, t) /\ w[4] = v[4] <=> w = v)
<1>1. ASSUME Reached(m, v, 2, t) PROVE Reached(m, w, 2, t) /\ w[3] = v[3] <=> Covered(v, w)
  <2>1. Reach2(m, v, t) /\ (Reached(m, w, 2, t) <=> Reach2(m, w, t))  BY <1>1 DEF Reached
  <2>2. Reach2(m, w, t) => w[1] = v[1] /\ w[2] = v[2]  BY <2>1, SameWay, ZenonT(60)
  <2>3. w[1] = v[1] /\ w[2] = v[2] => Reach2(m, w, t)  BY <2>1, ZenonT(60) DEF Reach2, Reach1
  <2> QED  BY <2>1, <2>2, <2>3, ZenonT(60) DEF Covered
<1>2. ASSUME Reached(m, v, 3, t) PROVE Reached(m, w, 3, t) /\ w[4] = v[4] <=> w = v
  <2>1. Reach3(m, v, t) /\ (Reached(m, w, 3, t) <=> Reach3(m, w, t))  BY <1>2 DEF Reached
  <2>2. Reach3(m, w, t) => w[1] = v[1] /\ w[2] = v[2] /\ w[3] = v[3]  BY <2>1, SameWay, ZenonT(60)
  <2>3. v \in [1 .. 4 -> Int] /\ w \in [1 .. 4 -> Int]  BY VmmAssumption, ZenonT(60)
  <2>4. ASSUME w[1] = v[1], w[2] = v[2], w[3] = v[3], w[4] = v[4] PROVE w = v
    <3>1. \A level \in 1 .. 4 : w[level] = v[level]  BY <2>4
    <3> QED  BY <2>3, <3>1
  <2> QED  BY <2>1, <2>2, <2>4, ZenonT(60)
<1> QED  BY <1>1, <1>2, ZenonT(60)

\* What a call does to where the pages lead.
MapEffect(v, page, rights) ==
  /\ Leaf(mem, v).kind # "large"
  /\ \A w \in Virt : Leaf(mem', w) = IF w = v THEN Entry("page", page, rights) ELSE Leaf(mem, w)
LargeEffect(v, page, rights) ==
  \A w \in Virt : Leaf(mem', w) = IF Covered(v, w) THEN Entry("large", page, rights) ELSE Leaf(mem, w)
UnmapEffect(v) ==
  /\ Leaf(mem, v).kind # "large"
  /\ \A w \in Virt : Leaf(mem', w) = IF w = v THEN Absent ELSE Leaf(mem, w)

\* The last entry has been written, at the end of a walk.
Walked(d, k, at, d1, n, v, rights) ==
  /\ d \in Depths /\ Inv(d) /\ k \in Callers /\ d1 \in Depths /\ v \in Virt
  /\ WalkOK(at, d1, n, v, rights) /\ Moved(From(k), d, at, d1)
Ends(k, at, d1, i, e, cut, m2, d2) ==
  /\ d2 \in Depths /\ Shape(m2, d2) /\ NonEmpty(m2, d2, Root) /\ Wrote(at.mem, m2, at.table, i, e)
  /\ cut \in SUBSET InTree(d1) /\ InTree(d2) = InTree(d1) \ cut
  /\ mem' = m2 /\ call' = [call EXCEPT ![k] = Giving(at.pool)] /\ lost' = lost \cup cut /\ holders' = holders

LEMMA WalkEnds ==
  ASSUME NEW d, NEW k, NEW at, NEW d1, NEW n, NEW v, NEW rights, Walked(d, k, at, d1, n, v, rights),
         NEW i, NEW e, NEW cut, NEW m2, NEW d2, Ends(k, at, d1, i, e, cut, m2, d2)
  PROVE  Inv(d2)'
<1>0. /\ d \in Depths /\ Inv(d) /\ k \in Callers /\ d1 \in Depths /\ v \in Virt
      /\ WalkOK(at, d1, n, v, rights) /\ Moved(From(k), d, at, d1)
      /\ d2 \in Depths /\ Shape(m2, d2) /\ NonEmpty(m2, d2, Root) /\ Wrote(at.mem, m2, at.table, i, e)
      /\ cut \in SUBSET InTree(d1) /\ InTree(d2) = InTree(d1) \ cut
      /\ mem' = m2 /\ call' = [call EXCEPT ![k] = Giving(at.pool)] /\ lost' = lost \cup cut /\ holders' = holders
  BY Zenon DEF Walked, Ends
<1> USE <1>0
<1>1. From(k).pool = call[k].pool /\ From(k).mem = mem  BY ZenonT(60) DEF From
<1>2. /\ InTree(d1) \cup Members(at.pool) = InTree(d) \cup Members(call[k].pool)
      /\ \A f \in Frames : f \notin InTree(d) \cup Members(call[k].pool) => at.mem[f] = mem[f]
  BY <1>1, ZenonT(60) DEF Moved
<1>3. /\ Shape(at.mem, d1) /\ at.table \in Tables(d1) /\ at.pool \in Seq(Frames) /\ Distinct(at.pool)
      /\ Members(at.pool) \cap InTree(d1) = {}
  BY ZenonT(60) DEF WalkOK
<1>4. at.mem \in Memory  BY <1>3, ShapeFacts, ZenonT(60)
<1>5. \A f \in Frames : f \notin InTree(d) \cup Members(call[k].pool) => m2[f] = mem[f]
  <2> SUFFICES ASSUME NEW f \in Frames, f \notin InTree(d) \cup Members(call[k].pool) PROVE m2[f] = mem[f]
    BY Zenon
  <2>1. f \notin InTree(d1)  BY <1>2, ZenonT(60)
  <2>2. f # at.table  BY <1>3, <2>1, ZenonT(60) DEF InTree, Tables
  <2>3. m2[f] = at.mem[f]
    <3>1. Wrote(at.mem, m2, at.table, i, e) /\ f \in Frames \cup {Root}  BY Zenon
    <3> QED  BY ONLY <1>4, <2>2, <3>1, WroteElsewhere, SMTT(60)
  <2> QED  BY <1>2, <2>3, ZenonT(60)
<1>6. Account(holders, call, lost, InTree(d))  BY ZenonT(60) DEF Inv
<1>7. /\ lost \in SUBSET Frames /\ InTree(d) \cap lost = {} /\ Members(call[k].pool) \cap lost = {}
      /\ InTree(d1) \in SUBSET Frames
  BY <1>6, ZenonT(60) DEF Account, InTree
<1>8. PICK l2 : l2 = lost \cup cut  BY ZenonT(60)
<1>9. PICK t2 : t2 = InTree(d2)  BY ZenonT(60)
<1>10. PICK t1 : t1 = InTree(d1)  BY ZenonT(60)
<1>11. PICK t0 : t0 = InTree(d)  BY ZenonT(60)
<1>12. /\ l2 \in SUBSET Frames /\ t2 \cap l2 = {} /\ Members(at.pool) \cap (t2 \cup l2) = {}
       /\ Members(at.pool) \cup t2 \cup l2 = Members(call[k].pool) \cup t0 \cup lost
  BY <1>2, <1>3, <1>7, <1>8, <1>9, <1>10, <1>11, ZenonT(60)
<1>13. /\ l2 \in SUBSET Frames /\ lost' = l2
       /\ Members(at.pool) \cup InTree(d2) \cup l2 = Members(call[k].pool) \cup InTree(d) \cup lost
       /\ InTree(d2) \cap l2 = {} /\ Members(at.pool) \cap (InTree(d2) \cup l2) = {}
  BY <1>8, <1>9, <1>11, <1>12, Zenon
<1>14. /\ Inv(d) /\ k \in Callers /\ d2 \in Depths /\ Shape(m2, d2) /\ NonEmpty(m2, d2, Root)
       /\ at.pool \in Seq(Frames) /\ Distinct(at.pool)
       /\ mem' = m2 /\ call' = [call EXCEPT ![k] = Giving(at.pool)] /\ holders' = holders
  BY <1>3, Zenon
<1> QED  BY ONLY <1>5, <1>13, <1>14, LockedStep, ZenonT(60)

LEMMA MapPageStep ==
  ASSUME NEW d \in Depths, Inv(d), NEW k \in Callers, NEW v \in Virt, NEW page \in Pages, NEW rights \in Rights,
         MapPage(k, v, page, rights)
  PROVE  \/ (\E d2 \in Depths : Inv(d2)') /\ MapEffect(v, page, rights) /\ within' = within
         \/ Leaf(mem, v).kind = "large" /\ within' = within \cup {v}
<1>1. PICK pd : pd = Directory(k, v, rights)  BY ZenonT(60)
<1>2. PICK pt : pt = GetOrCreateNext(pd, v[3], rights)  BY ZenonT(60)
<1>3. /\ call[k].op = "map" /\ ~Filling(k) /\ holders' = holders /\ lost' = lost
      /\ mem' = [pt.mem EXCEPT ![pt.table][v[4]] = Entry("page", page, rights)]
      /\ call' = [call EXCEPT ![k] = Giving(pt.pool)]
      /\ within' = within \cup (IF pd.mem[pd.table][v[3]].kind = "large" THEN {v} ELSE {})
  BY <1>1, <1>2, ZenonT(60) DEF MapPage
<1>4. rights \in SUBSET Flags  BY ZenonT(60) DEF Flags
<1>5. PICK d2 \in Depths : WalkOK(pd, d2, 2, v, rights) /\ Moved(From(k), d, pd, d2) /\ pd.pool # << >>
  BY <1>1, <1>3, <1>4, DirectoryFacts, ZenonT(60)
<1>6. v[3] \in Idx /\ v[4] \in Idx  BY IdxFacts, ZenonT(60)
<1>7. /\ Shape(pd.mem, d2) /\ NonEmpty(pd.mem, d2, pd.table) /\ pd.table \in Tables(d2) /\ d2[pd.table] = 2
      /\ Reached(pd.mem, v, 2, pd.table) /\ Above(pd.mem, d2, pd.table, rights)
  BY <1>5, ZenonT(60) DEF WalkOK
<1>8. /\ pd.mem[pd.table][v[3]].kind \in {"absent", "table", "large"}
      /\ pd.mem[pd.table][v[3]].kind = "large" => pd.mem[pd.table][v[3]].to \in Pages
  BY ONLY <1>6, <1>7, KindAt, SMTT(60)
<1>9. \A w \in Virt : Leaf(pd.mem, w) = Leaf(mem, w)  BY <1>5, Zenon DEF Moved, From
<1>10. CASE pd.mem[pd.table][v[3]].kind # "large"
  <2>1. pt = GetOrCreateNext(pd, v[2 + 1], rights) /\ pd.mem[pd.table][v[2 + 1]].kind \in {"absent", "table"}
    BY ONLY <1>2, <1>8, <1>10, SMTT(60)
  <2>2. PICK d3 \in Depths : WalkOK(pt, d3, 2 + 1, v, rights) /\ Moved(pd, d2, pt, d3)
    <3>1. 2 \in 0 .. 2  OBVIOUS
    <3>2. Descends(pd, d2, 2, v, rights, pt)  BY <1>4, <1>5, <2>1, <3>1, Zenon DEF Descends
    <3> QED  BY <3>2, NextTable, ZenonT(60)
  <2>3. WalkOK(pt, d3, 3, v, rights) /\ Moved(From(k), d, pt, d3)  BY <1>5, <2>2, MovedOn
  <2>4. /\ Shape(pt.mem, d3) /\ NonEmpty(pt.mem, d3, pt.table) /\ pt.table \in Tables(d3) /\ d3[pt.table] = 3
        /\ Reached(pt.mem, v, 3, pt.table) /\ Above(pt.mem, d3, pt.table, rights)
    BY <2>3, ZenonT(60) DEF WalkOK
  <2>5. pt.mem \in Memory /\ pt.table \in Frames
    <3>1. pt.mem \in Memory /\ d3[Root] = 0 /\ pt.table \in Frames \cup {Root}  BY <2>4, ShapeFacts, ZenonT(60)
    <3> QED  BY <2>4, <3>1
  <2> DEFINE e == Entry("page", page, rights)
  <2>6. e \in Entries /\ e.kind = "page" /\ e.flags = rights  BY <1>4, EntryMade
  <2>7. Wrote(pt.mem, mem', pt.table, v[4], e)  BY <1>3, <1>6, <2>5, <2>6, WriteEntry, Zenon
  <2>8. pt.mem[pt.table][v[4]].kind \in {"absent", "page"}  BY ONLY <1>6, <2>4, KindAt, SMTT(60)
  <2>9. Fits(e, d3[pt.table], d3)  BY <2>4, <2>6, Zenon DEF Fits
  <2>10. Shape(mem', d3) /\ NonEmpty(mem', d3, Root)
    BY ONLY <1>6, <2>4, <2>6, <2>7, <2>8, <2>9, SetLeaf, SMTT(60)
  <2>11. Inv(d3)'
    <3>1. {} \in SUBSET InTree(d3) /\ InTree(d3) = InTree(d3) \ {} /\ lost' = lost \cup {}  BY <1>3, ZenonT(60)
    <3>2. Walked(d, k, pt, d3, 3, v, rights)  BY <2>3, Zenon DEF Walked
    <3>3. PICK m2 : m2 = mem'  BY ZenonT(60)
    <3>4. Ends(k, pt, d3, v[4], e, {}, m2, d3)
      BY <1>3, <2>7, <2>10, <3>1, <3>3, Zenon DEF Ends
    <3> QED  BY <3>2, <3>4, WalkEnds, ZenonT(60)
  <2>12. \A w \in Virt : Leaf(pt.mem, w) = Leaf(mem, w)  BY <2>3, ZenonT(60) DEF Moved, From
  <2>13. Leaf(mem, v).kind # "large"
    <3>1. Reach3(pt.mem, v, pt.table)  BY ONLY <2>4, SMTT(60) DEF Reached
    <3>2. Leaf(pt.mem, v) = pt.mem[pt.table][v[4]]  BY <3>1, Resolve, ZenonT(60) DEF Val3
    <3> QED  BY <2>8, <2>12, <3>2, ZenonT(60)
  <2>14. ASSUME NEW w \in Virt PROVE Leaf(mem', w) = IF w = v THEN e ELSE Leaf(mem, w)
    <3>1. Leaf(mem', w) = IF Reached(pt.mem, w, d3[pt.table], pt.table) /\ w[d3[pt.table] + 1] = v[4] THEN e ELSE Leaf(pt.mem, w)
      BY ONLY <1>6, <2>4, <2>7, w \in Virt, LeafWrite, SMTT(60)
    <3>2. Reached(pt.mem, w, 3, pt.table) /\ w[4] = v[4] <=> w = v  BY ONLY <2>4, <2>5, ReachCovered, SMTT(60)
    <3>3. d3[pt.table] = 3 /\ 3 + 1 = 4  BY <2>4
    <3> QED  BY <2>12, <3>1, <3>2, <3>3, ZenonT(60)
  <2>15. within' = within  BY <1>3, <1>10, ZenonT(60)
  <2> QED  BY <2>11, <2>13, <2>14, <2>15, Zenon DEF MapEffect
<1>11. CASE pd.mem[pd.table][v[3]].kind = "large"
  <2>1. pd.table \in Frames \cup {Root} /\ d2[Root] = 0  BY <1>7, ShapeFacts, ZenonT(60)
  <2>2. pd.table \in Frames  BY <1>7, <2>1
  <2>3. Reach2(pd.mem, v, pd.table)  BY <1>7 DEF Reached
  <2>4. Leaf(pd.mem, v) = Val2(pd.mem, pd.table, v)  BY <2>3, Resolve, ZenonT(60)
  <2>5. Leaf(mem, v).kind = "large"  BY <1>9, <1>11, <2>4, ZenonT(60) DEF Val2
  <2>6. within' = within \cup {v}  BY <1>3, <1>11, ZenonT(60)
  <2> QED  BY <2>5, <2>6, ZenonT(60)
<1> QED  BY <1>10, <1>11, ZenonT(60)

LEMMA Map2mStep ==
  ASSUME NEW d \in Depths, Inv(d), NEW k \in Callers, NEW v \in Virt, NEW page \in Pages, NEW rights \in Rights,
         Map2m(k, v, page, rights)
  PROVE  (\E d2 \in Depths : Inv(d2)') /\ LargeEffect(v, page, rights)
<1>1. PICK pd : pd = Directory(k, v, rights)  BY Zenon
<1>2. PICK old : old = pd.mem[pd.table][v[3]]  BY Zenon
<1>3. PICK e : e = Entry("large", page, rights)  BY ZenonT(60)
<1>4. /\ call[k].op = "large" /\ ~Filling(k) /\ holders' = holders
      /\ mem' = [pd.mem EXCEPT ![pd.table][v[3]] = e]
      /\ lost' = lost \cup (IF old.kind = "table" THEN {old.to} ELSE {})
      /\ call' = [call EXCEPT ![k] = Giving(pd.pool)]
  BY <1>1, <1>2, <1>3, ZenonT(60) DEF Map2m
<1>5. rights \in SUBSET Flags  BY Zenon DEF Flags
<1>6. PICK d2 \in Depths : WalkOK(pd, d2, 2, v, rights) /\ Moved(From(k), d, pd, d2)
  BY <1>1, <1>4, <1>5, DirectoryFacts, ZenonT(60)
<1>7. v[3] \in Idx  BY IdxFacts, ZenonT(60)
<1>8. /\ Shape(pd.mem, d2) /\ NonEmpty(pd.mem, d2, pd.table) /\ pd.table \in Tables(d2) /\ d2[pd.table] = 2
      /\ Reached(pd.mem, v, 2, pd.table) /\ Above(pd.mem, d2, pd.table, rights)
  BY <1>6, ZenonT(60) DEF WalkOK
<1>9. pd.mem \in Memory /\ pd.table \in Frames \cup {Root} /\ d2[Root] = 0 /\ old \in Entries  BY <1>2, <1>7, <1>8, ShapeFacts, ZenonT(60)
<1>10. e \in Entries /\ e.kind = "large" /\ e.flags = rights /\ e.to = page  BY <1>3, <1>5, EntryMade
<1>11. Wrote(pd.mem, mem', pd.table, v[3], e)  BY <1>4, <1>7, <1>9, <1>10, WriteEntry, ZenonT(60)
<1>12. Fits(e, d2[pd.table], d2)  BY <1>8, <1>10, ZenonT(60) DEF Fits
<1>13. \E d3 \in Depths : Inv(d3)'
  <2>1. CASE old.kind # "table"
    <3>1. Shape(mem', d2) /\ NonEmpty(mem', d2, Root)
      BY ONLY <1>2, <1>7, <1>8, <1>10, <1>11, <1>12, <2>1, SetLeaf, SMTT(60)
    <3>2. {} \in SUBSET InTree(d2) /\ InTree(d2) = InTree(d2) \ {} /\ lost' = lost \cup {}  BY <1>4, <2>1, ZenonT(60)
    <3>3. PICK m2 : m2 = mem'  BY Zenon
    <3>4. Ends(k, pd, d2, v[3], e, {}, m2, d2)  BY <1>4, <1>11, <3>1, <3>2, <3>3, Zenon DEF Ends
    <3>5. Walked(d, k, pd, d2, 2, v, rights)  BY <1>6, Zenon DEF Walked
    <3>6. Inv(d2)'  BY <3>4, <3>5, WalkEnds, ZenonT(60)
    <3> QED  BY <3>6, ZenonT(60)
  <2>2. CASE old.kind = "table"
    <3>1. PICK s : s = old.to  BY ZenonT(60)
    <3>2. PICK d3 : d3 = [d2 EXCEPT ![s] = Out]  BY ZenonT(60)
    <3>3. s \in Frames /\ Link(pd.mem, pd.table, v[3], s)  BY <1>2, <1>9, <2>2, <3>1, EntryFacts, ZenonT(60) DEF Link
    <3>4. s \in Tables(d2) /\ d2[s] = 3  BY ONLY <1>7, <1>8, <3>3, ShapeFacts, SMTT(60)
    <3>5. \A j \in Idx : pd.mem[s][j].kind # "table"  BY <1>8, <3>4, KindAt
    <3>6. NonEmpty(pd.mem, d2, s)
      <4>1. pd.mem[pd.table][v[3]].kind # "absent"  BY <1>2, <2>2, ZenonT(60)
      <4> QED  BY <1>7, <1>8, <4>1, ZenonT(60) DEF NonEmpty
    <3>7. Shape(mem', d3) /\ s \in InTree(d2) /\ InTree(d3) = InTree(d2) \ {s} /\ \A x : NonEmpty(mem', d3, x)
      <4>1. e.kind # "table" /\ e.kind # "absent" /\ Above(pd.mem, d2, pd.table, e.flags)  BY <1>8, <1>10, ZenonT(60)
      <4>2. CutOff(pd.mem, d2, pd.table, v[3], s, e, mem', d3)
        BY <1>7, <1>8, <1>10, <1>11, <1>12, <3>2, <3>3, <3>5, <4>1, Zenon DEF CutOff
      <4> QED  BY ONLY <3>6, <4>1, <4>2, Cut, SMTT(60)
    <3>8. {s} \in SUBSET InTree(d2) /\ lost' = lost \cup {s} /\ d3 \in Depths  BY <1>4, <2>2, <3>1, <3>7, ShapeFacts, ZenonT(60)
    <3>9. NonEmpty(mem', d3, Root)  BY <3>7, ZenonT(60)
    <3>10. Inv(d3)'
      <4>1. PICK m2 : m2 = mem'  BY Zenon
      <4>2. Ends(k, pd, d2, v[3], e, {s}, m2, d3)  BY <1>4, <1>11, <3>7, <3>8, <3>9, <4>1, Zenon DEF Ends
      <4>3. Walked(d, k, pd, d2, 2, v, rights)  BY <1>6, Zenon DEF Walked
      <4> QED  BY <4>2, <4>3, WalkEnds, ZenonT(60)
    <3> QED  BY <3>8, <3>10, ZenonT(60)
  <2> QED  BY <2>1, <2>2, ZenonT(60)
<1>14. pd.table \in Frames  BY ONLY <1>8, <1>9, SMTT(60)
<1>15. ASSUME NEW w \in Virt PROVE Leaf(mem', w) = IF Covered(v, w) THEN e ELSE Leaf(mem, w)
  <2>1. Leaf(mem', w) = IF Reached(pd.mem, w, d2[pd.table], pd.table) /\ w[d2[pd.table] + 1] = v[3] THEN e ELSE Leaf(pd.mem, w)
    BY ONLY <1>7, <1>8, <1>10, <1>11, LeafWrite, SMTT(60)
  <2>2. Reached(pd.mem, w, 2, pd.table) /\ w[3] = v[3] <=> Covered(v, w)  BY <1>8, <1>14, ReachCovered, Zenon
  <2>3. d2[pd.table] = 2 /\ 2 + 1 = 3  BY ONLY <1>8, SMTT(60)
  <2>4. Leaf(pd.mem, w) = Leaf(mem, w)  BY <1>6, ZenonT(60) DEF Moved, From
  <2> QED  BY ONLY <2>1, <2>2, <2>3, <2>4, SMTT(60)
<1> QED  BY <1>3, <1>13, <1>15, ZenonT(60) DEF LargeEffect

LEMMA NonEmptyFacts ==
  ASSUME NEW m, NEW d, NEW t
  PROVE  /\ NonEmpty(m, d, Root) => NonEmpty(m, d, t)
         /\ NonEmpty(m, d, t) /\ ~Empty(m[t]) => NonEmpty(m, d, Root)
<1>1. Root \notin InTree(d)  BY VmmAssumption, ZenonT(60) DEF InTree
<1>2. NonEmpty(m, d, Root) => NonEmpty(m, d, t)  BY <1>1, ZenonT(60) DEF NonEmpty
<1>3. NonEmpty(m, d, t) /\ ~Empty(m[t]) => NonEmpty(m, d, Root)  BY Zenon DEF NonEmpty, Empty
<1> QED  BY <1>2, <1>3, ZenonT(60)

\* A table that has become empty is cut off.
CutsEmpty(m, d, t, i, s, m2, d2) ==
  /\ Shape(m, d) /\ t \in Tables(d) /\ i \in Idx /\ s \in Frames /\ Link(m, t, i, s) /\ Empty(m[s])
  /\ NonEmpty(m, d, s) /\ m2 = [m EXCEPT ![t][i] = Absent] /\ d2 = [d EXCEPT ![s] = Out]

LEMMA CutEmpty ==
  ASSUME NEW m, NEW d, NEW t, NEW i, NEW s, NEW m2, NEW d2, CutsEmpty(m, d, t, i, s, m2, d2)
  PROVE  /\ Shape(m2, d2) /\ d2 \in Depths /\ NonEmpty(m2, d2, t) /\ s \in InTree(d) /\ InTree(d2) = InTree(d) \ {s}
         /\ \A r \in Tables(d) : r # s => r \in Tables(d2)
         /\ \A f \in Frames \cup {Root} : f # t => m2[f] = m[f]
         /\ \A w \in Virt : Leaf(m2, w) = Leaf(m, w)
<1>0. /\ Shape(m, d) /\ t \in Tables(d) /\ i \in Idx /\ s \in Frames /\ Link(m, t, i, s) /\ Empty(m[s])
      /\ NonEmpty(m, d, s) /\ m2 = [m EXCEPT ![t][i] = Absent] /\ d2 = [d EXCEPT ![s] = Out]
  BY Zenon DEF CutsEmpty
<1> USE <1>0
<1>1. m \in Memory /\ t \in Frames \cup {Root} /\ s \in InTree(d) /\ d[t] <= 2 /\ InTree(d) \subseteq Tables(d)
  BY ShapeFacts, ZenonT(60)
<1>2. Absent \in Entries /\ Absent.kind = "absent"  BY AbsentFacts, ZenonT(60)
<1>3. Wrote(m, m2, t, i, Absent)  BY <1>1, <1>2, WriteEntry, ZenonT(60)
<1>4. \A j \in Idx : m[s][j].kind = "absent"  BY ZenonT(60) DEF Empty
<1>5. Fits(Absent, d[t], d)  BY <1>2, ZenonT(60) DEF Fits
<1>6. \A j \in Idx : m[s][j].kind # "table"  BY <1>4, ZenonT(60)
<1>7. /\ Shape(m2, d2) /\ InTree(d2) = InTree(d) \ {s} /\ s # t /\ NonEmpty(m2, d2, t)
  <2>1. Absent.kind # "table" /\ ~(Absent.kind # "absent")  BY <1>2, ZenonT(60)
  <2>2. CutOff(m, d, t, i, s, Absent, m2, d2)  BY <1>2, <1>3, <1>5, <1>6, <2>1, Zenon DEF CutOff
  <2>3. Shape(m2, d2) /\ InTree(d2) = InTree(d) \ {s} /\ s # t /\ (NonEmpty(m, d, s) => NonEmpty(m2, d2, t))
    BY ONLY <2>2, Cut
  <2> QED  BY <2>3, Zenon
<1>8. d2 \in Depths  BY <1>7, ShapeFacts, Zenon
<1>9. \A r \in Tables(d) : r # s => r \in Tables(d2)
  <2>1. d \in Depths  BY ShapeFacts, ZenonT(60)
  <2> QED  BY <2>1, ZenonT(60) DEF Tables, Depths
<1>10. \A f \in Frames \cup {Root} : f # t => m2[f] = m[f]  BY <1>1, <1>3, WroteElsewhere
<1>11. Blank(m, m[t][i])
  <2>1. s \in Tables(d) /\ \A j \in Idx : m[s][j] \in Entries  BY <1>1, ShapeFacts, Zenon
  <2>2. \A j \in Idx : m[s][j] = Absent  BY <1>4, <2>1, EntryFacts, ZenonT(60)
  <2> QED  BY <2>2, Zenon DEF Blank, Link
<1>12. Blank(m2, Absent)  BY Zenon DEF Blank
<1>13. \A w \in Virt : Leaf(m2, w) = Leaf(m, w)  BY <1>1, <1>3, <1>11, <1>12, LeafBlank
<1> QED  BY <1>1, <1>7, <1>8, <1>9, <1>10, <1>13, ZenonT(60)

LEMMA ShortPools ==
  ASSUME NEW a \in Frames, NEW b \in Frames, NEW c \in Frames, a # b, b # c, a # c
  PROVE  /\ <<a>> \in Seq(Frames) /\ Distinct(<<a>>) /\ Members(<<a>>) = {a}
         /\ <<a, b>> \in Seq(Frames) /\ Distinct(<<a, b>>) /\ Members(<<a, b>>) = {a, b}
         /\ <<a, b, c>> \in Seq(Frames) /\ Distinct(<<a, b, c>>) /\ Members(<<a, b, c>>) = {a, b, c}
<1>1. <<a>> \in Seq(Frames) /\ Distinct(<<a>>) /\ Members(<<a>>) = {a}  BY DEF Distinct, Members
<1>2. DOMAIN <<a, b>> = {1, 2} /\ <<a, b>>[1] = a /\ <<a, b>>[2] = b  OBVIOUS
<1>3. <<a, b>> \in Seq(Frames) /\ Distinct(<<a, b>>) /\ Members(<<a, b>>) = {a, b}  BY <1>2 DEF Distinct, Members
<1>4. DOMAIN <<a, b, c>> = {1, 2, 3} /\ <<a, b, c>>[1] = a /\ <<a, b, c>>[2] = b /\ <<a, b, c>>[3] = c  OBVIOUS
<1>5. <<a, b, c>> \in Seq(Frames) /\ Distinct(<<a, b, c>>) /\ Members(<<a, b, c>>) = {a, b, c}
  BY <1>4 DEF Distinct, Members
<1> QED  BY <1>1, <1>3, <1>5, Zenon

\* The tables that a call has cut off are left to it.
LEMMA UnmapEnds ==
  ASSUME NEW d \in Depths, Inv(d), NEW k \in Callers, call[k] = Idle, NEW m2, NEW d2 \in Depths, NEW pool \in Seq(Frames), Distinct(pool),
         Shape(m2, d2), NonEmpty(m2, d2, Root), Members(pool) \subseteq InTree(d), InTree(d2) = InTree(d) \ Members(pool),
         \A f \in Frames : f \notin InTree(d) => m2[f] = mem[f],
         mem' = m2, call' = [call EXCEPT ![k] = Giving(pool)], lost' = lost, holders' = holders
  PROVE  Inv(d2)'
<1>1. call[k].pool = << >> /\ Members(call[k].pool) = {}  BY EmptyPool DEF Idle
<1>2. Account(holders, call, lost, InTree(d))  BY Zenon DEF Inv
<1>3. lost \in SUBSET Frames /\ InTree(d) \cap lost = {}  BY <1>2, Zenon DEF Account
<1>4. \A f \in Frames : f \notin InTree(d) \cup Members(call[k].pool) => m2[f] = mem[f]  BY <1>1, ZenonT(60)
<1>5. /\ Members(pool) \cup InTree(d2) \cup lost = Members(call[k].pool) \cup InTree(d) \cup lost
      /\ InTree(d2) \cap lost = {} /\ Members(pool) \cap (InTree(d2) \cup lost) = {}
  BY <1>1, <1>3, ZenonT(60)
<1> QED  BY <1>3, <1>4, <1>5, LockedStep, ZenonT(60)

LEMMA UnmapPageStep ==
  ASSUME NEW d \in Depths, Inv(d), NEW k \in Callers, NEW v \in Virt, UnmapPage(k, v)
  PROVE  (\E d2 \in Depths : Inv(d2)') /\ UnmapEffect(v)
<1>1. PICK pdpt : pdpt = mem[Root][v[1]].to  BY Zenon
<1>2. PICK pd : pd = mem[pdpt][v[2]].to  BY Zenon
<1>3. PICK pt : pt = mem[pd][v[3]].to  BY Zenon
<1>4. PICK m1 : m1 = [mem EXCEPT ![pt][v[4]] = Absent]  BY Zenon
<1>5. PICK m2 : m2 = [m1 EXCEPT ![pd][v[3]] = Absent]  BY Zenon
<1>6. PICK m3 : m3 = [m2 EXCEPT ![pdpt][v[2]] = Absent]  BY Zenon
<1>7. PICK m4 : m4 = [m3 EXCEPT ![Root][v[1]] = Absent]  BY Zenon
<1>8. /\ call[k] = Idle /\ Present(Root, v[1]) /\ Present(pdpt, v[2]) /\ mem[pd][v[3]].kind = "table"
      /\ holders' = holders /\ lost' = lost
      /\ \/ ~Empty(m1[pt]) /\ mem' = m1 /\ call' = [call EXCEPT ![k] = Giving(<< >>)]
         \/ Empty(m1[pt]) /\ ~Empty(m2[pd]) /\ mem' = m2 /\ call' = [call EXCEPT ![k] = Giving(<<pt>>)]
         \/ /\ Empty(m1[pt]) /\ Empty(m2[pd]) /\ ~Empty(m3[pdpt])
            /\ mem' = m3 /\ call' = [call EXCEPT ![k] = Giving(<<pt, pd>>)]
         \/ /\ Empty(m1[pt]) /\ Empty(m2[pd]) /\ Empty(m3[pdpt])
            /\ mem' = m4 /\ call' = [call EXCEPT ![k] = Giving(<<pt, pd, pdpt>>)]
  BY <1>1, <1>2, <1>3, <1>4, <1>5, <1>6, <1>7, Zenon DEF UnmapPage
<1>9. Shape(mem, d) /\ NonEmpty(mem, d, Root)  BY ZenonT(60) DEF Inv
<1>10. v[1] \in Idx /\ v[2] \in Idx /\ v[3] \in Idx /\ v[4] \in Idx  BY IdxFacts, ZenonT(60)
<1>11. /\ mem \in Memory /\ Root \in Tables(d) /\ d[Root] = 0 /\ InTree(d) \subseteq Tables(d)
       /\ \A s \in Tables(d), j \in Idx : mem[s][j] \in Entries
       /\ \A s \in Tables(d), j \in Idx, g \in Frames : Link(mem, s, j, g) => d[g] = d[s] + 1 /\ g \in InTree(d)
  BY ONLY <1>9, ShapeFacts, SMTT(60)
<1>12. pdpt \in Frames /\ Link(mem, Root, v[1], pdpt) /\ d[pdpt] = 1 /\ pdpt \in InTree(d)
  <2>1. mem[Root][v[1]].kind = "table"
    <3>1. mem[Root][v[1]].kind # "absent"  BY <1>8, Zenon DEF Present
    <3>2. Shape(mem, d) /\ Root \in Tables(d) /\ d[Root] = 0 /\ v[1] \in Idx  BY <1>9, <1>10, <1>11, Zenon
    <3> QED  BY ONLY <3>1, <3>2, LeadsOn, Zenon
  <2>2. pdpt \in Frames  BY <1>1, <1>10, <1>11, <2>1, EntryFacts, ZenonT(60)
  <2>3. Link(mem, Root, v[1], pdpt)  BY <1>1, <2>1, ZenonT(60) DEF Link
  <2> QED  BY ONLY <1>10, <1>11, <2>2, <2>3, SMTT(60)
<1>13. pd \in Frames /\ Link(mem, pdpt, v[2], pd) /\ d[pd] = 2 /\ pd \in InTree(d)
  <2>1. mem[pdpt][v[2]].kind = "table"
    <3>1. mem[pdpt][v[2]].kind # "absent"  BY <1>8, Zenon DEF Present
    <3>2. Shape(mem, d) /\ pdpt \in Tables(d) /\ d[pdpt] = 1 /\ v[2] \in Idx  BY <1>9, <1>10, <1>11, <1>12, Zenon
    <3> QED  BY ONLY <3>1, <3>2, LeadsOn, Zenon
  <2>2. pd \in Frames  BY <1>2, <1>10, <1>11, <1>12, <2>1, EntryFacts, ZenonT(60)
  <2>3. Link(mem, pdpt, v[2], pd)  BY <1>2, <2>1, ZenonT(60) DEF Link
  <2> QED  BY ONLY <1>10, <1>11, <1>12, <2>2, <2>3, SMTT(60)
<1>14. pt \in Frames /\ Link(mem, pd, v[3], pt) /\ d[pt] = 3 /\ pt \in InTree(d)
  <2>1. pt \in Frames  BY <1>3, <1>8, <1>10, <1>11, <1>13, EntryFacts, ZenonT(60)
  <2>2. Link(mem, pd, v[3], pt)  BY <1>3, <1>8, ZenonT(60) DEF Link
  <2> QED  BY ONLY <1>10, <1>11, <1>13, <2>1, <2>2, SMTT(60)
<1>15. pt # pd /\ pd # pdpt /\ pt # pdpt /\ pt # Root /\ pd # Root /\ pdpt # Root  BY ONLY <1>11, <1>12, <1>13, <1>14, SMTT(60)
<1>16. Reached(mem, v, 3, pt)  BY <1>12, <1>13, <1>14, ZenonT(60) DEF Reached, Reach3, Reach2, Reach1
<1>17. Leaf(mem, v).kind # "large"
  <2>1. Leaf(mem, v) = mem[pt][v[4]]  BY ONLY <1>16, Resolve, SMTT(60) DEF Reached, Val3
  <2> QED  BY ONLY <1>9, <1>10, <1>11, <1>14, <2>1, KindAt, SMTT(60)
\* The entry is cleared.
<1>18. Wrote(mem, m1, pt, v[4], Absent)  BY <1>4, <1>10, <1>11, <1>14, AbsentFacts, WriteEntry, ZenonT(60)
<1>19. Shape(m1, d) /\ NonEmpty(m1, d, pt)
  <2>1. mem[pt][v[4]].kind # "table" /\ pt \in Tables(d)  BY ONLY <1>9, <1>10, <1>11, <1>14, KindAt, SMTT(60)
  <2>2. Fits(Absent, d[pt], d)  BY AbsentFacts, ZenonT(60) DEF Fits
  <2>3. NonEmpty(mem, d, pt)  BY <1>9, NonEmptyFacts, ZenonT(60)
  <2> QED  BY ONLY <1>9, <1>10, <1>18, <2>1, <2>2, <2>3, AbsentFacts, SetLeaf, SMTT(60)
<1>20. \A w \in Virt : Leaf(m1, w) = IF w = v THEN Absent ELSE Leaf(mem, w)
  <2> SUFFICES ASSUME NEW w \in Virt PROVE Leaf(m1, w) = IF w = v THEN Absent ELSE Leaf(mem, w)
    BY ZenonT(60)
  <2>1. Leaf(m1, w) = IF Reached(mem, w, d[pt], pt) /\ w[d[pt] + 1] = v[4] THEN Absent ELSE Leaf(mem, w)
    BY ONLY <1>9, <1>10, <1>11, <1>14, <1>18, LeafWrite, SMTT(60)
  <2>2. Reached(mem, w, 3, pt) /\ w[4] = v[4] <=> w = v  BY <1>9, <1>14, <1>16, ReachCovered
  <2>3. d[pt] = 3 /\ 3 + 1 = 4  BY <1>14
  <2> QED  BY <2>1, <2>2, <2>3, ZenonT(60)
<1>21. \A f \in Frames \cup {Root} : f # pt => m1[f] = mem[f]  BY ONLY <1>11, <1>18, WroteElsewhere, SMTT(60)
\* What is left to show in each case.
<1>22. ASSUME NEW m, mem' = m, \A w \in Virt : Leaf(m, w) = Leaf(m1, w) PROVE UnmapEffect(v)
  BY <1>17, <1>20, <1>22, ZenonT(60) DEF UnmapEffect
<1>23. /\ << >> \in Seq(Frames) /\ Distinct(<< >>) /\ Members(<< >>) = {}
       /\ <<pt>> \in Seq(Frames) /\ Distinct(<<pt>>) /\ Members(<<pt>>) = {pt}
       /\ <<pt, pd>> \in Seq(Frames) /\ Distinct(<<pt, pd>>) /\ Members(<<pt, pd>>) = {pt, pd}
       /\ <<pt, pd, pdpt>> \in Seq(Frames) /\ Distinct(<<pt, pd, pdpt>>) /\ Members(<<pt, pd, pdpt>>) = {pt, pd, pdpt}
  BY ONLY <1>12, <1>13, <1>14, <1>15, ShortPools, EmptyPool, SMTT(60)
<1>24. CASE ~Empty(m1[pt]) /\ mem' = m1 /\ call' = [call EXCEPT ![k] = Giving(<< >>)]
  <2>1. NonEmpty(m1, d, Root)  BY <1>19, <1>24, NonEmptyFacts, ZenonT(60)
  <2>2. \A f \in Frames : f \notin InTree(d) => m1[f] = mem[f]  BY <1>14, <1>21, ZenonT(60)
  <2>3. Members(<< >>) \subseteq InTree(d) /\ InTree(d) = InTree(d) \ Members(<< >>)  BY <1>23, ZenonT(60)
  <2>4. Inv(d)'  BY <1>8, <1>19, <1>23, <1>24, <2>1, <2>2, <2>3, UnmapEnds, ZenonT(60)
  <2> QED  BY <1>22, <1>24, <2>4, ZenonT(60)
<1>25. PICK d2 : d2 = [d EXCEPT ![pt] = Out]  BY ZenonT(60)
<1>26. ASSUME Empty(m1[pt])
       PROVE  /\ Shape(m2, d2) /\ d2 \in Depths /\ NonEmpty(m2, d2, pd) /\ InTree(d2) = InTree(d) \ {pt}
              /\ \A r \in Tables(d) : r # pt => r \in Tables(d2)
              /\ \A f \in Frames \cup {Root} : f # pd => m2[f] = m1[f]
              /\ \A w \in Virt : Leaf(m2, w) = Leaf(m1, w)
  <2>1. Link(m1, pd, v[3], pt)  BY <1>13, <1>14, <1>15, <1>21, ZenonT(60) DEF Link
  <2>2. pd \in Tables(d)  BY <1>11, <1>13, ZenonT(60)
  <2>3. CutsEmpty(m1, d, pd, v[3], pt, m2, d2)
    BY <1>5, <1>10, <1>14, <1>19, <1>25, <1>26, <2>1, <2>2, Zenon DEF CutsEmpty
  <2> QED  BY <2>3, CutEmpty
<1>27. CASE Empty(m1[pt]) /\ ~Empty(m2[pd]) /\ mem' = m2 /\ call' = [call EXCEPT ![k] = Giving(<<pt>>)]
  <2>1. NonEmpty(m2, d2, Root)  BY <1>26, <1>27, NonEmptyFacts, ZenonT(60)
  <2>2. \A f \in Frames : f \notin InTree(d) => m2[f] = mem[f]  BY <1>13, <1>14, <1>21, <1>26, <1>27, ZenonT(60)
  <2>3. Members(<<pt>>) \subseteq InTree(d) /\ InTree(d2) = InTree(d) \ Members(<<pt>>)  BY <1>14, <1>23, <1>26, <1>27, ZenonT(60)
  <2>4. Inv(d2)'  BY <1>8, <1>23, <1>26, <1>27, <2>1, <2>2, <2>3, UnmapEnds, ZenonT(60)
  <2> QED  BY <1>22, <1>26, <1>27, <2>4, ZenonT(60)
<1>28. PICK d3 : d3 = [d2 EXCEPT ![pd] = Out]  BY ZenonT(60)
<1>29. ASSUME Empty(m1[pt]), Empty(m2[pd])
       PROVE  /\ Shape(m3, d3) /\ d3 \in Depths /\ NonEmpty(m3, d3, pdpt) /\ InTree(d3) = InTree(d) \ {pt, pd}
              /\ \A r \in Tables(d) : r # pt /\ r # pd => r \in Tables(d3)
              /\ \A f \in Frames \cup {Root} : f # pdpt => m3[f] = m2[f]
              /\ \A w \in Virt : Leaf(m3, w) = Leaf(m1, w)
  <2>1. /\ Shape(m2, d2) /\ NonEmpty(m2, d2, pd) /\ InTree(d2) = InTree(d) \ {pt}
        /\ \A r \in Tables(d) : r # pt => r \in Tables(d2)
        /\ \A f \in Frames \cup {Root} : f # pd => m2[f] = m1[f]
        /\ \A w \in Virt : Leaf(m2, w) = Leaf(m1, w)
    BY <1>26, <1>29, ZenonT(60)
  <2>2. Link(m2, pdpt, v[2], pd)  BY <1>12, <1>13, <1>15, <1>21, <2>1, ZenonT(60) DEF Link
  <2>3. pdpt \in Tables(d2)  BY <1>11, <1>12, <1>15, <2>1, Zenon
  <2>4. /\ Shape(m3, d3) /\ d3 \in Depths /\ NonEmpty(m3, d3, pdpt) /\ InTree(d3) = InTree(d2) \ {pd}
        /\ \A r \in Tables(d2) : r # pd => r \in Tables(d3)
        /\ \A f \in Frames \cup {Root} : f # pdpt => m3[f] = m2[f]
        /\ \A w \in Virt : Leaf(m3, w) = Leaf(m2, w)
    <3>1. CutsEmpty(m2, d2, pdpt, v[2], pd, m3, d3)
      BY <1>6, <1>10, <1>13, <1>28, <1>29, <2>1, <2>2, <2>3, Zenon DEF CutsEmpty
    <3> QED  BY <3>1, CutEmpty
  <2> QED  BY <2>1, <2>4, ZenonT(60)
<1>30. CASE /\ Empty(m1[pt]) /\ Empty(m2[pd]) /\ ~Empty(m3[pdpt])
            /\ mem' = m3 /\ call' = [call EXCEPT ![k] = Giving(<<pt, pd>>)]
  <2>1. NonEmpty(m3, d3, Root)  BY <1>29, <1>30, NonEmptyFacts, ZenonT(60)
  <2>2. \A f \in Frames : f \notin InTree(d) => m3[f] = mem[f]  BY <1>12, <1>13, <1>14, <1>21, <1>26, <1>29, <1>30, ZenonT(60)
  <2>3. Members(<<pt, pd>>) \subseteq InTree(d) /\ InTree(d3) = InTree(d) \ Members(<<pt, pd>>)
    BY <1>13, <1>14, <1>23, <1>29, <1>30, ZenonT(60)
  <2>4. Inv(d3)'  BY <1>8, <1>23, <1>29, <1>30, <2>1, <2>2, <2>3, UnmapEnds, ZenonT(60)
  <2> QED  BY <1>22, <1>29, <1>30, <2>4, ZenonT(60)
<1>31. PICK d4 : d4 = [d3 EXCEPT ![pdpt] = Out]  BY Zenon
<1>32. CASE /\ Empty(m1[pt]) /\ Empty(m2[pd]) /\ Empty(m3[pdpt])
            /\ mem' = m4 /\ call' = [call EXCEPT ![k] = Giving(<<pt, pd, pdpt>>)]
  <2>1. /\ Shape(m3, d3) /\ NonEmpty(m3, d3, pdpt) /\ InTree(d3) = InTree(d) \ {pt, pd}
        /\ \A r \in Tables(d) : r # pt /\ r # pd => r \in Tables(d3)
        /\ \A f \in Frames \cup {Root} : f # pdpt => m3[f] = m2[f]
        /\ \A w \in Virt : Leaf(m3, w) = Leaf(m1, w)
    BY <1>29, <1>32, ZenonT(60)
  <2>2. \A f \in Frames \cup {Root} : f # pd => m2[f] = m1[f]  BY <1>26, <1>32, ZenonT(60)
  <2>3. Link(m3, Root, v[1], pdpt)  BY <1>12, <1>15, <1>21, <2>1, <2>2, ZenonT(60) DEF Link
  <2>4. Root \in Tables(d3)  BY <1>11, <1>15, <2>1, ZenonT(60)
  <2>5. /\ Shape(m4, d4) /\ d4 \in Depths /\ NonEmpty(m4, d4, Root) /\ InTree(d4) = InTree(d3) \ {pdpt}
        /\ \A f \in Frames \cup {Root} : f # Root => m4[f] = m3[f]
        /\ \A w \in Virt : Leaf(m4, w) = Leaf(m3, w)
    <3>1. CutsEmpty(m3, d3, Root, v[1], pdpt, m4, d4)
      BY <1>7, <1>10, <1>12, <1>31, <1>32, <2>1, <2>3, <2>4, Zenon DEF CutsEmpty
    <3> QED  BY <3>1, CutEmpty
  <2>6. \A f \in Frames : f \notin InTree(d) => m4[f] = mem[f]
    BY <1>12, <1>13, <1>14, <1>21, <2>1, <2>2, <2>5, VmmAssumption, ZenonT(60)
  <2>7. Members(<<pt, pd, pdpt>>) \subseteq InTree(d) /\ InTree(d4) = InTree(d) \ Members(<<pt, pd, pdpt>>)
    BY <1>12, <1>13, <1>14, <1>23, <2>1, <2>5, ZenonT(60)
  <2>8. Inv(d4)'  BY <1>8, <1>23, <1>32, <2>5, <2>6, <2>7, UnmapEnds, ZenonT(60)
  <2>9. \A w \in Virt : Leaf(m4, w) = Leaf(m1, w)  BY <2>1, <2>5, ZenonT(60)
  <2> QED  BY <1>22, <1>32, <2>5, <2>8, <2>9, ZenonT(60)
<1> QED  BY <1>8, <1>24, <1>27, <1>30, <1>32, ZenonT(60)

-----------------------------------------------------------------------------
(* The theorems *)

LEMMA VmmInitFacts ==
  ASSUME VmmInit
  PROVE  VmmInv /\ \A w \in Virt : Leaf(mem, w) = Absent
<1>1. PICK d : d = [t \in Frames \cup {Root} |-> IF t = Root THEN 0 ELSE Out]  BY Zenon
<1>2. /\ d \in Depths /\ Tables(d) = {Root} /\ InTree(d) = {} /\ d[Root] = 0 /\ \A f \in Frames : d[f] # 0
  <2>1. Root \notin Frames  BY VmmAssumption, ZenonT(60)
  <2>2. d \in Depths /\ d[Root] = 0 /\ \A f \in Frames : d[f] = Out /\ f # Root  BY <1>1, <2>1 DEF Depths, Out
  <2>3. Out # 0  BY DEF Out
  <2> QED  BY <2>2, <2>3 DEF Tables, InTree
<1>3. mem \in Memory /\ mem[Root] = Zeroed  BY TypedTables, ZenonT(60) DEF VmmInit, Memory
<1>4. \A i \in Idx : mem[Root][i] = Absent /\ mem[Root][i].kind = "absent"  BY <1>3, AbsentFacts, ZenonT(60) DEF Zeroed
<1>5. \A t \in Tables(d), i \in Idx, f \in Frames : ~Link(mem, t, i, f)  BY <1>2, <1>4, ZenonT(60) DEF Link
<1>6. \A t \in Tables(d), i \in Idx : Fits(mem[t][i], d[t], d)  BY <1>2, <1>4, ZenonT(60) DEF Fits
<1>7. Shape(mem, d)  BY <1>2, <1>3, <1>5, <1>6, ZenonT(60) DEF Shape
<1>8. NonEmpty(mem, d, Root)  BY <1>2, ZenonT(60) DEF NonEmpty
<1>9. call = [k \in Callers |-> Idle] /\ Idle \in Calls /\ CallOK(Idle, mem) /\ Idle.pool = << >>
  <2>1. Idle \in Calls /\ Idle.pool = << >> /\ Idle.op = "idle"  BY EmptyPool, ZenonT(60) DEF Idle, Calls
  <2> QED  BY <2>1, EmptyPool, ZenonT(60) DEF VmmInit, CallOK
<1>10. holders = [f \in Frames |-> 0] /\ lost = {}  BY ZenonT(60) DEF VmmInit, Init
<1>11. \A k \in Callers : Members(call[k].pool) = {}  BY <1>9, EmptyPool, ZenonT(60)
<1>12. Account(holders, call, lost, {})  BY <1>10, <1>11 DEF Account
<1>13. Inv(d)  BY <1>2, <1>7, <1>8, <1>9, <1>12, ZenonT(60) DEF Inv
<1>14. ASSUME NEW w \in Virt PROVE Leaf(mem, w) = Absent
  BY <1>4, IdxFacts, ZenonT(60) DEF Leaf
<1> QED  BY <1>2, <1>13, <1>14, ZenonT(60) DEF VmmInv

\* What a step does to where pages lead, as it was asked to.
Effect ==
  \/ (\A w \in Virt : Leaf(mem', w) = Leaf(mem, w)) /\ asked' = asked /\ within' = within
  \/ \E v \in Virt :
       \/ \E page \in Pages, rights \in Rights :
            \/ MapEffect(v, page, rights) /\ asked' = <<"map", v, page, rights>> /\ within' = within
            \/ /\ Leaf(mem, v).kind = "large" /\ asked' = <<"map", v, page, rights>>
               /\ within' = within \cup {v}
            \/ LargeEffect(v, page, rights) /\ asked' = <<"large", v, page, rights>> /\ within' = within
       \/ UnmapEffect(v) /\ asked' = <<"unmap", v>> /\ within' = within

\* A page that was mapped within a large page stays recorded.
LEMMA WithinKept ==
  ASSUME [VmmNext]_vars, within # {}
  PROVE  within' # {}
<1>1. ASSUME NEW k \in Callers, NEW v \in Virt, NEW page \in Pages, NEW rights \in Rights, MapPage(k, v, page, rights)
      PROVE  within' # {}
  <2>1. PICK more : within' = within \cup more  BY <1>1, ZenonT(60) DEF MapPage
  <2> QED  BY <2>1, ZenonT(60)
<1>2. ASSUME NEW k \in Callers, NEW v \in Virt, NEW page \in Pages, NEW rights \in Rights, Map2m(k, v, page, rights)
      PROVE  within' = within
  BY <1>2, ZenonT(60) DEF Map2m
<1>3. ASSUME NEW k \in Callers, NEW v \in Virt, UnmapPage(k, v) PROVE within' = within
  BY <1>3, ZenonT(60) DEF UnmapPage
<1>4. ASSUME NEW k \in Callers, NEW op \in {"map", "large"}, Begin(k, op) PROVE within' = within
  BY <1>4, ZenonT(60) DEF Begin
<1>5. ASSUME NEW k \in Callers, NEW f \in Frames, AllocTable(k, f) PROVE within' = within
  BY <1>5, ZenonT(60) DEF AllocTable
<1>6. ASSUME NEW k \in Callers, PoolFails(k) \/ FreeTable(k) PROVE within' = within
  BY <1>6, ZenonT(60) DEF PoolFails, FreeTable
<1>7. ASSUME UNCHANGED vars PROVE within' = within  BY <1>7, ZenonT(60) DEF vars
<1> QED  BY <1>1, <1>2, <1>3, <1>4, <1>5, <1>6, <1>7, ZenonT(60) DEF VmmNext

LEMMA VmmStep ==
  ASSUME VmmInv, [VmmNext]_vars, within = {}
  PROVE  VmmInv' /\ Effect
<1>1. PICK d \in Depths : Inv(d)  BY Zenon DEF VmmInv
<1>2. ASSUME NEW k \in Callers, NEW v \in Virt, NEW page \in Pages, NEW rights \in Rights, MapPage(k, v, page, rights)
      PROVE  VmmInv' /\ Effect
  <2>1. asked' = <<"map", v, page, rights>>  BY <1>2, ZenonT(60) DEF MapPage
  <2>2. CASE (\E d2 \in Depths : Inv(d2)') /\ MapEffect(v, page, rights) /\ within' = within
    BY <2>1, <2>2, Zenon DEF VmmInv, Effect
  <2>3. CASE Leaf(mem, v).kind = "large" /\ within' = within \cup {v}
    <3>1. within' # {}  BY <2>3, ZenonT(60)
    <3> QED  BY <2>1, <2>3, <3>1, Zenon DEF VmmInv, Effect
  <2> QED  BY <1>1, <1>2, <2>2, <2>3, MapPageStep, ZenonT(60)
<1>3. ASSUME NEW k \in Callers, NEW v \in Virt, NEW page \in Pages, NEW rights \in Rights, Map2m(k, v, page, rights)
      PROVE  VmmInv' /\ Effect
  <2>1. (\E d2 \in Depths : Inv(d2)') /\ LargeEffect(v, page, rights)  BY <1>1, <1>3, Map2mStep, Zenon
  <2>2. asked' = <<"large", v, page, rights>> /\ within' = within  BY <1>3, ZenonT(60) DEF Map2m
  <2> QED  BY <2>1, <2>2, Zenon DEF VmmInv, Effect
<1>4. ASSUME NEW k \in Callers, NEW v \in Virt, UnmapPage(k, v) PROVE VmmInv' /\ Effect
  <2>1. (\E d2 \in Depths : Inv(d2)') /\ UnmapEffect(v)  BY <1>1, <1>4, UnmapPageStep, ZenonT(60)
  <2>2. asked' = <<"unmap", v>> /\ within' = within  BY <1>4, ZenonT(60) DEF UnmapPage
  <2> QED  BY <2>1, <2>2, Zenon DEF VmmInv, Effect
<1>5. ASSUME NEW k \in Callers, NEW op \in {"map", "large"}, Begin(k, op) PROVE VmmInv' /\ Effect
  <2>1. Inv(d)' /\ \A w \in Virt : Leaf(mem', w) = Leaf(mem, w)  BY <1>1, <1>5, BeginStep, ZenonT(60)
  <2>2. asked' = asked /\ within' = within  BY <1>5, ZenonT(60) DEF Begin
  <2> QED  BY <2>1, <2>2, Zenon DEF VmmInv, Effect
<1>6. ASSUME NEW k \in Callers, NEW f \in Frames, AllocTable(k, f) PROVE VmmInv' /\ Effect
  <2>1. Inv(d)' /\ \A w \in Virt : Leaf(mem', w) = Leaf(mem, w)  BY <1>1, <1>6, AllocTableStep, ZenonT(60)
  <2>2. asked' = asked /\ within' = within  BY <1>6, ZenonT(60) DEF AllocTable
  <2> QED  BY <2>1, <2>2, Zenon DEF VmmInv, Effect
<1>7. ASSUME NEW k \in Callers, PoolFails(k) PROVE VmmInv' /\ Effect
  <2>1. Inv(d)' /\ \A w \in Virt : Leaf(mem', w) = Leaf(mem, w)  BY <1>1, <1>7, PoolFailsStep, ZenonT(60)
  <2>2. asked' = asked /\ within' = within  BY <1>7, ZenonT(60) DEF PoolFails
  <2> QED  BY <2>1, <2>2, Zenon DEF VmmInv, Effect
<1>8. ASSUME NEW k \in Callers, FreeTable(k) PROVE VmmInv' /\ Effect
  <2>1. Inv(d)' /\ \A w \in Virt : Leaf(mem', w) = Leaf(mem, w)  BY <1>1, <1>8, FreeTableStep, Zenon
  <2>2. asked' = asked /\ within' = within  BY <1>8, ZenonT(60) DEF FreeTable
  <2> QED  BY <2>1, <2>2, Zenon DEF VmmInv, Effect
<1>9. ASSUME UNCHANGED vars PROVE VmmInv' /\ Effect
  <2>1. holders' = holders /\ mem' = mem /\ call' = call /\ lost' = lost /\ asked' = asked /\ within' = within  BY <1>9, ZenonT(60) DEF vars
  <2>2. Inv(d)'  BY <1>1, <2>1, ZenonT(60) DEF Inv
  <2> QED  BY <2>1, <2>2, Zenon DEF VmmInv, Effect
<1> QED  BY <1>2, <1>3, <1>4, <1>5, <1>6, <1>7, <1>8, <1>9, Zenon DEF VmmNext

\* The inductive invariant.
THEOREM VmmSafety == VmmSpec => []VmmInv
<1>1. VmmInit => VmmInv  BY VmmInitFacts, ZenonT(60)
<1>2. VmmInv /\ [VmmNext]_vars => VmmInv'  BY VmmStep, WithinKept, ZenonT(60) DEF VmmInv
<1> QED  BY <1>1, <1>2, PTL DEF VmmSpec

Level(d, n) == {t \in Tables(d) : d[t] = n}

LEMMA BelowLevel ==
  ASSUME NEW d, Shape(mem, d), NEW n \in 0 .. 2
  PROVE  Below(Level(d, n)) = Level(d, n + 1)
<1>1. /\ \A s \in Tables(d), j \in Idx : mem[s][j] \in Entries
      /\ \A s \in Tables(d), j \in Idx, g \in Frames : Link(mem, s, j, g) => d[g] = d[s] + 1 /\ g \in InTree(d)
      /\ InTree(d) \subseteq Tables(d) /\ d[Root] = 0
      /\ \A t \in Tables(d) : t \in Frames \cup {Root} /\ d[t] \in 0 .. 3
  BY ShapeFacts
<1>2. ASSUME NEW f \in Below(Level(d, n)) PROVE f \in Level(d, n + 1)
  <2>1. PICK t \in Level(d, n), j \in Idx : mem[t][j].kind = "table" /\ f = mem[t][j].to  BY <1>2, Zenon DEF Below
  <2>2. t \in Tables(d) /\ d[t] = n  BY <2>1, ZenonT(60) DEF Level
  <2>3. f \in Frames /\ Link(mem, t, j, f)  BY <1>1, <2>1, <2>2, EntryFacts, ZenonT(60) DEF Link
  <2> QED  BY <1>1, <2>2, <2>3, Zenon DEF Level
<1>3. ASSUME NEW f \in Level(d, n + 1) PROVE f \in Below(Level(d, n))
  <2>1. f \in Tables(d) /\ d[f] = n + 1 /\ f \in Frames  BY <1>1, <1>3 DEF Level
  <2>2. f \in InTree(d)  BY <2>1, Zenon DEF InTree, Tables
  <2>3. PICK t \in Tables(d), j \in Idx : Link(mem, t, j, f)  BY <2>2, ZenonT(60) DEF Shape
  <2>4. d[t] = n  BY <1>1, <2>1, <2>3
  <2>5. t \in Level(d, n) /\ mem[t][j].kind = "table" /\ mem[t][j].to = f  BY <2>3, <2>4, Zenon DEF Level, Link
  <2> QED  BY <2>5 DEF Below
<1> QED  BY <1>2, <1>3, ZenonT(60)

LEMMA TreeIs ==
  ASSUME NEW d, Shape(mem, d)
  PROVE  Tree = InTree(d)
<1>1. /\ InTree(d) \subseteq Tables(d) /\ d[Root] = 0 /\ Root \in Tables(d)
      /\ \A t \in Tables(d) : t \in Frames \cup {Root} /\ d[t] \in 0 .. 3
  BY ShapeFacts, ZenonT(60)
<1>2. Level(d, 0) = {Root}
  <2>1. \A f \in Frames : d[f] # 0  BY Zenon DEF Shape
  <2> QED  BY <1>1, <2>1, ZenonT(60) DEF Level
<1>3. Below(Level(d, 0)) = Level(d, 0 + 1)  BY BelowLevel
<1>4. Below(Level(d, 1)) = Level(d, 1 + 1)  BY BelowLevel
<1>5. Below(Level(d, 2)) = Level(d, 2 + 1)  BY BelowLevel
<1>6. Below({Root}) = Level(d, 1) /\ Below(Level(d, 1)) = Level(d, 2) /\ Below(Level(d, 2)) = Level(d, 3)
  BY <1>2, <1>3, <1>4, <1>5
<1>7. Tree = Level(d, 1) \cup Level(d, 2) \cup Level(d, 3)  BY <1>6, ZenonT(60) DEF Tree
<1>8. InTree(d) = Level(d, 1) \cup Level(d, 2) \cup Level(d, 3)
  <2>1. ASSUME NEW f \in InTree(d) PROVE f \in Tables(d) /\ d[f] \in 1 .. 3
    <3>1. f \in Frames  BY ZenonT(60) DEF InTree
    <3>2. d[f] # 0  BY <3>1, ZenonT(60) DEF Shape
    <3> QED  BY <1>1, <3>2
  <2>2. \A n \in 1 .. 3 : \A f \in Level(d, n) : f \in InTree(d)  BY <1>1 DEF Level, InTree, Tables
  <2> QED  BY <2>1, <2>2 DEF Level
<1> QED  BY <1>7, <1>8, ZenonT(60)

\* Counting along a one-to-one correspondence.
LEMMA SameCount ==
  ASSUME NEW S, NEW T, IsFiniteSet(S), NEW F \in [S -> T], \A a, b \in S : F[a] = F[b] => a = b,
         \A y \in T : \E x \in S : F[x] = y
  PROVE  Cardinality(T) = Cardinality(S)
<1>1. F \in Bijection(S, T)  BY ZenonT(60) DEF Bijection, Injection, Surjection, IsInjective
<1>2. ExistsBijection(S, T)  BY <1>1, ZenonT(60) DEF ExistsBijection
<1> QED  BY <1>2, FS_Bijection, Zenon

LEMMA PoolCount ==
  ASSUME NEW pool \in Seq(Frames), Distinct(pool)
  PROVE  Cardinality(Members(pool)) = Len(pool)
<1> DEFINE S == 1 .. Len(pool)
           F == [i \in S |-> pool[i]]
<1>1. Len(pool) \in Nat /\ DOMAIN pool = S  OBVIOUS
<1>2. IsFiniteSet(S) /\ Cardinality(S) = Len(pool)  BY ONLY <1>1, FS_Interval, SMTT(60)
<1>3. F \in [S -> Members(pool)]  BY <1>1, ZenonT(60) DEF Members
<1>4. \A a, b \in S : F[a] = F[b] => a = b  BY <1>1, ZenonT(60) DEF Distinct
<1>5. \A y \in Members(pool) : \E x \in S : F[x] = y  BY <1>1, ZenonT(60) DEF Members
<1> HIDE DEF F, S
<1> QED  BY <1>2, <1>3, <1>4, <1>5, SameCount, ZenonT(60)

\* One entry leads to each table of the tree.
LEMMA LinkCount ==
  ASSUME NEW d, Shape(mem, d)
  PROVE  Cardinality({e \in ({Root} \cup InTree(d)) \X Idx : mem[e[1]][e[2]].kind = "table"}) = Cardinality(InTree(d))
<1> DEFINE E == {e \in ({Root} \cup InTree(d)) \X Idx : mem[e[1]][e[2]].kind = "table"}
           To(e) == mem[e[1]][e[2]].to
           F == [f \in InTree(d) |-> CHOOSE e \in E : To(e) = f]
<1>1. /\ \A s \in Tables(d), j \in Idx : mem[s][j] \in Entries
      /\ \A s \in Tables(d), j \in Idx, g \in Frames : Link(mem, s, j, g) => g \in InTree(d)
      /\ InTree(d) \subseteq Tables(d) /\ Root \in Tables(d)
      /\ \A t \in Tables(d) : t \in Frames \cup {Root}
  BY ShapeFacts, ZenonT(60)
<1>2. InTree(d) \subseteq Frames /\ \A t \in Tables(d) : t \in {Root} \cup InTree(d)  BY <1>1, ZenonT(60) DEF InTree, Tables
<1>3. IsFiniteSet(InTree(d))  BY <1>2, VmmAssumption, FS_Subset, ZenonT(60)
<1>4. ASSUME NEW e \in E PROVE e[1] \in Tables(d) /\ e[2] \in Idx /\ e = <<e[1], e[2]>> /\ To(e) \in InTree(d) /\ Link(mem, e[1], e[2], To(e))
  <2>1. e[1] \in Tables(d) /\ e[2] \in Idx /\ e = <<e[1], e[2]>> /\ mem[e[1]][e[2]].kind = "table"  BY <1>1
  <2>2. To(e) \in Frames  BY <1>1, <2>1, EntryFacts, ZenonT(60)
  <2>3. Link(mem, e[1], e[2], To(e))  BY <2>1, ZenonT(60) DEF Link
  <2> QED  BY <1>1, <2>1, <2>2, <2>3, ZenonT(60)
<1>5. ASSUME NEW e \in E, NEW g \in E, To(e) = To(g) PROVE e = g
  <2>1. e[1] = g[1] /\ e[2] = g[2]
    <3>1. To(e) \in Frames  BY <1>2, <1>4, ZenonT(60)
    <3>2. PICK s \in Tables(d), i \in Idx, t \in Tables(d), j \in Idx, f \in Frames :
            s = e[1] /\ i = e[2] /\ t = g[1] /\ j = g[2] /\ f = To(e)
      BY <1>4, <3>1, ZenonT(60)
    <3>3. Link(mem, s, i, f) /\ Link(mem, t, j, f)  BY <1>4, <1>5, <3>2, ZenonT(60)
    <3>4. \A a, b \in Tables(d), x, y \in Idx, h \in Frames : Link(mem, a, x, h) /\ Link(mem, b, y, h) => a = b /\ x = y
      BY Zenon DEF Shape
    <3>5. s = t /\ i = j  BY ONLY <3>3, <3>4, ZenonT(60)
    <3> QED  BY <3>2, <3>5, ZenonT(60)
  <2> QED  BY <1>4, <2>1, ZenonT(60)
<1>6. ASSUME NEW f \in InTree(d) PROVE \E e \in E : To(e) = f
  <2>1. PICK t \in Tables(d), j \in Idx : Link(mem, t, j, f)  BY ZenonT(60) DEF Shape
  <2>2. <<t, j>> \in E /\ To(<<t, j>>) = f  BY <1>2, <2>1, ZenonT(60) DEF Link
  <2> QED  BY <2>2, Zenon
<1> HIDE DEF E, To
<1>7. \A f \in InTree(d) : F[f] \in E /\ To(F[f]) = f  BY <1>6, ZenonT(60)
<1>8. F \in [InTree(d) -> E]  BY <1>7, ZenonT(60)
<1> HIDE DEF F
<1>9. \A a, b \in InTree(d) : F[a] = F[b] => a = b  BY <1>7, ZenonT(60)
<1>10. \A y \in E : \E x \in InTree(d) : F[x] = y
  <2> SUFFICES ASSUME NEW y \in E PROVE F[To(y)] = y /\ To(y) \in InTree(d)
    BY ZenonT(60)
  <2>1. To(y) \in InTree(d)  BY <1>4, ZenonT(60)
  <2> QED  BY <1>5, <1>7, <2>1, ZenonT(60)
<1>11. Cardinality(E) = Cardinality(InTree(d))  BY <1>3, <1>8, <1>9, <1>10, SameCount
<1> QED  BY <1>11, ZenonT(60) DEF E

LEMMA InvAccounts ==
  ASSUME VmmInv
  PROVE  FramesAccounted /\ NoEmptyTable
<1> SUFFICES ASSUME within = {} PROVE FramesAccounted /\ NoEmptyTable
  BY Zenon DEF FramesAccounted, NoEmptyTable
<1>1. PICK d \in Depths : Inv(d)  BY ZenonT(60) DEF VmmInv
<1>2. /\ Shape(mem, d) /\ NonEmpty(mem, d, Root) /\ Account(holders, call, lost, InTree(d))
      /\ \A k \in Callers : CallOK(call[k], mem)
  BY <1>1, ZenonT(60) DEF Inv
<1>3. Tree = InTree(d)  BY <1>2, TreeIs, ZenonT(60)
<1>4. Held = Tree \cup lost \cup UNION {Pool(k) : k \in Callers}
  <2>1. holders \in [Frames -> {0, 1}] /\ Tree \cup lost \subseteq Frames  BY <1>2, <1>3, ZenonT(60) DEF Account
  <2>2. \A k \in Callers : Pool(k) \subseteq Frames  BY <1>2, MembersFacts, ZenonT(60) DEF Pool, CallOK, Calls
  <2>3. \A f \in Frames : f \in Held <=> holders[f] = 1  BY <2>1 DEF Held
  <2>4. \A f \in Frames : f \in Held <=> f \in Tree \cup lost \/ \E k \in Callers : f \in Pool(k)
    BY <1>2, <1>3, <2>3, ZenonT(60) DEF Account, Pool
  <2>5. Held \subseteq Frames  BY ZenonT(60) DEF Held
  <2> QED  BY <2>1, <2>2, <2>4, <2>5, ZenonT(60)
<1>5. Tree \cap lost = {} /\ \A k \in Callers : Pool(k) \cap (Tree \cup lost) = {}
  BY <1>2, <1>3, ZenonT(60) DEF Account, Pool
<1>6. \A k \in Callers : \A o \in Callers \ {k} : Pool(k) \cap Pool(o) = {}
  BY <1>2, ZenonT(60) DEF Account, Pool
<1>7. \A k \in Callers : Cardinality(Pool(k)) = Len(call[k].pool)
  BY <1>2, PoolCount, ZenonT(60) DEF Pool, CallOK, Calls
<1>8. Cardinality({e \in ({Root} \cup Tree) \X Idx : mem[e[1]][e[2]].kind = "table"}) = Cardinality(Tree)
  BY <1>2, <1>3, LinkCount, ZenonT(60)
<1>9. FramesAccounted  BY <1>4, <1>5, <1>6, <1>7, <1>8, Zenon DEF FramesAccounted
<1>10. NoEmptyTable
  <2>1. Root \notin InTree(d)  BY VmmAssumption, ZenonT(60) DEF InTree
  <2> QED  BY <1>2, <1>3, <2>1, ZenonT(60) DEF NoEmptyTable, NonEmpty, Present
<1> QED  BY <1>9, <1>10, ZenonT(60)

\* FramesAccounted: whatever the callers of vmm.c do between their locks, every frame it took from
\* the page allocator is in the tree, with one entry leading to it, in one pool, or is a table that
\* vmm_map_2m_in has cut off, until a page is mapped within a large page.
THEOREM VmmFramesAccounted == VmmSpec => []FramesAccounted
<1>1. VmmInv => FramesAccounted  BY InvAccounts, ZenonT(60)
<1> QED  BY <1>1, VmmSafety, PTL

\* NoEmptyTable: vmm_unmap_page_in leaves no table in the tree without an entry, until a page is mapped
\* within a large page.
THEOREM VmmNoEmptyTable == VmmSpec => []NoEmptyTable
<1>1. VmmInv => NoEmptyTable  BY InvAccounts, ZenonT(60)
<1> QED  BY <1>1, VmmSafety, PTL

\* What the processor finds is what the tables say.
LEMMA TranslationIs == VmmInv /\ within = {} => Translation = [w \in Virt |-> Leaf(mem, w)]
<1> SUFFICES ASSUME VmmInv, within = {} PROVE Translation = [w \in Virt |-> Leaf(mem, w)]
  BY ZenonT(60)
<1>1. PICK d \in Depths : Inv(d)  BY Zenon DEF VmmInv
<1>2. \A w \in Virt : Walk(w) = Leaf(mem, w)  BY <1>1, WalkIsLeaf, ZenonT(60) DEF Inv
<1> QED  BY <1>2, ZenonT(60) DEF Translation

LEMMA TranslationIsNext == (VmmInv /\ within = {})' => (Translation = [w \in Virt |-> Leaf(mem, w)])'
BY TranslationIs, PTL

LEMMA SpaceStep ==
  ASSUME VmmInv, VmmInv', Effect, within = {}
  PROVE  Space!Next \/ UNCHANGED <<Translation, within, asked>>
<1>1. Translation = [w \in Virt |-> Leaf(mem, w)]  BY TranslationIs, ZenonT(60)
<1>2. ASSUME within' = within PROVE Translation' = [w \in Virt |-> Leaf(mem', w)]
  <2>1. Translation' = [w \in Virt |-> Leaf(mem, w)]'  BY <1>2, TranslationIsNext, ZenonT(60)
  <2> QED  BY <2>1, ZenonT(60) DEF Leaf, Val1, Val2, Val3
<1>3. \A w \in Virt : Translation[w] = Leaf(mem, w)  BY <1>1, ZenonT(60)
<1>4. CASE (\A w \in Virt : Leaf(mem', w) = Leaf(mem, w)) /\ asked' = asked /\ within' = within
  BY <1>1, <1>2, <1>4, ZenonT(60)
<1>5. \A v \in Virt : \A w \in Virt : w \in Space!Region(v) <=> Covered(v, w)
  <2> SUFFICES ASSUME NEW v \in Virt, NEW w \in Virt PROVE w \in Space!Region(v) <=> Covered(v, w)
    BY ZenonT(60)
  <2>1. (\A level \in 1 .. 3 : w[level] = v[level]) <=> Covered(v, w)
    <3>1. 1 .. 3 = {1, 2, 3}  OBVIOUS
    <3> QED  BY <3>1, ZenonT(60) DEF Covered
  <2> QED  BY <2>1, ZenonT(60) DEF Space!Region
<1>6. ASSUME NEW v \in Virt, NEW page \in Pages, NEW rights \in Rights, MapEffect(v, page, rights),
             asked' = <<"map", v, page, rights>>, within' = within
      PROVE  Space!Map(v, page, rights)
  <2>1. Translation' = [Translation EXCEPT ![v] = Entry("page", page, rights)]
    BY <1>1, <1>2, <1>6, ZenonT(60) DEF MapEffect
  <2>2. Translation[v].kind # "large"  BY <1>3, <1>6, ZenonT(60) DEF MapEffect
  <2> QED  BY <1>6, <2>1, <2>2, ZenonT(60) DEF Space!Map, Space!Mapping, Entry
<1>7. ASSUME NEW v \in Virt, NEW page \in Pages, NEW rights \in Rights, Leaf(mem, v).kind = "large",
             asked' = <<"map", v, page, rights>>, within' = within \cup {v}
      PROVE  Space!MapWithin(v, page, rights)
  BY <1>3, <1>7, ZenonT(60) DEF Space!MapWithin
<1>8. ASSUME NEW v \in Virt, NEW page \in Pages, NEW rights \in Rights, LargeEffect(v, page, rights),
             asked' = <<"large", v, page, rights>>, within' = within
      PROVE  Space!MapLarge(v, page, rights)
  <2>1. Translation' = [w \in Virt |-> IF w \in Space!Region(v) THEN Entry("large", page, rights) ELSE Translation[w]]
    BY <1>2, <1>3, <1>5, <1>8, ZenonT(60) DEF LargeEffect
  <2> QED  BY <1>8, <2>1, ZenonT(60) DEF Space!MapLarge, Space!Mapping, Entry
<1>9. ASSUME NEW v \in Virt, UnmapEffect(v), asked' = <<"unmap", v>>, within' = within
      PROVE  Space!Unmap(v)
  <2>1. Translation' = [Translation EXCEPT ![v] = Absent]  BY <1>1, <1>2, <1>9, ZenonT(60) DEF UnmapEffect
  <2>2. Translation[v].kind # "large"  BY <1>3, <1>9, ZenonT(60) DEF UnmapEffect
  <2> QED  BY <1>9, <2>1, <2>2, ZenonT(60) DEF Space!Unmap, Space!Unmapped, Absent
<1> QED  BY <1>4, <1>6, <1>7, <1>8, <1>9, Zenon DEF Effect, Space!Next

\* ImplementsAddressSpace: with any number of callers, and whatever was mapped before, a call of
\* vmm_map_page_in, vmm_map_2m_in or vmm_unmap_page_in changes what its own page leads to and nothing
\* else, and the rights it asks for are those the processor grants.  This ends with the first call of
\* vmm_map_page_in for a page within a large page.
THEOREM VmmImplementsAddressSpace == VmmSpec => ImplementsAddressSpace
<1>1. VmmInit => Space!Init
  <2> SUFFICES ASSUME VmmInit PROVE Space!Init
    BY ZenonT(60)
  <2>1. VmmInv /\ within = {} /\ \A w \in Virt : Leaf(mem, w) = Absent  BY VmmInitFacts, ZenonT(60) DEF VmmInit
  <2>2. Translation = [w \in Virt |-> Leaf(mem, w)]  BY <2>1, TranslationIs, ZenonT(60)
  <2>3. Translation = [w \in Virt |-> Absent]  BY <2>1, <2>2, ZenonT(60)
  <2>4. asked = << >>  BY Zenon DEF VmmInit
  <2> QED  BY <2>1, <2>3, <2>4, ZenonT(60) DEF Space!Init, Space!Unmapped, Absent
<1>2. VmmInv /\ VmmInv' /\ [VmmNext]_vars => [Space!Next]_<<Translation, within, asked>>
  <2> SUFFICES ASSUME VmmInv, VmmInv', [VmmNext]_vars PROVE [Space!Next]_<<Translation, within, asked>>
    BY Zenon
  <2>1. CASE within # {}  BY <2>1, Zenon DEF Space!Next
  <2>2. CASE within = {}  BY <2>2, VmmStep, SpaceStep, ZenonT(60)
  <2> QED  BY <2>1, <2>2, Zenon
<1> QED  BY <1>1, <1>2, VmmSafety, PTL DEF VmmSpec, ImplementsAddressSpace, Space!Spec
=============================================================================
