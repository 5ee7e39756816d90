---------------------------- MODULE VmmInvariant ----------------------------
(***************************************************************************)
(* The page tables of Vmm as a tree, for any frames, callers, virtual      *)
(* pages and rights, and the invariant that VmmProofs proves.  Everything  *)
(* vmm.c does to the tables is to write one entry after the other; the     *)
(* lemmas are about one such write, stated over explicit memories and      *)
(* depths of tables.  The steps of the pool, which leave the tree alone,   *)
(* are here too.                                                           *)
(***************************************************************************)
EXTENDS Vmm, TLAPS

-----------------------------------------------------------------------------
(* Entries and memories *)

Flags == UNION Rights
Entries ==
  {Absent} \cup [kind : {"table"}, to : Frames, flags : SUBSET Flags]
  \cup [kind : {"large"}, to : Pages \cup {"stale"}, flags : SUBSET Flags]
  \cup [kind : {"page"}, to : Pages, flags : SUBSET Flags]
Memory == [Frames \cup {Root} \cup Pages -> [Idx -> Entries]]

LEMMA EntryFacts ==
  ASSUME NEW e \in Entries
  PROVE  /\ e.kind \in {"absent", "table", "large", "page"}
         /\ e.kind = "absent" <=> e = Absent
         /\ e.kind = "table" => e.to \in Frames
         /\ e.kind # "absent" => e.flags \subseteq Flags /\ e = Entry(e.kind, e.to, e.flags)
<1>1. \/ e = Absent
      \/ e \in [kind : {"table"}, to : Frames, flags : SUBSET Flags]
      \/ e \in [kind : {"large"}, to : Pages \cup {"stale"}, flags : SUBSET Flags]
      \/ e \in [kind : {"page"}, to : Pages, flags : SUBSET Flags]
  BY Zenon DEF Entries
<1>2. Absent.kind = "absent"  BY Zenon DEF Absent
<1> QED  BY <1>1, <1>2, Zenon DEF Entry

LEMMA EntryMade ==
  ASSUME NEW kind, NEW to, NEW flags
  PROVE  /\ Entry(kind, to, flags).kind = kind /\ Entry(kind, to, flags).to = to
         /\ Entry(kind, to, flags).flags = flags
         /\ flags \subseteq Flags /\ kind = "table" /\ to \in Frames => Entry(kind, to, flags) \in Entries
         /\ flags \subseteq Flags /\ kind \in {"large", "page"} /\ to \in Pages => Entry(kind, to, flags) \in Entries
BY Zenon DEF Entry, Entries

LEMMA AbsentFacts == Absent \in Entries /\ Absent.kind = "absent"
BY Zenon DEF Absent, Entries

\* One entry was written.
Wrote(m, m2, t, i, e) ==
  /\ m2 \in Memory /\ m2[t][i] = e
  /\ \A s \in Frames \cup {Root}, j \in Idx : s # t \/ j # i => m2[s][j] = m[s][j]

LEMMA WriteEntry ==
  ASSUME NEW m \in Memory, NEW t \in Frames \cup {Root}, NEW i \in Idx, NEW e \in Entries
  PROVE  Wrote(m, [m EXCEPT ![t][i] = e], t, i, e)
BY Zenon DEF Wrote, Memory

-----------------------------------------------------------------------------
(* The tree of tables *)

\* A depth for every table: 0 for the root, 3 for page tables, Out for frames that are not in the tree.
Out == 4
Depths == [Frames \cup {Root} -> 0 .. Out]
Tables(d) == {t \in Frames \cup {Root} : d[t] # Out}
InTree(d) == {f \in Frames : d[f] # Out}

Link(m, t, i, f) == m[t][i].kind = "table" /\ m[t][i].to = f

\* What an entry of a table at depth n may be.
Fits(e, n, d) ==
  \/ e.kind = "absent"
  \/ e.kind = "table" /\ n <= 2 /\ d[e.to] = n + 1
  \/ e.kind = "large" /\ n = 2 /\ e.to \in Pages
  \/ e.kind = "page" /\ n = 3

\* The entries form a tree, and the rights an entry grants include those of the entries below it.
Shape(m, d) ==
  /\ m \in Memory /\ d \in Depths /\ d[Root] = 0 /\ \A f \in Frames : d[f] # 0
  /\ \A t \in Tables(d), i \in Idx : Fits(m[t][i], d[t], d)
  /\ \A s, t \in Tables(d), i, j \in Idx, f \in Frames : Link(m, s, i, f) /\ Link(m, t, j, f) => s = t /\ i = j
  /\ \A f \in InTree(d) : \E t \in Tables(d), i \in Idx : Link(m, t, i, f)
  /\ \A t \in Tables(d), i, j \in Idx, f \in Frames :
       Link(m, t, i, f) /\ m[f][j].kind # "absent" => m[f][j].flags \subseteq m[t][i].flags

\* All tables but x have an entry.
NonEmpty(m, d, x) == \A f \in InTree(d) : f # x => \E i \in Idx : m[f][i].kind # "absent"

\* The entries that lead to t grant these rights.
Above(m, d, t, flags) ==
  \A s \in Tables(d), j \in Idx : Link(m, s, j, t) => flags \subseteq m[s][j].flags

LEMMA ShapeFacts ==
  ASSUME NEW m, NEW d, Shape(m, d)
  PROVE  /\ m \in Memory /\ d \in Depths /\ d[Root] = 0 /\ Root \in Tables(d)
         /\ \A t \in Tables(d) : t \in Frames \cup {Root} /\ d[t] \in 0 .. 3
         /\ \A t \in Tables(d), i \in Idx : m[t][i] \in Entries
         /\ \A t \in Tables(d), i \in Idx, f \in Frames : Link(m, t, i, f) => d[f] = d[t] + 1 /\ d[t] <= 2 /\ f \in InTree(d)
         /\ InTree(d) \subseteq Tables(d)
<1>1. m \in Memory /\ d \in Depths /\ d[Root] = 0  BY Zenon DEF Shape
<1>2. Root \in Tables(d)  BY <1>1 DEF Tables, Out
<1>3. \A t \in Tables(d) : t \in Frames \cup {Root} /\ d[t] \in 0 .. 3  BY <1>1 DEF Tables, Depths, Out
<1>4. \A t \in Tables(d), i \in Idx : m[t][i] \in Entries  BY <1>1, <1>3, Zenon DEF Memory
<1>5. ASSUME NEW t \in Tables(d), NEW i \in Idx, NEW f \in Frames, Link(m, t, i, f)
      PROVE  d[f] = d[t] + 1 /\ d[t] <= 2 /\ f \in InTree(d)
  <2>1. m[t][i].kind = "table" /\ m[t][i].to = f  BY <1>5, Zenon DEF Link
  <2>2. Fits(m[t][i], d[t], d)  BY Zenon DEF Shape
  <2>3. d[f] = d[t] + 1 /\ d[t] <= 2  BY <2>1, <2>2, Zenon DEF Fits
  <2> QED  BY <1>3, <2>3 DEF InTree, Out
<1>6. InTree(d) \subseteq Tables(d)  BY Zenon DEF InTree, Tables
<1> QED  BY <1>1, <1>2, <1>3, <1>4, <1>5, <1>6, ZenonT(60)

\* An entry that is there gets more rights, which the entries above it grant.
Reflagged(m, d, t, i, e, flags, m2) ==
  /\ Shape(m, d) /\ t \in Tables(d) /\ i \in Idx /\ flags \in SUBSET Flags
  /\ m[t][i].kind # "absent" /\ Above(m, d, t, flags) /\ Wrote(m, m2, t, i, e)
  /\ e = Entry(m[t][i].kind, m[t][i].to, m[t][i].flags \cup flags)

LEMMA Reflag ==
  ASSUME NEW m, NEW d, NEW t, NEW i, NEW e, NEW flags, NEW m2, Reflagged(m, d, t, i, e, flags, m2)
  PROVE  /\ Shape(m2, d) /\ \A x : NonEmpty(m, d, x) => NonEmpty(m2, d, x)
         /\ m[t][i].kind = "table" => Above(m2, d, m[t][i].to, flags)
<1>0. /\ Shape(m, d) /\ t \in Tables(d) /\ i \in Idx /\ flags \in SUBSET Flags
      /\ m[t][i].kind # "absent" /\ Above(m, d, t, flags) /\ Wrote(m, m2, t, i, e)
      /\ e = Entry(m[t][i].kind, m[t][i].to, m[t][i].flags \cup flags)
  BY Zenon DEF Reflagged
<1> USE <1>0
<1> DEFINE T == Frames \cup {Root}
<1>1. /\ m \in Memory /\ d \in Depths /\ Root \in Tables(d)
      /\ \A s \in Tables(d) : s \in T /\ d[s] \in 0 .. 3
      /\ \A s \in Tables(d), j \in Idx : m[s][j] \in Entries
      /\ \A s \in Tables(d), j \in Idx, f \in Frames : Link(m, s, j, f) => d[f] = d[s] + 1 /\ d[s] <= 2 /\ f \in InTree(d)
      /\ InTree(d) \subseteq Tables(d)
  BY ShapeFacts, Zenon
<1>2. m2 \in Memory /\ m2[t][i] = e /\ \A s \in T, j \in Idx : s # t \/ j # i => m2[s][j] = m[s][j]
  BY Zenon DEF Wrote
<1>3. e.kind = m[t][i].kind /\ e.to = m[t][i].to /\ e.flags = m[t][i].flags \cup flags  BY EntryMade
<1>4. \A s \in Tables(d), j \in Idx : m2[s][j].kind = m[s][j].kind /\ m2[s][j].to = m[s][j].to
                                      /\ m[s][j].flags \subseteq m2[s][j].flags
  <2> SUFFICES ASSUME NEW s \in Tables(d), NEW j \in Idx
               PROVE m2[s][j].kind = m[s][j].kind /\ m2[s][j].to = m[s][j].to /\ m[s][j].flags \subseteq m2[s][j].flags
    BY Zenon
  <2>1. CASE s = t /\ j = i  BY ONLY <1>2, <1>3, <2>1, SMTT(60)
  <2>2. CASE s # t \/ j # i  BY <1>1, <1>2, <2>2, Zenon
  <2> QED  BY <2>1, <2>2, Zenon
<1>5. \A s \in Tables(d), j \in Idx, f \in Frames : Link(m2, s, j, f) <=> Link(m, s, j, f)  BY <1>4, Zenon DEF Link
<1>6. \A s \in Tables(d), j \in Idx : Fits(m2[s][j], d[s], d)
  <2> SUFFICES ASSUME NEW s \in Tables(d), NEW j \in Idx PROVE Fits(m2[s][j], d[s], d)
    BY Zenon
  <2>1. Fits(m[s][j], d[s], d)  BY Zenon DEF Shape
  <2>2. m2[s][j].kind = m[s][j].kind /\ m2[s][j].to = m[s][j].to  BY <1>4, Zenon
  <2> QED  BY <2>1, <2>2, Zenon DEF Fits
<1>7. \A r, s \in Tables(d), k, j \in Idx, f \in Frames : Link(m2, r, k, f) /\ Link(m2, s, j, f) => r = s /\ k = j
  BY <1>5 DEF Shape
<1>8. \A f \in InTree(d) : \E s \in Tables(d), j \in Idx : Link(m2, s, j, f)
  <2>1. InTree(d) \subseteq Frames  BY Zenon DEF InTree
  <2>2. \A f \in InTree(d) : \E s \in Tables(d), j \in Idx : Link(m, s, j, f)  BY Zenon DEF Shape
  <2> QED  BY <1>5, <2>1, <2>2, Zenon
<1>9. ASSUME NEW s \in Tables(d), NEW k \in Idx, NEW j \in Idx, NEW f \in Frames,
             Link(m2, s, k, f), m2[f][j].kind # "absent"
      PROVE  m2[f][j].flags \subseteq m2[s][k].flags
  <2>1. Link(m, s, k, f)  BY <1>5, <1>9, Zenon
  <2>2. f \in Tables(d)  BY <1>1, <2>1, Zenon
  <2>3. m[f][j].kind # "absent"  BY <1>4, <1>9, <2>2, Zenon
  <2>4. m[f][j].flags \subseteq m[s][k].flags  BY <2>1, <2>3, Zenon DEF Shape
  <2>5. m[s][k].flags \subseteq m2[s][k].flags  BY <1>4, Zenon
  <2>6. CASE f = t /\ j = i
    <3>1. flags \subseteq m[s][k].flags  BY <2>1, <2>6, Zenon DEF Above
    <3>2. m2[f][j].flags = m[f][j].flags \cup flags  BY <1>2, <1>3, <2>6, Zenon
    <3> QED  BY <2>4, <2>5, <3>1, <3>2, ZenonT(60)
  <2>7. CASE f # t \/ j # i
    <3>1. m2[f][j] = m[f][j]  BY <1>2, <2>7, Zenon
    <3> QED  BY <2>4, <2>5, <3>1, Zenon
  <2> QED  BY <2>6, <2>7, Zenon
<1>10. Shape(m2, d)  BY <1>2, <1>6, <1>7, <1>8, <1>9, Zenon DEF Shape
<1>11. \A x : NonEmpty(m, d, x) => NonEmpty(m2, d, x)
  BY <1>1, <1>4 DEF NonEmpty
<1>12. m[t][i].kind = "table" => Above(m2, d, m[t][i].to, flags)
  <2> SUFFICES ASSUME m[t][i].kind = "table", NEW s \in Tables(d), NEW j \in Idx, Link(m2, s, j, m[t][i].to)
               PROVE  flags \subseteq m2[s][j].flags
    BY Zenon DEF Above
  <2>1. Link(m2, t, i, m[t][i].to) /\ m[t][i].to \in Frames  BY <1>1, <1>4, EntryFacts, Zenon DEF Link
  <2>2. s = t /\ j = i  BY <1>7, <2>1
  <2> QED  BY <1>2, <1>3, <2>2, Zenon
<1> QED  BY <1>10, <1>11, <1>12, Zenon

\* A zeroed table is hung into an entry that was absent.
Hung(m, d, t, i, f, flags, m2, d2) ==
  /\ Shape(m, d) /\ t \in Tables(d) /\ i \in Idx /\ f \in Frames /\ flags \in SUBSET Flags
  /\ d[t] <= 2 /\ m[t][i].kind = "absent" /\ d[f] = Out /\ m[f] = Zeroed
  /\ Above(m, d, t, flags) /\ Wrote(m, m2, t, i, Entry("table", f, flags)) /\ d2 = [d EXCEPT ![f] = d[t] + 1]

LEMMA Hang ==
  ASSUME NEW m, NEW d, NEW t, NEW i, NEW f, NEW flags, NEW m2, NEW d2, Hung(m, d, t, i, f, flags, m2, d2)
  PROVE  /\ Shape(m2, d2) /\ Above(m2, d2, f, flags) /\ f \in Tables(d2) /\ d2[f] = d[t] + 1
         /\ InTree(d2) = InTree(d) \cup {f} /\ m2[f] = Zeroed
         /\ NonEmpty(m, d, t) => NonEmpty(m2, d2, f)
<1>0. PICK e :
        /\ Shape(m, d) /\ t \in Tables(d) /\ i \in Idx /\ f \in Frames /\ flags \in SUBSET Flags
        /\ d[t] <= 2 /\ m[t][i].kind = "absent" /\ d[f] = Out /\ m[f] = Zeroed
        /\ Above(m, d, t, flags) /\ e = Entry("table", f, flags) /\ Wrote(m, m2, t, i, e)
        /\ d2 = [d EXCEPT ![f] = d[t] + 1]
  BY Zenon DEF Hung
<1> USE <1>0
<1> DEFINE T == Frames \cup {Root}
<1>1. /\ m \in Memory /\ d \in Depths /\ d[Root] = 0 /\ Root \in Tables(d)
      /\ \A s \in Tables(d) : s \in T /\ d[s] \in 0 .. 3
      /\ \A s \in Tables(d), j \in Idx : m[s][j] \in Entries
      /\ \A s \in Tables(d), j \in Idx, g \in Frames : Link(m, s, j, g) => d[g] = d[s] + 1 /\ d[s] <= 2 /\ g \in InTree(d)
      /\ InTree(d) \subseteq Tables(d)
  BY ShapeFacts, Zenon
<1>2. m2 \in Memory /\ m2[t][i] = e /\ \A s \in T, j \in Idx : s # t \/ j # i => m2[s][j] = m[s][j]
  BY Zenon DEF Wrote
<1>3. e.kind = "table" /\ e.to = f /\ e.flags = flags  BY EntryMade
<1>4. f \in T /\ f # t /\ f \notin Tables(d) /\ f # Root  BY <1>1, Zenon DEF Tables, Out
<1>5. d[t] + 1 \in 1 .. 3  BY <1>1
<1>6. /\ d2 \in Depths /\ d2[f] = d[t] + 1 /\ \A s \in T : s # f => d2[s] = d[s]
  BY <1>1, <1>4, <1>5 DEF Depths, Out
<1>7. Tables(d2) = Tables(d) \cup {f} /\ InTree(d2) = InTree(d) \cup {f}
  BY <1>4, <1>5, <1>6 DEF Tables, InTree, Out
<1>8. \A j \in Idx : m2[f][j] = Absent /\ m2[f][j].kind = "absent"
  BY <1>2, <1>4, AbsentFacts, ZenonT(60) DEF Zeroed
\* The links of before, and one to f.
<1>9. \A s \in Tables(d2), j \in Idx, g \in Frames :
        Link(m2, s, j, g) <=> (s \in Tables(d) /\ Link(m, s, j, g)) \/ (s = t /\ j = i /\ g = f)
  <2> SUFFICES ASSUME NEW s \in Tables(d2), NEW j \in Idx, NEW g \in Frames
               PROVE Link(m2, s, j, g) <=> (s \in Tables(d) /\ Link(m, s, j, g)) \/ (s = t /\ j = i /\ g = f)
    BY Zenon
  <2>1. CASE s = f  BY <1>4, <1>8, <2>1, Zenon DEF Link
  <2>2. CASE s = t /\ j = i  BY <1>2, <1>3, <2>2, Zenon DEF Link
  <2>3. CASE s \in Tables(d) /\ (s # t \/ j # i)  BY <1>1, <1>2, <2>3, Zenon DEF Link
  <2> QED  BY <1>7, <2>1, <2>2, <2>3, Zenon
<1>10. \A s \in Tables(d), j \in Idx, g \in Frames : Link(m, s, j, g) => g # f /\ g \in InTree(d)
  BY <1>1, Zenon DEF InTree
<1>11. \A s \in Tables(d2), j \in Idx : Fits(m2[s][j], d2[s], d2)
  <2> SUFFICES ASSUME NEW s \in Tables(d2), NEW j \in Idx PROVE Fits(m2[s][j], d2[s], d2)
    BY Zenon
  <2>1. CASE s = f  BY <1>8, <2>1, Zenon DEF Fits
  <2>2. CASE s = t /\ j = i  BY <1>1, <1>2, <1>3, <1>4, <1>6, <2>2 DEF Fits
  <2>3. CASE s \in Tables(d) /\ (s # t \/ j # i)
    <3>1. m2[s][j] = m[s][j] /\ d2[s] = d[s]  BY <1>1, <1>2, <1>4, <1>6, <2>3, ZenonT(60)
    <3>2. Fits(m[s][j], d[s], d)  BY <2>3, Zenon DEF Shape
    <3>3. m[s][j].kind = "table" => m[s][j].to \in Frames /\ m[s][j].to # f
      BY <1>1, <1>10, <2>3, EntryFacts, ZenonT(60) DEF Link
    <3>4. m[s][j].kind = "table" => d2[m[s][j].to] = d[m[s][j].to]  BY <1>6, <3>3, Zenon
    <3> QED  BY <3>1, <3>2, <3>4, Zenon DEF Fits
  <2> QED  BY <1>7, <2>1, <2>2, <2>3, Zenon
<1>12. \A r, s \in Tables(d2), k, j \in Idx, g \in Frames : Link(m2, r, k, g) /\ Link(m2, s, j, g) => r = s /\ k = j
  <2>1. \A r, s \in Tables(d), k, j \in Idx, g \in Frames : Link(m, r, k, g) /\ Link(m, s, j, g) => r = s /\ k = j
    BY Zenon DEF Shape
  <2> TAKE r, s \in Tables(d2), k, j \in Idx, g \in Frames
  <2> HAVE Link(m2, r, k, g) /\ Link(m2, s, j, g)
  <2>2. (r \in Tables(d) /\ Link(m, r, k, g)) \/ (r = t /\ k = i /\ g = f)  BY <1>9, Zenon
  <2>3. (s \in Tables(d) /\ Link(m, s, j, g)) \/ (s = t /\ j = i /\ g = f)  BY <1>9, Zenon
  <2>4. \A q \in Tables(d), l \in Idx : ~Link(m, q, l, f)  BY <1>10, Zenon
  <2>5. CASE g = f  BY <2>2, <2>3, <2>4, <2>5, Zenon
  <2>6. CASE g # f  BY <2>1, <2>2, <2>3, <2>6, SMT
  <2> QED  BY <2>5, <2>6, Zenon
<1>13. \A g \in InTree(d2) : \E s \in Tables(d2), j \in Idx : Link(m2, s, j, g)
  <2>1. \A g \in InTree(d) : g \in Frames /\ \E s \in Tables(d), j \in Idx : Link(m, s, j, g)  BY Zenon DEF Shape, InTree
  <2> SUFFICES ASSUME NEW g \in InTree(d2) PROVE \E s \in Tables(d2), j \in Idx : Link(m2, s, j, g)
    BY Zenon
  <2>2. CASE g = f
    <3>1. t \in Tables(d2) /\ Link(m2, t, i, g)  BY <1>7, <1>9, <2>2, Zenon
    <3> QED  BY <3>1, Zenon
  <2>3. CASE g # f
    <3>1. PICK s \in Tables(d), j \in Idx : g \in Frames /\ Link(m, s, j, g)  BY <1>7, <2>1, <2>3, Zenon
    <3>2. s \in Tables(d2)  BY <1>7, Zenon
    <3> QED  BY <1>9, <3>1, <3>2, Zenon
  <2> QED  BY <2>2, <2>3, Zenon
<1>14. \A s \in Tables(d2), k, j \in Idx, g \in Frames :
         Link(m2, s, k, g) /\ m2[g][j].kind # "absent" => m2[g][j].flags \subseteq m2[s][k].flags
  <2> SUFFICES ASSUME NEW s \in Tables(d2), NEW k \in Idx, NEW j \in Idx, NEW g \in Frames,
                      Link(m2, s, k, g), m2[g][j].kind # "absent"
               PROVE  m2[g][j].flags \subseteq m2[s][k].flags
    BY ZenonT(60)
  <2>1. g # f  BY <1>8, Zenon
  <2>2. s \in Tables(d) /\ Link(m, s, k, g)  BY <1>9, <2>1, Zenon
  <2>3. m2[s][k] = m[s][k]
    <3>1. ~(s = t /\ k = i)  BY <2>2, Zenon DEF Link
    <3> QED  BY <1>1, <1>2, <2>2, <3>1, ZenonT(60)
  <2>4. CASE g = t /\ j = i
    <3>1. flags \subseteq m[s][k].flags  BY <2>2, <2>4, Zenon DEF Above
    <3> QED  BY <1>2, <1>3, <2>3, <2>4, <3>1, ZenonT(60)
  <2>5. CASE g # t \/ j # i
    <3>1. m2[g][j] = m[g][j]  BY <1>2, <2>5, Zenon
    <3>2. m[g][j].flags \subseteq m[s][k].flags  BY <2>2, <3>1, Zenon DEF Shape
    <3> QED  BY <2>3, <3>1, <3>2, Zenon
  <2> QED  BY <2>4, <2>5, Zenon
<1>15. d2[Root] = 0 /\ \A g \in Frames : d2[g] # 0
  <2>1. \A g \in Frames : d[g] # 0  BY Zenon DEF Shape
  <2> QED  BY <1>1, <1>4, <1>5, <1>6, <2>1
<1>16. Shape(m2, d2)  BY <1>2, <1>6, <1>11, <1>12, <1>13, <1>14, <1>15, Zenon DEF Shape
<1>17. Above(m2, d2, f, flags)  BY <1>2, <1>3, <1>9, <1>10, ZenonT(60) DEF Above
<1>18. m2[f] = Zeroed
  <2>1. m2[f] \in [Idx -> Entries]  BY <1>2, <1>4, Zenon DEF Memory
  <2> QED  BY <1>8, <2>1, Zenon DEF Zeroed
<1>19. NonEmpty(m, d, t) => NonEmpty(m2, d2, f)
  <2> SUFFICES ASSUME NonEmpty(m, d, t), NEW g \in InTree(d), g # f PROVE \E j \in Idx : m2[g][j].kind # "absent"
    BY <1>7, Zenon DEF NonEmpty
  <2>1. CASE g = t  BY <1>2, <1>3, <2>1, Zenon
  <2>2. CASE g # t
    <3>1. PICK j \in Idx : m[g][j].kind # "absent"  BY <2>2, Zenon DEF NonEmpty
    <3> QED  BY <1>1, <1>2, <2>2, <3>1, Zenon
  <2> QED  BY <2>1, <2>2, Zenon
<1> QED  BY <1>6, <1>7, <1>16, <1>17, <1>18, <1>19, Zenon

\* An entry that is no table is overwritten by one that is none either, with rights granted above it.
LEMMA SetLeaf ==
  ASSUME NEW m, NEW d, Shape(m, d), NEW t \in Tables(d), NEW i \in Idx, NEW e \in Entries, NEW m2,
         m[t][i].kind # "table", e.kind # "table", Fits(e, d[t], d),
         e.kind # "absent" => Above(m, d, t, e.flags), Wrote(m, m2, t, i, e)
  PROVE  /\ Shape(m2, d)
         /\ NonEmpty(m, d, t) => NonEmpty(m2, d, t)
         /\ e.kind # "absent" /\ NonEmpty(m, d, t) => \A x : NonEmpty(m2, d, x)
<1> DEFINE T == Frames \cup {Root}
<1>1. /\ m \in Memory /\ d \in Depths
      /\ \A s \in Tables(d) : s \in T
      /\ InTree(d) \subseteq Tables(d)
  BY ShapeFacts, Zenon
<1>2. m2 \in Memory /\ m2[t][i] = e /\ \A s \in T, j \in Idx : s # t \/ j # i => m2[s][j] = m[s][j]
  BY Zenon DEF Wrote
<1>3. \A s \in Tables(d), j \in Idx, f \in Frames : Link(m2, s, j, f) <=> Link(m, s, j, f)
  <2> SUFFICES ASSUME NEW s \in Tables(d), NEW j \in Idx, NEW f \in Frames PROVE Link(m2, s, j, f) <=> Link(m, s, j, f)
    BY ZenonT(60)
  <2>1. CASE s = t /\ j = i  BY <1>2, <2>1, ZenonT(60) DEF Link
  <2>2. CASE s # t \/ j # i  BY <1>1, <1>2, <2>2, ZenonT(60) DEF Link
  <2> QED  BY <2>1, <2>2, ZenonT(60)
<1>4. \A s \in Tables(d), j \in Idx : Fits(m2[s][j], d[s], d)
  <2>1. \A s \in Tables(d), j \in Idx : Fits(m[s][j], d[s], d)  BY Zenon DEF Shape
  <2> QED  BY <1>1, <1>2, <2>1, Zenon
<1>5. \A r, s \in Tables(d), k, j \in Idx, f \in Frames : Link(m2, r, k, f) /\ Link(m2, s, j, f) => r = s /\ k = j
  BY <1>3 DEF Shape
<1>6. \A f \in InTree(d) : \E s \in Tables(d), j \in Idx : Link(m2, s, j, f)
  <2>1. InTree(d) \subseteq Frames  BY Zenon DEF InTree
  <2>2. \A f \in InTree(d) : \E s \in Tables(d), j \in Idx : Link(m, s, j, f)  BY Zenon DEF Shape
  <2> QED  BY <1>3, <2>1, <2>2, Zenon
<1>7. \A s \in Tables(d), k, j \in Idx, f \in Frames :
        Link(m2, s, k, f) /\ m2[f][j].kind # "absent" => m2[f][j].flags \subseteq m2[s][k].flags
  <2> SUFFICES ASSUME NEW s \in Tables(d), NEW k \in Idx, NEW j \in Idx, NEW f \in Frames,
                      Link(m2, s, k, f), m2[f][j].kind # "absent"
               PROVE  m2[f][j].flags \subseteq m2[s][k].flags
    BY Zenon
  <2>1. Link(m, s, k, f) /\ ~(s = t /\ k = i)  BY <1>3 DEF Link
  <2>2. m2[s][k] = m[s][k]  BY <1>1, <1>2, <2>1, Zenon
  <2>3. CASE f = t /\ j = i  BY <1>2, <2>1, <2>2, <2>3, Zenon DEF Above
  <2>4. CASE f # t \/ j # i
    <3>1. m2[f][j] = m[f][j]  BY <1>2, <2>4, Zenon
    <3>2. m[f][j].flags \subseteq m[s][k].flags  BY <2>1, <3>1, Zenon DEF Shape
    <3> QED  BY <2>2, <3>1, <3>2, Zenon
  <2> QED  BY <2>3, <2>4, Zenon
<1>8. Shape(m2, d)
  <2>1. d[Root] = 0 /\ \A f \in Frames : d[f] # 0  BY Zenon DEF Shape
  <2> QED  BY <1>1, <1>2, <1>4, <1>5, <1>6, <1>7, <2>1, Zenon DEF Shape
<1>9. ASSUME NonEmpty(m, d, t), NEW f \in InTree(d), f # t PROVE \E j \in Idx : m2[f][j].kind # "absent"
  <2>1. PICK j \in Idx : m[f][j].kind # "absent"  BY <1>9, Zenon DEF NonEmpty
  <2> QED  BY <1>1, <1>2, <1>9, <2>1, ZenonT(60)
<1>10. NonEmpty(m, d, t) => NonEmpty(m2, d, t)  BY <1>9, Zenon DEF NonEmpty
<1>11. ASSUME e.kind # "absent", NonEmpty(m, d, t), NEW x PROVE NonEmpty(m2, d, x)
  <2>1. m2[t][i].kind # "absent"  BY <1>2, <1>11, Zenon
  <2> QED  BY <1>9, <1>11, <2>1, Zenon DEF NonEmpty
<1> QED  BY <1>8, <1>10, <1>11, ZenonT(60)

\* The entry that leads to a table s is overwritten by one that is no table, and s leaves the tree.
\* There are no tables below s.
CutOff(m, d, t, i, s, e, m2, d2) ==
  /\ Shape(m, d) /\ t \in Tables(d) /\ i \in Idx /\ s \in Frames /\ e \in Entries /\ Link(m, t, i, s)
  /\ \A j \in Idx : m[s][j].kind # "table"
  /\ e.kind # "table" /\ Fits(e, d[t], d) /\ (e.kind # "absent" => Above(m, d, t, e.flags))
  /\ Wrote(m, m2, t, i, e) /\ d2 = [d EXCEPT ![s] = Out]

LEMMA Cut ==
  ASSUME NEW m, NEW d, NEW t, NEW i, NEW s, NEW e, NEW m2, NEW d2, CutOff(m, d, t, i, s, e, m2, d2)
  PROVE  /\ Shape(m2, d2) /\ s \in InTree(d) /\ InTree(d2) = InTree(d) \ {s}
         /\ s # t /\ t \in Tables(d2) /\ Tables(d2) \subseteq Tables(d) /\ \A r \in Tables(d2) : d2[r] = d[r]
         /\ NonEmpty(m, d, s) => NonEmpty(m2, d2, t)
         /\ e.kind # "absent" /\ NonEmpty(m, d, s) => \A x : NonEmpty(m2, d2, x)
<1>0. /\ Shape(m, d) /\ t \in Tables(d) /\ i \in Idx /\ s \in Frames /\ e \in Entries /\ Link(m, t, i, s)
      /\ \A j \in Idx : m[s][j].kind # "table"
      /\ e.kind # "table" /\ Fits(e, d[t], d) /\ (e.kind # "absent" => Above(m, d, t, e.flags))
      /\ Wrote(m, m2, t, i, e) /\ d2 = [d EXCEPT ![s] = Out]
  BY Zenon DEF CutOff
<1> USE <1>0
<1> DEFINE T == Frames \cup {Root}
<1>1. /\ m \in Memory /\ d \in Depths /\ d[Root] = 0 /\ Root \in Tables(d)
      /\ \A r \in Tables(d) : r \in T /\ d[r] \in 0 .. 3
      /\ \A r \in Tables(d), j \in Idx : m[r][j] \in Entries
      /\ \A r \in Tables(d), j \in Idx, g \in Frames : Link(m, r, j, g) => d[g] = d[r] + 1 /\ d[r] <= 2 /\ g \in InTree(d)
      /\ InTree(d) \subseteq Tables(d)
  BY ShapeFacts, Zenon
<1>2. m2 \in Memory /\ m2[t][i] = e /\ \A r \in T, j \in Idx : r # t \/ j # i => m2[r][j] = m[r][j]
  BY Zenon DEF Wrote
<1>3. s \in InTree(d) /\ s # t /\ s # Root /\ s \in T
  BY <1>1
<1>4. d2 \in Depths /\ d2[s] = Out /\ \A r \in T : r # s => d2[r] = d[r]
  BY <1>1, <1>3 DEF Depths, Out
<1>5. Tables(d2) = Tables(d) \ {s} /\ InTree(d2) = InTree(d) \ {s}
  BY <1>3, <1>4, ZenonT(60) DEF Tables, InTree
<1>6. \A q, r \in Tables(d), k, j \in Idx, g \in Frames : Link(m, q, k, g) /\ Link(m, r, j, g) => q = r /\ k = j
  BY Zenon DEF Shape
<1>7. \A r \in Tables(d2), j \in Idx, g \in Frames : Link(m2, r, j, g) <=> Link(m, r, j, g) /\ g # s
  <2> SUFFICES ASSUME NEW r \in Tables(d2), NEW j \in Idx, NEW g \in Frames
               PROVE Link(m2, r, j, g) <=> Link(m, r, j, g) /\ g # s
    BY Zenon
  <2>1. CASE r = t /\ j = i  BY <1>2, <2>1, Zenon DEF Link
  <2>2. CASE r # t \/ j # i
    <3>1. m2[r][j] = m[r][j]  BY <1>1, <1>2, <1>5, <2>2, Zenon
    <3>2. ~Link(m, r, j, s)  BY <1>5, <1>6, <2>2, Zenon
    <3> QED  BY <3>1, <3>2, Zenon DEF Link
  <2> QED  BY <2>1, <2>2, Zenon
<1>8. \A r \in Tables(d2), j \in Idx : Fits(m2[r][j], d2[r], d2)
  <2> SUFFICES ASSUME NEW r \in Tables(d2), NEW j \in Idx PROVE Fits(m2[r][j], d2[r], d2)
    BY Zenon
  <2>1. r \in Tables(d) /\ r # s /\ d2[r] = d[r]  BY <1>1, <1>4, <1>5, Zenon
  <2>2. Fits(m2[r][j], d[r], d)
    <3>1. CASE r = t /\ j = i  BY <1>2, <3>1, Zenon
    <3>2. CASE r # t \/ j # i
      <4>1. Fits(m[r][j], d[r], d)  BY <2>1, Zenon DEF Shape
      <4> QED  BY <1>1, <1>2, <2>1, <3>2, <4>1, ZenonT(60)
    <3> QED  BY <3>1, <3>2, Zenon
  <2>3. m2[r][j] \in Entries  BY <1>1, <1>2, <2>1, ZenonT(60) DEF Memory
  <2>4. ASSUME m2[r][j].kind = "table" PROVE m2[r][j].to \in Frames /\ m2[r][j].to # s
    <3>1. m2[r][j].to \in Frames  BY <2>3, <2>4, EntryFacts, Zenon
    <3>2. Link(m2, r, j, m2[r][j].to)  BY <2>4, Zenon DEF Link
    <3> QED  BY <1>7, <3>1, <3>2, Zenon
  <2>5. m2[r][j].kind = "table" => d2[m2[r][j].to] = d[m2[r][j].to]  BY <1>4, <2>4, Zenon
  <2> QED  BY <2>1, <2>2, <2>5, Zenon DEF Fits
<1>9. \A q, r \in Tables(d2), k, j \in Idx, g \in Frames : Link(m2, q, k, g) /\ Link(m2, r, j, g) => q = r /\ k = j
  <2> TAKE q, r \in Tables(d2), k, j \in Idx, g \in Frames
  <2> HAVE Link(m2, q, k, g) /\ Link(m2, r, j, g)
  <2>1. q \in Tables(d) /\ r \in Tables(d)  BY <1>5, Zenon
  <2>2. Link(m, q, k, g) /\ Link(m, r, j, g)  BY <1>7, Zenon
  <2> QED  BY <1>6, <2>1, <2>2, Zenon
<1>10. \A g \in InTree(d2) : \E r \in Tables(d2), j \in Idx : Link(m2, r, j, g)
  <2> SUFFICES ASSUME NEW g \in InTree(d2) PROVE \E r \in Tables(d2), j \in Idx : Link(m2, r, j, g)
    BY Zenon
  <2>1. g \in InTree(d) /\ g \in Frames /\ g # s  BY <1>5, ZenonT(60) DEF InTree
  <2>2. PICK r \in Tables(d), j \in Idx : Link(m, r, j, g)  BY <2>1, Zenon DEF Shape
  <2>3. r # s  BY <2>2, Zenon DEF Link
  <2> QED  BY <1>5, <1>7, <2>1, <2>2, <2>3, Zenon
<1>11. \A r \in Tables(d2), k, j \in Idx, g \in Frames :
         Link(m2, r, k, g) /\ m2[g][j].kind # "absent" => m2[g][j].flags \subseteq m2[r][k].flags
  <2> SUFFICES ASSUME NEW r \in Tables(d2), NEW k \in Idx, NEW j \in Idx, NEW g \in Frames,
                      Link(m2, r, k, g), m2[g][j].kind # "absent"
               PROVE  m2[g][j].flags \subseteq m2[r][k].flags
    BY ZenonT(60)
  <2>1. Link(m, r, k, g) /\ r \in Tables(d)  BY <1>5, <1>7, Zenon
  <2>2. ~(r = t /\ k = i)  BY <1>2, Zenon DEF Link
  <2>3. m2[r][k] = m[r][k]  BY <1>1, <1>2, <2>1, <2>2, ZenonT(60)
  <2>4. CASE g = t /\ j = i  BY <1>2, <2>1, <2>3, <2>4, Zenon DEF Above
  <2>5. CASE g # t \/ j # i
    <3>1. m2[g][j] = m[g][j]  BY <1>2, <2>5, Zenon
    <3>2. m[g][j].flags \subseteq m[r][k].flags  BY <2>1, <3>1, Zenon DEF Shape
    <3> QED  BY <2>3, <3>1, <3>2, Zenon
  <2> QED  BY <2>4, <2>5, Zenon
<1>12. d2[Root] = 0 /\ \A g \in Frames : d2[g] # 0
  <2>1. \A g \in Frames : d[g] # 0  BY Zenon DEF Shape
  <2> QED  BY <1>1, <1>3, <1>4, <2>1 DEF Out
<1>13. Shape(m2, d2)  BY <1>2, <1>4, <1>8, <1>9, <1>10, <1>11, <1>12, Zenon DEF Shape
<1>14. ASSUME NonEmpty(m, d, s), NEW f \in InTree(d2), f # t PROVE \E j \in Idx : m2[f][j].kind # "absent"
  <2>1. f \in InTree(d) /\ f # s /\ f \in T  BY <1>5, ZenonT(60) DEF InTree
  <2>2. PICK j \in Idx : m[f][j].kind # "absent"  BY <1>14, <2>1, Zenon DEF NonEmpty
  <2> QED  BY <1>2, <1>14, <2>1, <2>2, Zenon
<1>15. NonEmpty(m, d, s) => NonEmpty(m2, d2, t)  BY <1>14, Zenon DEF NonEmpty
<1>16. ASSUME e.kind # "absent", NonEmpty(m, d, s), NEW x PROVE NonEmpty(m2, d2, x)
  <2>1. m2[t][i].kind # "absent"  BY <1>2, <1>16, Zenon
  <2> QED  BY <1>14, <1>16, <2>1, Zenon DEF NonEmpty
<1> QED  BY <1>1, <1>3, <1>4, <1>5, <1>13, <1>15, <1>16, Zenon

-----------------------------------------------------------------------------
(* What a virtual page leads to *)

\* The entry found from a page table, a page directory or a pdpt on, and from the root.
Val3(m, t, w) == m[t][w[4]]
Val2(m, t, w) == IF m[t][w[3]].kind = "table" THEN Val3(m, m[t][w[3]].to, w) ELSE m[t][w[3]]
Val1(m, t, w) == IF m[t][w[2]].kind = "table" THEN Val2(m, m[t][w[2]].to, w) ELSE Absent
Leaf(m, w) == IF m[Root][w[1]].kind = "table" THEN Val1(m, m[Root][w[1]].to, w) ELSE Absent
Val(m, n, t, w) ==
  IF n = 0 THEN Leaf(m, w) ELSE IF n = 1 THEN Val1(m, t, w) ELSE IF n = 2 THEN Val2(m, t, w) ELSE Val3(m, t, w)

\* The walk for w comes to t, at depth n.
Reach1(m, w, t) == Link(m, Root, w[1], t)
Reach2(m, w, t) == \E r \in Frames : Reach1(m, w, r) /\ Link(m, r, w[2], t)
Reach3(m, w, t) == \E r \in Frames : Reach2(m, w, r) /\ Link(m, r, w[3], t)
Reached(m, w, n, t) ==
  \/ n = 0 /\ t = Root
  \/ n = 1 /\ Reach1(m, w, t)
  \/ n = 2 /\ Reach2(m, w, t)
  \/ n = 3 /\ Reach3(m, w, t)

LEMMA IdxFacts ==
  ASSUME NEW w \in Virt
  PROVE  w[1] \in Idx /\ w[2] \in Idx /\ w[3] \in Idx /\ w[4] \in Idx
BY DEF Idx

LEMMA ReachFacts ==
  ASSUME NEW m, NEW d, Shape(m, d), NEW w \in Virt
  PROVE  /\ \A t \in Frames : Reach1(m, w, t) => t \in Tables(d) /\ d[t] = 1 /\ t \in InTree(d)
         /\ \A t \in Frames : Reach2(m, w, t) => t \in Tables(d) /\ d[t] = 2 /\ t \in InTree(d)
         /\ \A t \in Frames : Reach3(m, w, t) => t \in Tables(d) /\ d[t] = 3 /\ t \in InTree(d)
<1>1. /\ d[Root] = 0 /\ Root \in Tables(d) /\ InTree(d) \subseteq Tables(d)
      /\ \A s \in Tables(d), j \in Idx, g \in Frames : Link(m, s, j, g) => d[g] = d[s] + 1 /\ g \in InTree(d)
  BY ShapeFacts
<1>2. w[1] \in Idx /\ w[2] \in Idx /\ w[3] \in Idx  BY IdxFacts, Zenon
<1>3. \A t \in Frames : Reach1(m, w, t) => t \in Tables(d) /\ d[t] = 1 /\ t \in InTree(d)
  BY <1>1, <1>2 DEF Reach1
<1>4. \A t \in Frames : Reach2(m, w, t) => t \in Tables(d) /\ d[t] = 2 /\ t \in InTree(d)
  BY <1>1, <1>2, <1>3 DEF Reach2
<1>5. \A t \in Frames : Reach3(m, w, t) => t \in Tables(d) /\ d[t] = 3 /\ t \in InTree(d)
  BY <1>1, <1>2, <1>4 DEF Reach3
<1> QED  BY <1>3, <1>4, <1>5, ZenonT(60)

\* One level further.
LEMMA ReachOn ==
  ASSUME NEW m, NEW d, Shape(m, d), NEW v \in Virt, NEW n \in 0 .. 2, NEW t \in Tables(d), NEW f \in Frames,
         Reached(m, v, n, t), d[t] = n, Link(m, t, v[n + 1], f)
  PROVE  Reached(m, v, n + 1, f)
<1>1. t \in Frames \cup {Root} /\ d[Root] = 0  BY ShapeFacts, ZenonT(60)
<1>2. CASE n = 0  BY <1>2 DEF Reached, Reach1
<1>3. CASE n = 1  BY <1>1, <1>3 DEF Reached, Reach2
<1>4. CASE n = 2  BY <1>1, <1>4 DEF Reached, Reach3
<1> QED  BY <1>2, <1>3, <1>4

\* Pages that come to one table take the same way.
LEMMA SameWay ==
  ASSUME NEW m, NEW d, Shape(m, d), NEW v \in Virt, NEW w \in Virt, NEW t \in Frames
  PROVE  /\ Reach1(m, v, t) /\ Reach1(m, w, t) => w[1] = v[1]
         /\ Reach2(m, v, t) /\ Reach2(m, w, t) => w[1] = v[1] /\ w[2] = v[2]
         /\ Reach3(m, v, t) /\ Reach3(m, w, t) => w[1] = v[1] /\ w[2] = v[2] /\ w[3] = v[3]
<1>1. \A q, r \in Tables(d), k, j \in Idx, g \in Frames : Link(m, q, k, g) /\ Link(m, r, j, g) => q = r /\ k = j
  BY Zenon DEF Shape
<1>2. Root \in Tables(d)  BY ShapeFacts, ZenonT(60)
<1>3. v[1] \in Idx /\ v[2] \in Idx /\ v[3] \in Idx /\ w[1] \in Idx /\ w[2] \in Idx /\ w[3] \in Idx  BY IdxFacts, ZenonT(60)
<1>4. \A f \in Frames : Reach1(m, v, f) /\ Reach1(m, w, f) => w[1] = v[1]
  BY <1>1, <1>2, <1>3, ZenonT(60) DEF Reach1
<1>5. ASSUME NEW f \in Frames, Reach2(m, v, f), Reach2(m, w, f) PROVE w[1] = v[1] /\ w[2] = v[2]
  <2>1. PICK q \in Frames : Reach1(m, v, q) /\ Link(m, q, v[2], f)  BY <1>5, ZenonT(60) DEF Reach2
  <2>2. PICK r \in Frames : Reach1(m, w, r) /\ Link(m, r, w[2], f)  BY <1>5, ZenonT(60) DEF Reach2
  <2>3. q \in Tables(d) /\ r \in Tables(d)  BY <2>1, <2>2, ReachFacts, ZenonT(60)
  <2>4. q = r /\ v[2] = w[2]  BY <1>1, <1>3, <2>1, <2>2, <2>3
  <2> QED  BY <1>4, <2>1, <2>2, <2>4, ZenonT(60)
<1>6. ASSUME Reach3(m, v, t), Reach3(m, w, t) PROVE w[1] = v[1] /\ w[2] = v[2] /\ w[3] = v[3]
  <2>1. PICK q \in Frames : Reach2(m, v, q) /\ Link(m, q, v[3], t)  BY <1>6, ZenonT(60) DEF Reach3
  <2>2. PICK r \in Frames : Reach2(m, w, r) /\ Link(m, r, w[3], t)  BY <1>6, ZenonT(60) DEF Reach3
  <2>3. q \in Tables(d) /\ r \in Tables(d)  BY <2>1, <2>2, ReachFacts, ZenonT(60)
  <2>4. q = r /\ v[3] = w[3]  BY <1>1, <1>3, <2>1, <2>2, <2>3
  <2> QED  BY <1>5, <2>1, <2>2, <2>4, Zenon
<1> QED  BY <1>4, <1>5, <1>6, ZenonT(60)

\* A table on the way of w decides where w leads.
LEMMA Resolve ==
  ASSUME NEW m, NEW w, NEW t
  PROVE  /\ Reach1(m, w, t) => Leaf(m, w) = Val1(m, t, w)
         /\ Reach2(m, w, t) => Leaf(m, w) = Val2(m, t, w)
         /\ Reach3(m, w, t) => Leaf(m, w) = Val3(m, t, w)
<1>1. \A r : Reach1(m, w, r) => Leaf(m, w) = Val1(m, r, w)
  BY ZenonT(60) DEF Reach1, Link, Leaf
<1>2. \A r : Reach2(m, w, r) => Leaf(m, w) = Val2(m, r, w)
  <2> SUFFICES ASSUME NEW r, Reach2(m, w, r) PROVE Leaf(m, w) = Val2(m, r, w)
    BY ZenonT(60)
  <2>1. PICK q \in Frames : Reach1(m, w, q) /\ Link(m, q, w[2], r)  BY ZenonT(60) DEF Reach2
  <2>2. Leaf(m, w) = Val1(m, q, w)  BY <1>1, <2>1, ZenonT(60)
  <2> QED  BY <2>1, <2>2, ZenonT(60) DEF Link, Val1
<1>3. ASSUME Reach3(m, w, t) PROVE Leaf(m, w) = Val3(m, t, w)
  <2>1. PICK q \in Frames : Reach2(m, w, q) /\ Link(m, q, w[3], t)  BY <1>3, ZenonT(60) DEF Reach3
  <2>2. Leaf(m, w) = Val2(m, q, w)  BY <1>2, <2>1, ZenonT(60)
  <2> QED  BY <2>1, <2>2, ZenonT(60) DEF Link, Val2
<1> QED  BY <1>1, <1>2, <1>3, ZenonT(60)

\* A write off the way of w does not move it.
LEMMA OffTheWay ==
  ASSUME NEW m, NEW d, Shape(m, d), NEW t \in Tables(d), NEW i \in Idx, NEW e, NEW m2, Wrote(m, m2, t, i, e), NEW w \in Virt,
         ~(Reached(m, w, d[t], t) /\ w[d[t] + 1] = i)
  PROVE  Leaf(m2, w) = Leaf(m, w)
<1> DEFINE T == Frames \cup {Root}
<1>1. /\ d[Root] = 0 /\ Root \in Tables(d) /\ Root \in T /\ m \in Memory
      /\ \A s \in Tables(d), j \in Idx : m[s][j] \in Entries
  BY ShapeFacts, Zenon
<1>2. w[1] \in Idx /\ w[2] \in Idx /\ w[3] \in Idx /\ w[4] \in Idx  BY IdxFacts, ZenonT(60)
<1>3. \A s \in T, j \in Idx : s # t \/ j # i => m2[s][j] = m[s][j]  BY Zenon DEF Wrote
<1>4. \A s \in Tables(d), j \in Idx : m[s][j].kind = "table" => m[s][j].to \in Frames  BY <1>1, EntryFacts, Zenon
<1>5. m2[Root][w[1]] = m[Root][w[1]]
  <2>1. Reached(m, w, 0, Root)  BY ZenonT(60) DEF Reached
  <2> QED  BY <1>1, <1>2, <1>3, <2>1
<1>6. ASSUME NEW f \in Frames, Reach1(m, w, f) PROVE m2[f][w[2]] = m[f][w[2]]
  <2>1. d[f] = 1 /\ Reached(m, w, 1, f)  BY <1>6, ReachFacts DEF Reached
  <2> QED  BY <1>2, <1>3, <2>1
<1>7. ASSUME NEW f \in Frames, Reach2(m, w, f) PROVE m2[f][w[3]] = m[f][w[3]]
  <2>1. d[f] = 2 /\ Reached(m, w, 2, f)  BY <1>7, ReachFacts DEF Reached
  <2> QED  BY <1>2, <1>3, <2>1
<1>8. ASSUME NEW f \in Frames, Reach3(m, w, f) PROVE m2[f][w[4]] = m[f][w[4]]
  <2>1. d[f] = 3 /\ Reached(m, w, 3, f)  BY <1>8, ReachFacts DEF Reached
  <2> QED  BY <1>2, <1>3, <2>1
<1>9. \A f \in Frames : Reach3(m, w, f) => Val3(m2, f, w) = Val3(m, f, w)  BY <1>8, Zenon DEF Val3
<1>10. ASSUME NEW f \in Frames, Reach2(m, w, f) PROVE Val2(m2, f, w) = Val2(m, f, w)
  <2>1. f \in Tables(d)  BY <1>10, ReachFacts, ZenonT(60)
  <2>2. CASE m[f][w[3]].kind = "table"
    <3>1. m[f][w[3]].to \in Frames  BY <1>2, <1>4, <2>1, <2>2, ZenonT(60)
    <3>2. Reach3(m, w, m[f][w[3]].to)  BY <1>10, <2>2, ZenonT(60) DEF Reach3, Link
    <3>3. Val3(m2, m[f][w[3]].to, w) = Val3(m, m[f][w[3]].to, w)  BY <1>9, <3>1, <3>2, ZenonT(60)
    <3> QED  BY <1>7, <1>10, <2>2, <3>3, ZenonT(60) DEF Val2
  <2>3. CASE m[f][w[3]].kind # "table"  BY <1>7, <1>10, <2>3, ZenonT(60) DEF Val2
  <2> QED  BY <2>2, <2>3, ZenonT(60)
<1>11. ASSUME NEW f \in Frames, Reach1(m, w, f) PROVE Val1(m2, f, w) = Val1(m, f, w)
  <2>1. f \in Tables(d)  BY <1>11, ReachFacts, ZenonT(60)
  <2>2. CASE m[f][w[2]].kind = "table"
    <3>1. m[f][w[2]].to \in Frames  BY <1>2, <1>4, <2>1, <2>2, ZenonT(60)
    <3>2. Reach2(m, w, m[f][w[2]].to)  BY <1>11, <2>2, ZenonT(60) DEF Reach2, Link
    <3>3. Val2(m2, m[f][w[2]].to, w) = Val2(m, m[f][w[2]].to, w)  BY <1>10, <3>1, <3>2, ZenonT(60)
    <3> QED  BY <1>6, <1>11, <2>2, <3>3, ZenonT(60) DEF Val1
  <2>3. CASE m[f][w[2]].kind # "table"  BY <1>6, <1>11, <2>3, ZenonT(60) DEF Val1
  <2> QED  BY <2>2, <2>3, ZenonT(60)
<1>12. CASE m[Root][w[1]].kind = "table"
  <2>1. m[Root][w[1]].to \in Frames  BY <1>1, <1>2, <1>4, <1>12, ZenonT(60)
  <2>2. Reach1(m, w, m[Root][w[1]].to)  BY <1>12, ZenonT(60) DEF Reach1, Link
  <2>3. Val1(m2, m[Root][w[1]].to, w) = Val1(m, m[Root][w[1]].to, w)  BY <1>11, <2>1, <2>2, ZenonT(60)
  <2> QED  BY <1>5, <1>12, <2>3, ZenonT(60) DEF Leaf
<1>13. CASE m[Root][w[1]].kind # "table"  BY <1>5, <1>13, ZenonT(60) DEF Leaf
<1> QED  BY <1>12, <1>13, Zenon

\* Nor does it change the tables above the one that is written, and so the way to that one.
LEMMA WayKept ==
  ASSUME NEW m, NEW d, Shape(m, d), NEW t \in Tables(d), NEW i \in Idx, NEW e, NEW m2, Wrote(m, m2, t, i, e), NEW w \in Virt,
         Reached(m, w, d[t], t)
  PROVE  Reached(m2, w, d[t], t) /\ Leaf(m, w) = Val(m, d[t], t, w) /\ Leaf(m2, w) = Val(m2, d[t], t, w)
<1> DEFINE T == Frames \cup {Root}
<1>1. /\ d[Root] = 0 /\ Root \in Tables(d) /\ Root \in T /\ t \in T /\ d[t] \in 0 .. 3  BY ShapeFacts, ZenonT(60)
<1>2. w[1] \in Idx /\ w[2] \in Idx /\ w[3] \in Idx /\ w[4] \in Idx  BY IdxFacts, ZenonT(60)
<1>3. \A s \in T, j \in Idx : s # t => m2[s][j] = m[s][j]  BY Zenon DEF Wrote
<1>4. CASE d[t] = 0
  <2>1. t = Root  BY <1>1, <1>4 DEF Reached
  <2> QED  BY <1>4, <2>1, ZenonT(60) DEF Reached, Val
<1>5. ASSUME d[t] # 0, NEW f \in Frames, Reach1(m, w, f) PROVE Reach1(m2, w, f)
  BY <1>1, <1>2, <1>3, <1>5, ZenonT(60) DEF Reach1, Link
<1>6. ASSUME d[t] \notin {0, 1}, NEW f \in Frames, Reach2(m, w, f) PROVE Reach2(m2, w, f)
  <2>1. PICK r \in Frames : Reach1(m, w, r) /\ Link(m, r, w[2], f)  BY <1>6, ZenonT(60) DEF Reach2
  <2>2. d[r] = 1 /\ r # t  BY <1>6, <2>1, ReachFacts
  <2>3. Link(m2, r, w[2], f)  BY <1>2, <1>3, <2>1, <2>2, ZenonT(60) DEF Link
  <2> QED  BY <1>5, <1>6, <2>1, <2>3, ZenonT(60) DEF Reach2
<1>7. ASSUME d[t] \notin {0, 1, 2}, NEW f \in Frames, Reach3(m, w, f) PROVE Reach3(m2, w, f)
  <2>1. PICK r \in Frames : Reach2(m, w, r) /\ Link(m, r, w[3], f)  BY <1>7, ZenonT(60) DEF Reach3
  <2>2. d[r] = 2 /\ r # t  BY <1>7, <2>1, ReachFacts
  <2>3. Link(m2, r, w[3], f)  BY <1>2, <1>3, <2>1, <2>2, Zenon DEF Link
  <2> QED  BY <1>6, <1>7, <2>1, <2>3, ZenonT(60) DEF Reach3
<1>8. d[t] # 0 => t \in Frames  BY <1>1, ZenonT(60)
<1>9. CASE d[t] = 1
  <2>1. Reach1(m, w, t) /\ Reach1(m2, w, t)  BY <1>5, <1>8, <1>9 DEF Reached
  <2> QED  BY <1>9, <2>1, Resolve, ZenonT(60) DEF Reached, Val
<1>10. CASE d[t] = 2
  <2>1. Reach2(m, w, t) /\ Reach2(m2, w, t)  BY <1>6, <1>8, <1>10 DEF Reached
  <2> QED  BY <1>10, <2>1, Resolve DEF Reached, Val
<1>11. CASE d[t] = 3
  <2>1. Reach3(m, w, t) /\ Reach3(m2, w, t)  BY <1>7, <1>8, <1>11 DEF Reached
  <2> QED  BY <1>11, <2>1, Resolve DEF Reached, Val
<1> QED  BY <1>1, <1>4, <1>9, <1>10, <1>11

\* Nor what is found from the tables below it on.
LEMMA BelowKept ==
  ASSUME NEW m, NEW d, Shape(m, d), NEW t \in Tables(d), NEW i \in Idx, NEW e, NEW m2, Wrote(m, m2, t, i, e), NEW w \in Virt
  PROVE  /\ \A s \in Tables(d) : d[t] <= 2 /\ d[s] = 3 => Val3(m2, s, w) = Val3(m, s, w)
         /\ \A s \in Tables(d) : d[t] <= 1 /\ d[s] = 2 => Val2(m2, s, w) = Val2(m, s, w)
         /\ \A s \in Tables(d) : d[t] <= 0 /\ d[s] = 1 => Val1(m2, s, w) = Val1(m, s, w)
<1> DEFINE T == Frames \cup {Root}
<1>1. /\ \A s \in Tables(d) : s \in T /\ d[s] \in 0 .. 3
      /\ \A s \in Tables(d), j \in Idx : m[s][j] \in Entries
      /\ \A s \in Tables(d), j \in Idx, g \in Frames : Link(m, s, j, g) => d[g] = d[s] + 1 /\ g \in InTree(d)
      /\ InTree(d) \subseteq Tables(d)
  BY ShapeFacts
<1>2. w[1] \in Idx /\ w[2] \in Idx /\ w[3] \in Idx /\ w[4] \in Idx  BY IdxFacts, Zenon
<1>3. \A s \in Tables(d), j \in Idx : s # t => m2[s][j] = m[s][j]  BY <1>1, Zenon DEF Wrote
<1>4. \A s \in Tables(d), j \in Idx : m[s][j].kind = "table" => m[s][j].to \in Tables(d) /\ d[m[s][j].to] = d[s] + 1
  <2> SUFFICES ASSUME NEW s \in Tables(d), NEW j \in Idx, m[s][j].kind = "table"
               PROVE  m[s][j].to \in Tables(d) /\ d[m[s][j].to] = d[s] + 1
    BY Zenon
  <2>1. m[s][j].to \in Frames  BY <1>1, EntryFacts, ZenonT(60)
  <2>2. Link(m, s, j, m[s][j].to)  BY Zenon DEF Link
  <2> QED  BY <1>1, <2>1, <2>2, Zenon
<1>5. ASSUME NEW s \in Tables(d), d[t] <= 2, d[s] = 3 PROVE Val3(m2, s, w) = Val3(m, s, w)
  BY <1>2, <1>3, <1>5 DEF Val3
<1>6. ASSUME NEW s \in Tables(d), d[t] <= 1, d[s] = 2 PROVE Val2(m2, s, w) = Val2(m, s, w)
  <2>1. m2[s][w[3]] = m[s][w[3]]  BY <1>2, <1>3, <1>6
  <2>2. CASE m[s][w[3]].kind = "table"
    <3>1. m[s][w[3]].to \in Tables(d) /\ d[m[s][w[3]].to] = 3 /\ d[t] <= 2  BY <1>1, <1>2, <1>4, <1>6, <2>2
    <3>2. Val3(m2, m[s][w[3]].to, w) = Val3(m, m[s][w[3]].to, w)  BY <1>5, <3>1, ZenonT(60)
    <3> QED  BY <2>1, <2>2, <3>2, Zenon DEF Val2
  <2>3. CASE m[s][w[3]].kind # "table"  BY <2>1, <2>3, ZenonT(60) DEF Val2
  <2> QED  BY <2>2, <2>3, Zenon
<1>7. ASSUME NEW s \in Tables(d), d[t] <= 0, d[s] = 1 PROVE Val1(m2, s, w) = Val1(m, s, w)
  <2>1. m2[s][w[2]] = m[s][w[2]]  BY <1>2, <1>3, <1>7
  <2>2. CASE m[s][w[2]].kind = "table"
    <3>1. m[s][w[2]].to \in Tables(d) /\ d[m[s][w[2]].to] = 2 /\ d[t] <= 1  BY <1>1, <1>2, <1>4, <1>7, <2>2
    <3>2. Val2(m2, m[s][w[2]].to, w) = Val2(m, m[s][w[2]].to, w)  BY <1>6, <3>1, ZenonT(60)
    <3> QED  BY <2>1, <2>2, <3>2, Zenon DEF Val1
  <2>3. CASE m[s][w[2]].kind # "table"  BY <2>1, <2>3, ZenonT(60) DEF Val1
  <2> QED  BY <2>2, <2>3, ZenonT(60)
<1> QED  BY <1>5, <1>6, <1>7, ZenonT(60)

\* A table entry that stays a table entry moves no page.
LEMMA LeafReflag ==
  ASSUME NEW m, NEW d, Shape(m, d), NEW t \in Tables(d), NEW i \in Idx, NEW e, NEW m2, Wrote(m, m2, t, i, e), NEW w \in Virt,
         m[t][i].kind = "table", e.kind = "table", e.to = m[t][i].to
  PROVE  Leaf(m2, w) = Leaf(m, w)
<1>1. m2[t][i] = e  BY Zenon DEF Wrote
<1>2. m[t][i].to \in Tables(d) /\ d[m[t][i].to] = d[t] + 1 /\ d[t] \in 0 .. 2
  <2>1. m[t][i].to \in Frames  BY ShapeFacts, EntryFacts, ZenonT(60)
  <2>2. Link(m, t, i, m[t][i].to)  BY ZenonT(60) DEF Link
  <2> QED  BY <2>1, <2>2, ShapeFacts
<1>3. CASE Reached(m, w, d[t], t) /\ w[d[t] + 1] = i
  <2>1. Leaf(m, w) = Val(m, d[t], t, w) /\ Leaf(m2, w) = Val(m2, d[t], t, w)  BY <1>3, WayKept
  <2>2. CASE d[t] = 0
    <3>1. t = Root  BY <1>3, <2>2 DEF Reached
    <3>2. Val1(m2, m[t][i].to, w) = Val1(m, m[t][i].to, w)  BY <1>2, <2>2, BelowKept
    <3> QED  BY <1>1, <1>3, <2>2, <3>1, <3>2 DEF Leaf
  <2>3. CASE d[t] = 1
    <3>1. Val2(m2, m[t][i].to, w) = Val2(m, m[t][i].to, w)  BY <1>2, <2>3, BelowKept
    <3> QED  BY <1>1, <1>3, <2>1, <2>3, <3>1 DEF Val, Val1
  <2>4. CASE d[t] = 2
    <3>1. Val3(m2, m[t][i].to, w) = Val3(m, m[t][i].to, w)  BY <1>2, <2>4, BelowKept
    <3> QED  BY <1>1, <1>3, <2>1, <2>4, <3>1 DEF Val, Val2
  <2> QED  BY <1>2, <2>2, <2>3, <2>4
<1>4. CASE ~(Reached(m, w, d[t], t) /\ w[d[t] + 1] = i)  BY <1>4, OffTheWay
<1> QED  BY <1>3, <1>4, ZenonT(60)

\* An entry that leads nowhere: absent, or to a table without entries.
Blank(m, e) == e = Absent \/ (e.kind = "table" /\ \A j \in Idx : m[e.to][j] = Absent)

\* Replacing one such entry by another moves no page.
LEMMA LeafBlank ==
  ASSUME NEW m, NEW d, Shape(m, d), NEW t \in Tables(d), NEW i \in Idx, NEW e, NEW m2, Wrote(m, m2, t, i, e), NEW w \in Virt,
         d[t] <= 2, Blank(m, m[t][i]), Blank(m2, e)
  PROVE  Leaf(m2, w) = Leaf(m, w)
<1>1. m2[t][i] = e  BY ZenonT(60) DEF Wrote
<1>2. d[t] \in 0 .. 3 /\ d[Root] = 0  BY ShapeFacts, ZenonT(60)
<1>3. w[1] \in Idx /\ w[2] \in Idx /\ w[3] \in Idx /\ w[4] \in Idx  BY IdxFacts, ZenonT(60)
<1>4. ASSUME NEW mm, Blank(mm, mm[t][i]), w[d[t] + 1] = i, d[t] = 0 => t = Root PROVE Val(mm, d[t], t, w) = Absent
  <2>1. CASE mm[t][i] = Absent
    <3>1. mm[t][i].kind = "absent"  BY <2>1, AbsentFacts, Zenon
    <3>2. CASE d[t] = 0  BY <1>4, <2>1, <3>1, <3>2 DEF Val, Leaf
    <3>3. CASE d[t] = 1  BY <1>4, <2>1, <3>1, <3>3 DEF Val, Val1
    <3>4. CASE d[t] = 2  BY <1>4, <2>1, <3>1, <3>4 DEF Val, Val2
    <3> QED  BY <1>2, <3>2, <3>3, <3>4
  <2>2. CASE mm[t][i].kind = "table" /\ \A j \in Idx : mm[mm[t][i].to][j] = Absent
    <3>1. Val1(mm, mm[t][i].to, w) = Absent /\ Val2(mm, mm[t][i].to, w) = Absent /\ Val3(mm, mm[t][i].to, w) = Absent
      BY <1>3, <2>2, AbsentFacts, ZenonT(60) DEF Val1, Val2, Val3
    <3>2. CASE d[t] = 0  BY <1>4, <2>2, <3>1, <3>2 DEF Val, Leaf
    <3>3. CASE d[t] = 1  BY ONLY <1>4, <2>2, <3>1, <3>3, SMTT(60) DEF Val, Val1
    <3>4. CASE d[t] = 2  BY ONLY <1>4, <2>2, <3>1, <3>4, SMTT(60) DEF Val, Val2
    <3> QED  BY <1>2, <3>2, <3>3, <3>4
  <2> QED  BY <1>4, <2>1, <2>2, ZenonT(60) DEF Blank
<1>5. CASE Reached(m, w, d[t], t) /\ w[d[t] + 1] = i
  <2>1. Leaf(m, w) = Val(m, d[t], t, w) /\ Leaf(m2, w) = Val(m2, d[t], t, w)  BY <1>5, WayKept
  <2>2. d[t] = 0 => t = Root  BY <1>5 DEF Reached
  <2>3. Val(m, d[t], t, w) = Absent  BY <1>4, <1>5, <2>2, ZenonT(60)
  <2>4. Val(m2, d[t], t, w) = Absent  BY <1>1, <1>4, <1>5, <2>2, ZenonT(60)
  <2> QED  BY <2>1, <2>3, <2>4, ZenonT(60)
<1>6. CASE ~(Reached(m, w, d[t], t) /\ w[d[t] + 1] = i)  BY <1>6, OffTheWay
<1> QED  BY <1>5, <1>6, ZenonT(60)

\* An entry of a page table, or one of a page directory that is no table, decides where the pages lead
\* that come to it, and nothing else.
LEMMA LeafWrite ==
  ASSUME NEW m, NEW d, Shape(m, d), NEW t \in Tables(d), NEW i \in Idx, NEW e, NEW m2, Wrote(m, m2, t, i, e), NEW w \in Virt,
         d[t] = 3 \/ (d[t] = 2 /\ e.kind # "table")
  PROVE  Leaf(m2, w) = IF Reached(m, w, d[t], t) /\ w[d[t] + 1] = i THEN e ELSE Leaf(m, w)
<1>1. m2[t][i] = e  BY ZenonT(60) DEF Wrote
<1>2. CASE Reached(m, w, d[t], t) /\ w[d[t] + 1] = i
  <2>1. Leaf(m2, w) = Val(m2, d[t], t, w)  BY <1>2, WayKept
  <2> QED  BY <1>1, <1>2, <2>1 DEF Val, Val2, Val3
<1>3. CASE ~(Reached(m, w, d[t], t) /\ w[d[t] + 1] = i)  BY <1>3, OffTheWay
<1> QED  BY <1>2, <1>3, Zenon

\* The rights at the end of the way are the rights along it.
LEMMA WalkIsLeaf ==
  ASSUME NEW d, Shape(mem, d), NEW w \in Virt
  PROVE  Walk(w) = Leaf(mem, w)
<1> DEFINE pdpte == mem[Root][w[1]]
           pde == mem[pdpte.to][w[2]]
           pte == mem[pde.to][w[3]]
           leaf == mem[pte.to][w[4]]
<1>1. /\ d[Root] = 0 /\ Root \in Tables(d) /\ InTree(d) \subseteq Tables(d)
      /\ \A s \in Tables(d), j \in Idx : mem[s][j] \in Entries
      /\ \A s \in Tables(d), j \in Idx, g \in Frames : Link(mem, s, j, g) => d[g] = d[s] + 1 /\ g \in InTree(d)
  BY ShapeFacts
<1>2. w[1] \in Idx /\ w[2] \in Idx /\ w[3] \in Idx /\ w[4] \in Idx  BY IdxFacts, ZenonT(60)
<1>3. \A s \in Tables(d), j \in Idx : Fits(mem[s][j], d[s], d)  BY ZenonT(60) DEF Shape
<1>4. ASSUME NEW s \in Tables(d), NEW j \in Idx, NEW k \in Idx, mem[s][j].kind = "table"
      PROVE  /\ mem[s][j].to \in Tables(d) /\ d[mem[s][j].to] = d[s] + 1
             /\ mem[mem[s][j].to][k].kind # "absent" => mem[mem[s][j].to][k].flags \subseteq mem[s][j].flags
  <2>1. mem[s][j].to \in Frames  BY <1>1, <1>4, EntryFacts, ZenonT(60)
  <2>2. Link(mem, s, j, mem[s][j].to)  BY <1>4, ZenonT(60) DEF Link
  <2>3. mem[s][j].to \in Tables(d) /\ d[mem[s][j].to] = d[s] + 1  BY <1>1, <2>1, <2>2, ZenonT(60)
  <2> QED  BY <2>1, <2>2, <2>3 DEF Shape
<1>5. Walk(w) = IF pdpte.kind = "absent" \/ pde.kind = "absent" \/ pte.kind = "absent" THEN Absent
                ELSE IF pte.kind = "large" THEN [pte EXCEPT !.flags = pte.flags \cap pde.flags \cap pdpte.flags]
                ELSE IF leaf.kind = "absent" THEN Absent
                ELSE [leaf EXCEPT !.flags = leaf.flags \cap pde.flags \cap pdpte.flags \cap pte.flags]
  BY ZenonT(60) DEF Walk
<1>6. Leaf(mem, w) = IF pdpte.kind # "table" \/ pde.kind # "table" THEN Absent
                     ELSE IF pte.kind = "table" THEN leaf ELSE pte
  BY ZenonT(60) DEF Leaf, Val1, Val2, Val3
<1>7. pdpte \in Entries /\ pdpte.kind \in {"absent", "table"}
  <2>1. pdpte \in Entries /\ Fits(pdpte, 0, d)  BY <1>1, <1>2, <1>3, ZenonT(60)
  <2> HIDE DEF pdpte
  <2> QED  BY <2>1 DEF Fits
<1>8. pdpte.kind = "table" =>
        pdpte.to \in Tables(d) /\ d[pdpte.to] = 1 /\ (pde.kind # "absent" => pde.flags \subseteq pdpte.flags)
  <2>1. pdpte.kind = "table" =>
          /\ pdpte.to \in Tables(d) /\ d[pdpte.to] = d[Root] + 1
          /\ pde.kind # "absent" => pde.flags \subseteq pdpte.flags
    <3>1. Root \in Tables(d)  BY <1>1, Zenon
    <3> QED  BY ONLY <1>2, <1>4, <3>1, ZenonT(60)
  <2> HIDE DEF pdpte, pde
  <2> QED  BY <1>1, <2>1
<1>9. pdpte.kind = "table" => pde \in Entries /\ pde.kind \in {"absent", "table"}
  <2> SUFFICES ASSUME pdpte.kind = "table" PROVE pde \in Entries /\ pde.kind \in {"absent", "table"}
    BY Zenon
  <2>1. pde \in Entries /\ Fits(pde, d[pdpte.to], d)  BY <1>1, <1>2, <1>3, <1>8, Zenon
  <2> HIDE DEF pdpte, pde
  <2> QED  BY <1>8, <2>1 DEF Fits
<1>10. pdpte.kind = "table" /\ pde.kind = "table" =>
         pde.to \in Tables(d) /\ d[pde.to] = 2 /\ (pte.kind # "absent" => pte.flags \subseteq pde.flags)
  <2>1. pdpte.kind = "table" /\ pde.kind = "table" =>
          /\ pde.to \in Tables(d) /\ d[pde.to] = d[pdpte.to] + 1
          /\ pte.kind # "absent" => pte.flags \subseteq pde.flags
    BY ONLY <1>2, <1>4, <1>8, ZenonT(60)
  <2> HIDE DEF pdpte, pde, pte
  <2> QED  BY <1>8, <2>1
<1>11. pdpte.kind = "table" /\ pde.kind = "table" => pte \in Entries /\ pte.kind \in {"absent", "table", "large"}
  <2> SUFFICES ASSUME pdpte.kind = "table", pde.kind = "table"
               PROVE  pte \in Entries /\ pte.kind \in {"absent", "table", "large"}
    BY Zenon
  <2> HIDE DEF pdpte, pde
  <2>1. pde.to \in Tables(d) /\ d[pde.to] = 2  BY <1>10, ZenonT(60)
  <2>2. pte \in Entries /\ Fits(pte, d[pde.to], d)  BY <1>1, <1>2, <1>3, <2>1, Zenon
  <2> HIDE DEF pte
  <2>3. Fits(pte, 2, d)  BY <2>1, <2>2, ZenonT(60)
  <2> QED  BY <2>2, <2>3 DEF Fits
<1>12. pdpte.kind = "table" /\ pde.kind = "table" /\ pte.kind = "table" =>
         leaf \in Entries /\ (leaf.kind # "absent" => leaf.flags \subseteq pte.flags)
  <2> HIDE DEF pdpte, pde
  <2> SUFFICES ASSUME pdpte.kind = "table", pde.kind = "table", pte.kind = "table"
               PROVE  leaf \in Entries /\ (leaf.kind # "absent" => leaf.flags \subseteq pte.flags)
    BY Zenon
  <2>1. pde.to \in Tables(d)  BY <1>10, ZenonT(60)
  <2>2. pte.to \in Tables(d) /\ (leaf.kind # "absent" => leaf.flags \subseteq pte.flags)  BY <1>2, <1>4, <2>1, Zenon
  <2> HIDE DEF pte
  <2> QED  BY <1>1, <1>2, <2>2, Zenon
<1> HIDE DEF pdpte, pde, pte, leaf
<1>13. ASSUME NEW x \in Entries, NEW flags, x.kind # "absent", x.flags \subseteq flags
       PROVE  [x EXCEPT !.flags = x.flags \cap flags] = x
  <2>1. x = Entry(x.kind, x.to, x.flags)  BY <1>13, EntryFacts, ZenonT(60)
  <2>2. x.flags \cap flags = x.flags  BY <1>13, ZenonT(60)
  <2> QED  BY <2>1, <2>2, Zenon DEF Entry
<1>14. \A x \in Entries : x.kind = "absent" => x = Absent  BY EntryFacts, ZenonT(60)
<1>15. CASE pdpte.kind = "absent" \/ pde.kind = "absent"  BY <1>5, <1>6, <1>15, ZenonT(60)
<1>16. CASE pdpte.kind = "table" /\ pde.kind = "table"
  <2>1. CASE pte.kind = "absent"  BY <1>5, <1>6, <1>11, <1>14, <1>16, <2>1, ZenonT(60)
  <2>2. CASE pte.kind = "large"
    <3>1. Walk(w) = [pte EXCEPT !.flags = pte.flags \cap pde.flags \cap pdpte.flags] /\ Leaf(mem, w) = pte
      BY <1>5, <1>6, <1>16, <2>2, ZenonT(60)
    <3>2. pte.flags \cap pde.flags \cap pdpte.flags = pte.flags \cap (pde.flags \cap pdpte.flags)  BY Zenon
    <3>3. pte.flags \subseteq pde.flags \cap pdpte.flags
      <4>1. pte.flags \subseteq pde.flags /\ pde.flags \subseteq pdpte.flags  BY <1>8, <1>10, <1>16, <2>2, ZenonT(60)
      <4> QED  BY <4>1, Zenon
    <3>4. pte \in Entries /\ pte.kind # "absent"  BY <1>11, <1>16, <2>2, ZenonT(60)
    <3> QED  BY <1>13, <3>1, <3>2, <3>3, <3>4, ZenonT(60)
  <2>3. CASE pte.kind = "table" /\ leaf.kind = "absent"  BY <1>5, <1>6, <1>12, <1>14, <1>16, <2>3, ZenonT(60)
  <2>4. CASE pte.kind = "table" /\ leaf.kind # "absent"
    <3>1. /\ Walk(w) = [leaf EXCEPT !.flags = leaf.flags \cap pde.flags \cap pdpte.flags \cap pte.flags]
          /\ Leaf(mem, w) = leaf
      BY <1>5, <1>6, <1>16, <2>4, Zenon
    <3>2. leaf.flags \cap pde.flags \cap pdpte.flags \cap pte.flags
            = leaf.flags \cap (pde.flags \cap pdpte.flags \cap pte.flags)
      BY Zenon
    <3>3. leaf.flags \subseteq pde.flags \cap pdpte.flags \cap pte.flags
      <4>1. leaf.flags \subseteq pte.flags /\ pte.flags \subseteq pde.flags /\ pde.flags \subseteq pdpte.flags
        BY <1>8, <1>10, <1>12, <1>16, <2>4, ZenonT(60)
      <4> QED  BY <4>1, Zenon
    <3> QED  BY <1>12, <1>13, <1>16, <2>4, <3>1, <3>2, <3>3
  <2> QED  BY <1>11, <1>16, <2>1, <2>2, <2>3, <2>4, ZenonT(60)
<1> QED  BY <1>7, <1>9, <1>15, <1>16, Zenon

-----------------------------------------------------------------------------
(* One level down *)

Distinct(pool) == \A i, j \in DOMAIN pool : pool[i] = pool[j] => i = j
ZeroedPool(m, pool) == \A i \in DOMAIN pool : m[pool[i]] = Zeroed

LEMMA MembersFacts ==
  ASSUME NEW pool \in Seq(Frames)
  PROVE  /\ Members(pool) \subseteq Frames /\ \A i \in DOMAIN pool : pool[i] \in Members(pool)
         /\ \A f \in Members(pool) : \E i \in DOMAIN pool : pool[i] = f
BY DEF Members

LEMMA PoolHead ==
  ASSUME NEW pool \in Seq(Frames), pool # << >>, Distinct(pool)
  PROVE  /\ Head(pool) \in Frames /\ Tail(pool) \in Seq(Frames) /\ Distinct(Tail(pool))
         /\ Members(pool) = Members(Tail(pool)) \cup {Head(pool)} /\ Head(pool) \notin Members(Tail(pool))
         /\ Len(Tail(pool)) = Len(pool) - 1 /\ Len(pool) \in Nat
         /\ \A m : ZeroedPool(m, pool) => ZeroedPool(m, Tail(pool)) /\ m[Head(pool)] = Zeroed
<1>1. Len(pool) \in Nat /\ Len(pool) > 0 /\ DOMAIN pool = 1 .. Len(pool)  OBVIOUS
<1>2. /\ Head(pool) \in Frames /\ Tail(pool) \in Seq(Frames) /\ Head(pool) = pool[1]
      /\ Len(Tail(pool)) = Len(pool) - 1 /\ DOMAIN Tail(pool) = 1 .. Len(pool) - 1
  BY <1>1
<1>3. \A i \in 1 .. Len(pool) - 1 : Tail(pool)[i] = pool[i + 1] /\ i + 1 \in 1 .. Len(pool)
  BY <1>1
<1>4. Distinct(Tail(pool))
  <2> SUFFICES ASSUME NEW i \in 1 .. Len(pool) - 1, NEW j \in 1 .. Len(pool) - 1, Tail(pool)[i] = Tail(pool)[j] PROVE i = j
    BY <1>2, Zenon DEF Distinct
  <2>1. pool[i + 1] = pool[j + 1] /\ i + 1 \in DOMAIN pool /\ j + 1 \in DOMAIN pool  BY <1>1, <1>3, ZenonT(60)
  <2>2. i + 1 = j + 1  BY <2>1, Zenon DEF Distinct
  <2> QED  BY <2>2
<1>5. Members(pool) = Members(Tail(pool)) \cup {Head(pool)}
  <2>1. ASSUME NEW i \in 1 .. Len(pool) PROVE pool[i] = Head(pool) \/ pool[i] \in Members(Tail(pool))
    <3>1. CASE i = 1  BY <1>2, <3>1, ZenonT(60)
    <3>2. CASE i # 1
      <4>1. i - 1 \in 1 .. Len(pool) - 1 /\ (i - 1) + 1 = i  BY <1>1, <3>2
      <4>2. Tail(pool)[i - 1] = pool[i]  BY <1>3, <4>1, ZenonT(60)
      <4> QED  BY <1>2, <4>1, <4>2, ZenonT(60) DEF Members
    <3> QED  BY <3>1, <3>2, Zenon
  <2>2. Members(Tail(pool)) \subseteq Members(pool)  BY <1>1, <1>2, <1>3 DEF Members
  <2>3. Head(pool) \in Members(pool)  BY <1>1, <1>2 DEF Members
  <2>4. \A f \in Members(pool) : \E i \in 1 .. Len(pool) : f = pool[i]  BY <1>1, Zenon DEF Members
  <2> QED  BY <2>1, <2>2, <2>3, <2>4, ZenonT(60)
<1>6. Head(pool) \notin Members(Tail(pool))
  <2> SUFFICES ASSUME NEW i \in 1 .. Len(pool) - 1, pool[1] = Tail(pool)[i] PROVE FALSE
    BY <1>2, ZenonT(60) DEF Members
  <2>1. pool[1] = pool[i + 1] /\ i + 1 \in DOMAIN pool /\ 1 \in DOMAIN pool  BY <1>1, <1>3
  <2>2. 1 = i + 1  BY <2>1, Zenon DEF Distinct
  <2> QED  BY <2>2
<1>7. ASSUME NEW m, ZeroedPool(m, pool) PROVE ZeroedPool(m, Tail(pool)) /\ m[Head(pool)] = Zeroed
  BY <1>1, <1>2, <1>3, <1>7 DEF ZeroedPool
<1> QED  BY <1>1, <1>2, <1>4, <1>5, <1>6, <1>7, ZenonT(60)

LEMMA WroteElsewhere ==
  ASSUME NEW m \in Memory, NEW m2, NEW t, NEW i, NEW e, Wrote(m, m2, t, i, e), NEW f \in Frames \cup {Root}, f # t
  PROVE  m2[f] = m[f]
<1>1. m[f] \in [Idx -> Entries] /\ m2[f] \in [Idx -> Entries]  BY ZenonT(60) DEF Memory, Wrote
<1>2. \A j \in Idx : m2[f][j] = m[f][j]  BY ZenonT(60) DEF Wrote
<1> QED  BY <1>1, <1>2

\* The walk for v has come to a table at depth n, with rights asked for at every level above it, and
\* with a pool of zeroed tables that are not in the tree.
WalkOK(at, d, n, v, rights) ==
  /\ Shape(at.mem, d) /\ NonEmpty(at.mem, d, at.table)
  /\ at.table \in Tables(d) /\ d[at.table] = n
  /\ Reached(at.mem, v, n, at.table) /\ Above(at.mem, d, at.table, rights)
  /\ at.pool \in Seq(Frames) /\ Distinct(at.pool) /\ ZeroedPool(at.mem, at.pool)
  /\ Members(at.pool) \cap InTree(d) = {}

\* Tables have gone from the pool into the tree; frames that are in neither are as they were, and
\* every page leads where it led.
Moved(at, d, at2, d2) ==
  /\ InTree(d2) \cup Members(at2.pool) = InTree(d) \cup Members(at.pool)
  /\ \A f \in Frames : f \notin InTree(d) \cup Members(at.pool) => at2.mem[f] = at.mem[f]
  /\ \A w \in Virt : Leaf(at2.mem, w) = Leaf(at.mem, w)

LEMMA MovedOn ==
  ASSUME NEW a, NEW b, NEW c, NEW d, NEW d2, NEW d3, Moved(a, d, b, d2), Moved(b, d2, c, d3)
  PROVE  Moved(a, d, c, d3)
BY Zenon DEF Moved

Descends(at, d, n, v, rights, at2) ==
  /\ n \in 0 .. 2 /\ v \in Virt /\ rights \in SUBSET Flags /\ WalkOK(at, d, n, v, rights) /\ at.pool # << >>
  /\ at.mem[at.table][v[n + 1]].kind \in {"absent", "table"} /\ at2 = GetOrCreateNext(at, v[n + 1], rights)

LEMMA NextTable ==
  ASSUME NEW at, NEW d, NEW n, NEW v, NEW rights, NEW at2, Descends(at, d, n, v, rights, at2)
  PROVE  \E d2 \in Depths : /\ WalkOK(at2, d2, n + 1, v, rights) /\ Moved(at, d, at2, d2)
                            /\ Len(at2.pool) >= Len(at.pool) - 1
<1>0. /\ n \in 0 .. 2 /\ v \in Virt /\ rights \in SUBSET Flags /\ WalkOK(at, d, n, v, rights) /\ at.pool # << >>
      /\ at.mem[at.table][v[n + 1]].kind \in {"absent", "table"} /\ at2 = GetOrCreateNext(at, v[n + 1], rights)
  BY Zenon DEF Descends
<1> USE <1>0
<1>1. PICK m, t, i, pool, old : m = at.mem /\ t = at.table /\ i = v[n + 1] /\ pool = at.pool /\ old = m[t][i]
  BY ZenonT(60)
<1>2. i \in Idx  BY <1>1, IdxFacts
<1>3. /\ Shape(m, d) /\ NonEmpty(m, d, t) /\ t \in Tables(d) /\ d[t] = n /\ Reached(m, v, d[t], t) /\ Above(m, d, t, rights)
      /\ pool \in Seq(Frames) /\ Distinct(pool) /\ ZeroedPool(m, pool) /\ Members(pool) \cap InTree(d) = {}
  BY <1>1, ZenonT(60) DEF WalkOK
<1>4. m \in Memory /\ d \in Depths /\ old \in Entries /\ t \in Frames \cup {Root} /\ InTree(d) \subseteq Tables(d)
  BY <1>1, <1>2, <1>3, ShapeFacts, ZenonT(60)
<1>5. t \in Frames => t \in InTree(d)  BY <1>3, ZenonT(60) DEF InTree, Tables
<1>6. Len(pool) \in Nat  BY ONLY <1>3, SMTT(60)
<1>7. CASE old.kind = "table"
  <2>1. PICK e, m2 : e = Entry(old.kind, old.to, old.flags \cup rights) /\ m2 = [m EXCEPT ![t][i] = e]  BY Zenon
  <2>2. at2.table = old.to /\ at2.pool = pool /\ at2.mem = m2
    BY <1>1, <1>7, <2>1, ZenonT(60) DEF GetOrCreateNext
  <2>3. old.to \in Frames /\ old.flags \subseteq Flags  BY <1>4, <1>7, EntryFacts, ZenonT(60)
  <2>4. e \in Entries /\ e.kind = "table" /\ e.to = old.to
    <3>1. old.flags \cup rights \subseteq Flags  BY <2>3, ZenonT(60)
    <3> QED  BY <1>7, <2>1, <2>3, <3>1, EntryMade
  <2>5. Wrote(m, m2, t, i, e)  BY <1>2, <1>4, <2>1, <2>4, WriteEntry, ZenonT(60)
  <2>6. Shape(m2, d) /\ (\A x : NonEmpty(m, d, x) => NonEmpty(m2, d, x)) /\ Above(m2, d, old.to, rights)
    <3>1. /\ m[t][i].kind # "absent" /\ m[t][i].kind = "table" /\ old.to = m[t][i].to
          /\ e = Entry(m[t][i].kind, m[t][i].to, m[t][i].flags \cup rights)
      BY <1>1, <1>7, <2>1, ZenonT(60)
    <3>2. /\ Shape(m2, d) /\ \A x : NonEmpty(m, d, x) => NonEmpty(m2, d, x)
          /\ m[t][i].kind = "table" => Above(m2, d, m[t][i].to, rights)
      <4>1. Reflagged(m, d, t, i, e, rights, m2)  BY <1>2, <1>3, <2>5, <3>1, Zenon DEF Reflagged
      <4> QED  BY <4>1, Reflag, ZenonT(60)
    <3> QED  BY <3>1, <3>2, Zenon
  <2>7. NonEmpty(m2, d, old.to)
    <3>1. NonEmpty(m, d, old.to)
      <4>1. \E j \in Idx : m[t][j].kind # "absent"  BY <1>1, <1>2, <1>7, ZenonT(60)
      <4> QED  BY <1>3, <4>1, ZenonT(60) DEF NonEmpty
    <3> QED  BY <2>6, <3>1, ZenonT(60)
  <2>8. Reached(m2, v, d[t], t)  BY <1>2, <1>3, <2>5, WayKept, ZenonT(60)
  <2>9. Link(m2, t, i, old.to)  BY <2>4, <2>5, ZenonT(60) DEF Link, Wrote
  <2>10. d[old.to] = n + 1 /\ old.to \in InTree(d)  BY ONLY <1>2, <1>3, <2>3, <2>6, <2>9, ShapeFacts, SMTT(60)
  <2>11. Reached(m2, v, n + 1, old.to)
    <3>1. Reached(m2, v, n, t) /\ Link(m2, t, v[n + 1], old.to)  BY <1>1, <1>3, <2>8, <2>9, ZenonT(60)
    <3> QED  BY <1>3, <2>3, <2>6, <3>1, ReachOn, ZenonT(60)
  <2>12. \A f \in Frames : f \notin InTree(d) => m2[f] = m[f]
    <3> SUFFICES ASSUME NEW f \in Frames, f \notin InTree(d) PROVE m2[f] = m[f]
      BY ZenonT(60)
    <3>1. f # t  BY <1>5, ZenonT(60)
    <3> QED  BY ONLY <1>4, <2>5, <3>1, f \in Frames, WroteElsewhere, SMTT(60)
  <2>13. ZeroedPool(m2, pool)
    <3>1. \A f \in Members(pool) : f \in Frames /\ f \notin InTree(d)  BY <1>3, MembersFacts, ZenonT(60)
    <3> QED  BY <1>3, <2>12, <3>1, MembersFacts, ZenonT(60) DEF ZeroedPool
  <2>14. \A w \in Virt : Leaf(m2, w) = Leaf(m, w)
    <3>1. m[t][i].kind = "table" /\ e.to = m[t][i].to  BY <1>1, <1>7, <2>4, ZenonT(60)
    <3>2. Shape(m, d) /\ t \in Tables(d) /\ i \in Idx  BY <1>2, <1>3, ZenonT(60)
    <3> QED  BY ONLY <2>4, <2>5, <3>1, <3>2, LeafReflag, SMTT(60)
  <2>15. old.to \in Tables(d)  BY <1>4, <2>10, ZenonT(60)
  <2>16. WalkOK(at2, d, n + 1, v, rights)  BY <1>3, <2>2, <2>6, <2>7, <2>10, <2>11, <2>13, <2>15, Zenon DEF WalkOK
  <2>17. Moved(at, d, at2, d)  BY <1>1, <2>2, <2>12, <2>14, ZenonT(60) DEF Moved
  <2>18. Len(at2.pool) >= Len(at.pool) - 1  BY ONLY <1>1, <1>6, <2>2, SMTT(60)
  <2> QED  BY <1>4, <2>16, <2>17, <2>18, Zenon
<1>8. CASE old.kind = "absent"
  <2>1. PICK f, rest, e, m2, d2 : /\ f = Head(pool) /\ rest = Tail(pool) /\ e = Entry("table", f, rights)
                                  /\ m2 = [m EXCEPT ![t][i] = e] /\ d2 = [d EXCEPT ![f] = d[t] + 1]
    BY ZenonT(60)
  <2>2. at2.table = f /\ at2.pool = rest /\ at2.mem = m2
    BY <1>1, <1>8, <2>1, ZenonT(60) DEF GetOrCreateNext
  <2>3. /\ f \in Frames /\ rest \in Seq(Frames) /\ Distinct(rest)
        /\ Members(pool) = Members(rest) \cup {f} /\ f \notin Members(rest)
        /\ Len(rest) = Len(pool) - 1 /\ ZeroedPool(m, rest) /\ m[f] = Zeroed
    <3>1. pool # << >>  BY <1>1, ZenonT(60)
    <3> QED  BY <1>3, <2>1, <3>1, PoolHead, ZenonT(60)
  <2>4. e \in Entries /\ e.kind = "table" /\ e.to = f  BY <2>1, <2>3, EntryMade
  <2>5. Wrote(m, m2, t, i, e)  BY <1>2, <1>4, <2>1, <2>4, WriteEntry, ZenonT(60)
  <2>6. f \notin InTree(d) /\ d[f] = Out /\ d[t] <= 2
    <3>1. f \notin InTree(d)  BY <1>3, <2>3, ZenonT(60)
    <3>2. d[f] = Out  BY <2>3, <3>1, ZenonT(60) DEF InTree
    <3>3. d[t] = n /\ n \in 0 .. 2  BY <1>3, ZenonT(60)
    <3>4. d[t] <= 2  BY ONLY <3>3, SMTT(60)
    <3> QED  BY <3>1, <3>2, <3>4, Zenon
  <2>7. /\ Shape(m2, d2) /\ Above(m2, d2, f, rights) /\ f \in Tables(d2) /\ d2[f] = d[t] + 1
        /\ InTree(d2) = InTree(d) \cup {f} /\ m2[f] = Zeroed /\ NonEmpty(m2, d2, f)
    <3>1. m[t][i].kind = "absent"  BY <1>1, <1>8, ZenonT(60)
    <3>2. e = Entry("table", f, rights) /\ d2 = [d EXCEPT ![f] = d[t] + 1]  BY <2>1, ZenonT(60)
    <3>3. Shape(m, d) /\ t \in Tables(d) /\ Above(m, d, t, rights) /\ NonEmpty(m, d, t) /\ f \in Frames /\ m[f] = Zeroed
          /\ rights \in SUBSET Flags
      BY <1>3, <2>3, ZenonT(60)
    <3>4. Hung(m, d, t, i, f, rights, m2, d2)  BY <1>2, <2>5, <2>6, <3>1, <3>2, <3>3, Zenon DEF Hung
    <3> QED  BY ONLY <3>3, <3>4, Hang, SMTT(60)
  <2>8. d2 \in Depths  BY <2>7, ShapeFacts, ZenonT(60)
  <2>9. t \in Tables(d2) /\ d2[t] = n
    <3>1. t # f  BY <1>3, <2>6, ZenonT(60) DEF Tables
    <3> QED  BY <1>3, <1>4, <2>1, <3>1, ZenonT(60) DEF Depths, Tables
  <2>10. Reached(m2, v, d[t], t)  BY <1>2, <1>3, <2>5, WayKept, Zenon
  <2>11. Reached(m2, v, n + 1, f)
    <3>1. Reached(m2, v, n, t) /\ Link(m2, t, v[n + 1], f)  BY <1>1, <1>3, <2>4, <2>5, <2>10, ZenonT(60) DEF Link, Wrote
    <3> QED  BY <2>3, <2>7, <2>9, <3>1, ReachOn, ZenonT(60)
  <2>12. \A g \in Frames : g \notin InTree(d) => m2[g] = m[g]
    <3> SUFFICES ASSUME NEW g \in Frames, g \notin InTree(d) PROVE m2[g] = m[g]
      BY Zenon
    <3>1. g # t  BY <1>5, Zenon
    <3> QED  BY ONLY <1>4, <2>5, <3>1, g \in Frames, WroteElsewhere, SMTT(60)
  <2>13. ZeroedPool(m2, rest)
    <3>1. \A g \in Members(rest) : g \in Frames /\ g \notin InTree(d)  BY <1>3, <2>3, MembersFacts, ZenonT(60)
    <3> QED  BY <2>3, <2>12, <3>1, MembersFacts, ZenonT(60) DEF ZeroedPool
  <2>14. Blank(m, m[t][i])  BY <1>1, <1>4, <1>8, EntryFacts, ZenonT(60) DEF Blank
  <2>15. Blank(m2, e)  BY <2>4, <2>7, ZenonT(60) DEF Blank, Zeroed
  <2>16. \A w \in Virt : Leaf(m2, w) = Leaf(m, w)
    <3>1. Shape(m, d) /\ t \in Tables(d) /\ i \in Idx  BY <1>2, <1>3, ZenonT(60)
    <3> QED  BY ONLY <2>5, <2>6, <2>14, <2>15, <3>1, LeafBlank, SMTT(60)
  <2>17. Members(rest) \cap InTree(d2) = {} /\ InTree(d2) \cup Members(rest) = InTree(d) \cup Members(pool)
    BY <1>3, <2>3, <2>7, ZenonT(60)
  <2>18. d2[f] = n + 1  BY <1>3, <2>7, ZenonT(60)
  <2>19. WalkOK(at2, d2, n + 1, v, rights)  BY <2>2, <2>3, <2>7, <2>11, <2>13, <2>17, <2>18, Zenon DEF WalkOK
  <2>20. Moved(at, d, at2, d2)
    <3>1. \A g \in Frames : g \notin InTree(d) \cup Members(pool) => m2[g] = m[g]  BY <2>12, ZenonT(60)
    <3> QED  BY <1>1, <2>2, <2>16, <2>17, <3>1, ZenonT(60) DEF Moved
  <2>21. Len(at2.pool) >= Len(at.pool) - 1  BY ONLY <1>1, <1>6, <2>2, <2>3, SMTT(60)
  <2> QED  BY <2>8, <2>19, <2>20, <2>21, Zenon
<1> QED  BY <1>1, <1>7, <1>8, ZenonT(60)

-----------------------------------------------------------------------------
(* The invariant *)

Calls == [op : {"idle", "give", "map", "large"}, pool : Seq(Frames)]

\* What a caller may be doing, and the pool it has with it.
CallOK(c, m) ==
  /\ c \in Calls /\ Distinct(c.pool)
  /\ c.op = "idle" => c.pool = << >>
  /\ c.op = "give" => c.pool # << >>
  /\ c.op \in {"map", "large"} => Len(c.pool) <= Need(c.op) /\ ZeroedPool(m, c.pool)

\* A frame is held once, and is in one place: in the tree ts, among the lost ones, or in one pool.
Account(h, c, l, ts) ==
  /\ h \in [Frames -> {0, 1}] /\ l \subseteq Frames /\ ts \subseteq Frames
  /\ \A f \in Frames : h[f] = 1 <=> f \in ts \cup l \/ \E k \in Callers : f \in Members(c[k].pool)
  /\ ts \cap l = {}
  /\ \A k \in Callers : Members(c[k].pool) \cap (ts \cup l) = {}
  /\ \A k, o \in Callers : k # o => Members(c[k].pool) \cap Members(c[o].pool) = {}

Inv(d) ==
  /\ Shape(mem, d) /\ NonEmpty(mem, d, Root)
  /\ call \in [Callers -> Calls] /\ \A k \in Callers : CallOK(call[k], mem)
  /\ Account(holders, call, lost, InTree(d))

\* Until a page is mapped within a large page.
VmmInv == within = {} => \E d \in Depths : Inv(d)

\* Frames move between a caller's pool, the tree and the lost ones.
LEMMA AccountMoves ==
  ASSUME NEW h, NEW c \in [Callers -> Calls], NEW l, NEW ts, Account(h, c, l, ts), NEW k \in Callers, NEW g \in Calls,
         NEW l2 \in SUBSET Frames, NEW ts2 \in SUBSET Frames, NEW c2, c2 = [c EXCEPT ![k] = g],
         Members(g.pool) \cup ts2 \cup l2 = Members(c[k].pool) \cup ts \cup l,
         ts2 \cap l2 = {}, Members(g.pool) \cap (ts2 \cup l2) = {}
  PROVE  Account(h, c2, l2, ts2)
<1>1. c2[k] = g /\ \A o \in Callers : o # k => c2[o] = c[o]  BY Zenon
<1>2. \A o \in Callers : o # k => Members(c[o].pool) \cap (Members(g.pool) \cup ts2 \cup l2) = {}
  BY Zenon DEF Account
<1>3. \A o \in Callers : Members(c2[o].pool) \cap (ts2 \cup l2) = {}
  <2> SUFFICES ASSUME NEW o \in Callers PROVE Members(c2[o].pool) \cap (ts2 \cup l2) = {}
    BY Zenon
  <2>1. CASE o = k  BY <1>1, <2>1, ZenonT(60)
  <2>2. CASE o # k
    <3>1. c2[o] = c[o] /\ Members(c[o].pool) \cap (Members(g.pool) \cup ts2 \cup l2) = {}  BY <1>1, <1>2, <2>2, ZenonT(60)
    <3> QED  BY <3>1, Zenon
  <2> QED  BY <2>1, <2>2, Zenon
<1>4. \A o, p \in Callers : o # p => Members(c2[o].pool) \cap Members(c2[p].pool) = {}
  <2> SUFFICES ASSUME NEW o \in Callers, NEW p \in Callers, o # p PROVE Members(c2[o].pool) \cap Members(c2[p].pool) = {}
    BY Zenon
  <2>1. CASE o = k
    <3>1. c2[o] = g /\ c2[p] = c[p] /\ Members(c[p].pool) \cap (Members(g.pool) \cup ts2 \cup l2) = {}  BY <1>1, <1>2, <2>1, ZenonT(60)
    <3> QED  BY <3>1, ZenonT(60)
  <2>2. CASE p = k
    <3>1. c2[p] = g /\ c2[o] = c[o] /\ Members(c[o].pool) \cap (Members(g.pool) \cup ts2 \cup l2) = {}  BY <1>1, <1>2, <2>2, ZenonT(60)
    <3> QED  BY <3>1, Zenon
  <2>3. CASE o # k /\ p # k
    <3>1. c2[o] = c[o] /\ c2[p] = c[p]  BY <1>1, <2>3, ZenonT(60)
    <3> QED  BY <3>1, Zenon DEF Account
  <2> QED  BY <2>1, <2>2, <2>3, ZenonT(60)
<1>5. ASSUME NEW f \in Frames
      PROVE  h[f] = 1 <=> f \in ts2 \cup l2 \/ \E o \in Callers : f \in Members(c2[o].pool)
  <2>1. h[f] = 1 <=> f \in ts \cup l \/ \E o \in Callers : f \in Members(c[o].pool)  BY Zenon DEF Account
  <2>2. (\E o \in Callers : f \in Members(c[o].pool))
        <=> f \in Members(c[k].pool) \/ \E o \in Callers : o # k /\ f \in Members(c[o].pool)
    BY Zenon
  <2>3. (\E o \in Callers : f \in Members(c2[o].pool))
        <=> f \in Members(g.pool) \/ \E o \in Callers : o # k /\ f \in Members(c[o].pool)
    BY <1>1, Zenon
  <2> QED  BY <2>1, <2>2, <2>3, ZenonT(60)
<1> QED  BY <1>3, <1>4, <1>5, Zenon DEF Account

\* A frame nobody holds goes to a caller's pool.
Takes(h, c, l, ts, k, g, f, h2, c2) ==
  /\ c \in [Callers -> Calls] /\ Account(h, c, l, ts) /\ k \in Callers /\ g \in Calls /\ f \in Frames
  /\ c2 = [c EXCEPT ![k] = g] /\ h[f] = 0 /\ Members(g.pool) = Members(c[k].pool) \cup {f} /\ h2 = [h EXCEPT ![f] = 1]

LEMMA AccountTakes ==
  ASSUME NEW h, NEW c, NEW l, NEW ts, NEW k, NEW g, NEW f, NEW h2, NEW c2, Takes(h, c, l, ts, k, g, f, h2, c2)
  PROVE  Account(h2, c2, l, ts) /\ f \notin ts \cup l /\ \A o \in Callers : f \notin Members(c[o].pool)
<1>0. /\ c \in [Callers -> Calls] /\ Account(h, c, l, ts) /\ k \in Callers /\ g \in Calls /\ f \in Frames
      /\ c2 = [c EXCEPT ![k] = g] /\ h[f] = 0 /\ Members(g.pool) = Members(c[k].pool) \cup {f} /\ h2 = [h EXCEPT ![f] = 1]
  BY Zenon DEF Takes
<1> USE <1>0
<1>1. c2[k] = g /\ \A o \in Callers : o # k => c2[o] = c[o]  BY Zenon
<1>2. f \notin ts \cup l /\ \A o \in Callers : f \notin Members(c[o].pool)
  <2>1. h[f] # 1  OBVIOUS
  <2> QED  BY <2>1, Zenon DEF Account
<1>3. h2 \in [Frames -> {0, 1}] /\ h2[f] = 1 /\ \A e \in Frames : e # f => h2[e] = h[e]
  BY DEF Account
<1>4. \A o \in Callers : Members(c2[o].pool) = IF o = k THEN Members(c[o].pool) \cup {f} ELSE Members(c[o].pool)
  BY <1>1, Zenon
<1>5. \A o \in Callers : Members(c2[o].pool) \cap (ts \cup l) = {}
  <2>1. \A o \in Callers : Members(c[o].pool) \cap (ts \cup l) = {}  BY ZenonT(60) DEF Account
  <2> QED  BY <1>2, <1>4, <2>1, ZenonT(60)
<1>6. \A o, p \in Callers : o # p => Members(c2[o].pool) \cap Members(c2[p].pool) = {}
  <2>1. \A o, p \in Callers : o # p => Members(c[o].pool) \cap Members(c[p].pool) = {}  BY Zenon DEF Account
  <2> QED  BY <1>2, <1>4, <2>1, ZenonT(60)
<1>7. ASSUME NEW e \in Frames PROVE h2[e] = 1 <=> e \in ts \cup l \/ \E o \in Callers : e \in Members(c2[o].pool)
  <2>1. h[e] = 1 <=> e \in ts \cup l \/ \E o \in Callers : e \in Members(c[o].pool)  BY Zenon DEF Account
  <2>2. CASE e = f  BY <1>3, <1>4, <2>2, ZenonT(60)
  <2>3. CASE e # f
    <3>1. \A o \in Callers : e \in Members(c2[o].pool) <=> e \in Members(c[o].pool)  BY <1>4, <2>3, ZenonT(60)
    <3> QED  BY <1>3, <2>1, <2>3, <3>1, ZenonT(60)
  <2> QED  BY <2>2, <2>3, Zenon
<1> QED  BY <1>2, <1>3, <1>5, <1>6, <1>7, ZenonT(60) DEF Account

\* A caller gives back a frame of its pool.
Gives(h, c, l, ts, k, g, f, h2, c2) ==
  /\ c \in [Callers -> Calls] /\ Account(h, c, l, ts) /\ k \in Callers /\ g \in Calls /\ f \in Frames
  /\ c2 = [c EXCEPT ![k] = g] /\ Members(c[k].pool) = Members(g.pool) \cup {f} /\ f \notin Members(g.pool)
  /\ h2 = [h EXCEPT ![f] = 0]

LEMMA AccountGives ==
  ASSUME NEW h, NEW c, NEW l, NEW ts, NEW k, NEW g, NEW f, NEW h2, NEW c2, Gives(h, c, l, ts, k, g, f, h2, c2)
  PROVE  Account(h2, c2, l, ts) /\ f \notin ts \cup l /\ \A o \in Callers : o # k => f \notin Members(c[o].pool)
<1>0. /\ c \in [Callers -> Calls] /\ Account(h, c, l, ts) /\ k \in Callers /\ g \in Calls /\ f \in Frames
      /\ c2 = [c EXCEPT ![k] = g] /\ Members(c[k].pool) = Members(g.pool) \cup {f} /\ f \notin Members(g.pool)
      /\ h2 = [h EXCEPT ![f] = 0]
  BY Zenon DEF Gives
<1> USE <1>0
<1>1. c2[k] = g /\ \A o \in Callers : o # k => c2[o] = c[o]  BY ZenonT(60)
<1>2. f \notin ts \cup l /\ \A o \in Callers : o # k => f \notin Members(c[o].pool)
  <2>1. f \in Members(c[k].pool)  BY Zenon
  <2> QED  BY <2>1, ZenonT(60) DEF Account
<1>3. h2 \in [Frames -> {0, 1}] /\ h2[f] = 0 /\ \A e \in Frames : e # f => h2[e] = h[e]
  BY DEF Account
<1>4. \A o \in Callers : Members(c2[o].pool) = Members(c[o].pool) \ {f}
  BY <1>1, <1>2, Zenon
<1>5. \A o \in Callers : Members(c2[o].pool) \cap (ts \cup l) = {}
  <2>1. \A o \in Callers : Members(c[o].pool) \cap (ts \cup l) = {}  BY Zenon DEF Account
  <2> QED  BY <1>4, <2>1, Zenon
<1>6. \A o, p \in Callers : o # p => Members(c2[o].pool) \cap Members(c2[p].pool) = {}
  <2>1. \A o, p \in Callers : o # p => Members(c[o].pool) \cap Members(c[p].pool) = {}  BY ZenonT(60) DEF Account
  <2> QED  BY <1>4, <2>1, ZenonT(60)
<1>7. ASSUME NEW e \in Frames PROVE h2[e] = 1 <=> e \in ts \cup l \/ \E o \in Callers : e \in Members(c2[o].pool)
  <2>1. h[e] = 1 <=> e \in ts \cup l \/ \E o \in Callers : e \in Members(c[o].pool)  BY ZenonT(60) DEF Account
  <2>2. CASE e = f  BY <1>2, <1>3, <1>4, <2>2
  <2>3. CASE e # f
    <3>1. \A o \in Callers : e \in Members(c2[o].pool) <=> e \in Members(c[o].pool)  BY <1>4, <2>3, ZenonT(60)
    <3> QED  BY <1>3, <2>1, <2>3, <3>1, Zenon
  <2> QED  BY <2>2, <2>3, ZenonT(60)
<1> QED  BY <1>2, <1>3, <1>5, <1>6, <1>7, ZenonT(60) DEF Account

\* The same call with other memory, where its pool is still zeroed.
LEMMA CallKept ==
  ASSUME NEW c, NEW m, NEW m2, CallOK(c, m), ZeroedPool(m, c.pool) => ZeroedPool(m2, c.pool)
  PROVE  CallOK(c, m2)
BY ZenonT(60) DEF CallOK

LEMMA GivingFacts ==
  ASSUME NEW pool \in Seq(Frames), Distinct(pool), NEW m
  PROVE  CallOK(Giving(pool), m) /\ Giving(pool).pool = pool /\ Giving(pool) \in Calls
<1>1. CASE pool = << >>
  <2>1. PICK g : g = Giving(pool)  BY ZenonT(60)
  <2>2. g = [op |-> "idle", pool |-> pool]  BY <1>1, <2>1, ZenonT(60) DEF Giving, Idle
  <2>3. g \in Calls /\ g.op = "idle" /\ g.pool = pool  BY <2>2, ZenonT(60) DEF Calls
  <2> QED  BY <1>1, <2>1, <2>3, ZenonT(60) DEF CallOK
<1>2. CASE pool # << >>
  <2>1. Giving(pool) = [op |-> "give", pool |-> pool]  BY <1>2, ZenonT(60) DEF Giving
  <2> QED  BY <1>2, <2>1 DEF CallOK, Calls
<1> QED  BY <1>1, <1>2, ZenonT(60)

\* A step under vmm_lock: the frames that were in the tree or in the pool of k, and only those, may have
\* changed; what k is left with goes back.
LEMMA LockedStep ==
  ASSUME NEW d, Inv(d), NEW k \in Callers, NEW m2, NEW d2 \in Depths, NEW pool \in Seq(Frames), NEW l2 \in SUBSET Frames,
         Shape(m2, d2), NonEmpty(m2, d2, Root), Distinct(pool),
         \A f \in Frames : f \notin InTree(d) \cup Members(call[k].pool) => m2[f] = mem[f],
         Members(pool) \cup InTree(d2) \cup l2 = Members(call[k].pool) \cup InTree(d) \cup lost,
         InTree(d2) \cap l2 = {}, Members(pool) \cap (InTree(d2) \cup l2) = {},
         mem' = m2, lost' = l2, call' = [call EXCEPT ![k] = Giving(pool)], holders' = holders
  PROVE  Inv(d2)'
<1>1. CallOK(Giving(pool), m2) /\ Giving(pool).pool = pool /\ Giving(pool) \in Calls  BY GivingFacts, ZenonT(60)
<1>2. call \in [Callers -> Calls] /\ Account(holders, call, lost, InTree(d)) /\ \A o \in Callers : CallOK(call[o], mem)
  BY Zenon DEF Inv
<1>3. InTree(d2) \in SUBSET Frames  BY Zenon DEF InTree
<1>4. Account(holders, call', l2, InTree(d2))  BY <1>1, <1>2, <1>3, AccountMoves, ZenonT(60)
<1>5. call' \in [Callers -> Calls]  BY <1>1, <1>2, ZenonT(60)
<1>6. ASSUME NEW o \in Callers PROVE CallOK(call'[o], m2)
  <2>1. CASE o = k  BY <1>1, <1>2, <2>1, ZenonT(60)
  <2>2. CASE o # k
    <3>1. call'[o] = call[o] /\ CallOK(call[o], mem)  BY <1>2, <2>2, ZenonT(60)
    <3>2. Members(call[o].pool) \cap (InTree(d) \cup Members(call[k].pool)) = {}  BY <1>2, <2>2, ZenonT(60) DEF Account
    <3>3. call[o].pool \in Seq(Frames)  BY <3>1, ZenonT(60) DEF CallOK, Calls
    <3>4. \A i \in DOMAIN call[o].pool : m2[call[o].pool[i]] = mem[call[o].pool[i]]  BY <3>2, <3>3, MembersFacts, ZenonT(60)
    <3>5. ZeroedPool(mem, call[o].pool) => ZeroedPool(m2, call[o].pool)  BY <3>4, ZenonT(60) DEF ZeroedPool
    <3> QED  BY <3>1, <3>5, CallKept, ZenonT(60)
  <2> QED  BY <2>1, <2>2, ZenonT(60)
<1> QED  BY <1>4, <1>5, <1>6, Zenon DEF Inv

-----------------------------------------------------------------------------
(* The steps of the pool *)

\* What is in a frame outside the tree does not matter.
Refilled(m, d, f, table, m2) ==
  Shape(m, d) /\ f \in Frames /\ d[f] = Out /\ table \in [Idx -> Entries] /\ m2 = [m EXCEPT ![f] = table]

LEMMA OutsideWrite ==
  ASSUME NEW m, NEW d, NEW f, NEW table, NEW m2, Refilled(m, d, f, table, m2)
  PROVE  /\ Shape(m2, d) /\ \A x : NonEmpty(m, d, x) => NonEmpty(m2, d, x)
         /\ m2[f] = table /\ \A g \in Frames : g # f => m2[g] = m[g]
<1>0. Shape(m, d) /\ f \in Frames /\ d[f] = Out /\ table \in [Idx -> Entries] /\ m2 = [m EXCEPT ![f] = table]
  BY Zenon DEF Refilled
<1> USE <1>0
<1>1. /\ m \in Memory /\ d \in Depths /\ d[Root] = 0 /\ Root \in Tables(d) /\ InTree(d) \subseteq Tables(d)
      /\ \A t \in Tables(d) : t \in Frames \cup {Root}
      /\ \A t \in Tables(d), i \in Idx, g \in Frames : Link(m, t, i, g) => g \in InTree(d)
  BY ShapeFacts, ZenonT(60)
<1>2. m2 \in Memory /\ m2[f] = table /\ \A t \in Frames \cup {Root} : t # f => m2[t] = m[t]  BY <1>1, ZenonT(60) DEF Memory
<1>3. f \notin Tables(d)  BY Zenon DEF Tables
<1>4. \A t \in Tables(d) : m2[t] = m[t]  BY <1>1, <1>2, <1>3, ZenonT(60)
<1>5. \A t \in Tables(d), i \in Idx, g \in Frames : Link(m2, t, i, g) <=> Link(m, t, i, g)  BY <1>4, ZenonT(60) DEF Link
<1>6. \A t \in Tables(d), i \in Idx, g \in Frames : Link(m2, t, i, g) => m2[g] = m[g]  BY <1>1, <1>4, <1>5, ZenonT(60)
<1>7. \A f2 \in InTree(d) : f2 \in Frames  BY Zenon DEF InTree
<1>8. Shape(m2, d)
  <2>1. \A t \in Tables(d), i \in Idx : Fits(m2[t][i], d[t], d)  BY <1>4, ZenonT(60) DEF Shape
  <2>2. \A s, t \in Tables(d), i, j \in Idx, g \in Frames : Link(m2, s, i, g) /\ Link(m2, t, j, g) => s = t /\ i = j
    <3> TAKE s, t \in Tables(d), i, j \in Idx, g \in Frames
    <3> HAVE Link(m2, s, i, g) /\ Link(m2, t, j, g)
    <3>1. Link(m, s, i, g) /\ Link(m, t, j, g)  BY <1>5, Zenon
    <3> QED  BY <3>1 DEF Shape
  <2>3. \A g \in InTree(d) : \E t \in Tables(d), i \in Idx : Link(m2, t, i, g)
    <3>1. \A g \in InTree(d) : \E t \in Tables(d), i \in Idx : Link(m, t, i, g)  BY ZenonT(60) DEF Shape
    <3> QED  BY <1>5, <1>7, <3>1, Zenon
  <2>4. \A t \in Tables(d), i, j \in Idx, g \in Frames :
          Link(m2, t, i, g) /\ m2[g][j].kind # "absent" => m2[g][j].flags \subseteq m2[t][i].flags
    <3> SUFFICES ASSUME NEW t \in Tables(d), NEW i \in Idx, NEW j \in Idx, NEW g \in Frames,
                        Link(m2, t, i, g), m2[g][j].kind # "absent"
                 PROVE  m2[g][j].flags \subseteq m2[t][i].flags
      BY Zenon
    <3>1. Link(m, t, i, g) /\ m2[g] = m[g] /\ m2[t] = m[t]  BY <1>4, <1>5, <1>6, ZenonT(60)
    <3>2. m[g][j].flags \subseteq m[t][i].flags  BY <3>1, ZenonT(60) DEF Shape
    <3> QED  BY <3>1, <3>2, ZenonT(60)
  <2>5. d[Root] = 0 /\ \A g \in Frames : d[g] # 0  BY Zenon DEF Shape
  <2> QED  BY <1>1, <1>2, <2>1, <2>2, <2>3, <2>4, <2>5, Zenon DEF Shape
<1>9. \A x : NonEmpty(m, d, x) => NonEmpty(m2, d, x)  BY <1>1, <1>4 DEF NonEmpty
<1> QED  BY <1>2, <1>8, <1>9, ZenonT(60)

\* Nor does a write there move a page.
LEMMA LeafOutside ==
  ASSUME NEW m, NEW d, Shape(m, d), NEW m2, \A t \in Tables(d) : m2[t] = m[t], NEW w \in Virt
  PROVE  Leaf(m2, w) = Leaf(m, w)
<1>1. /\ Root \in Tables(d) /\ InTree(d) \subseteq Tables(d)
      /\ \A t \in Tables(d), i \in Idx : m[t][i] \in Entries
      /\ \A t \in Tables(d), i \in Idx, g \in Frames : Link(m, t, i, g) => g \in InTree(d)
  BY ShapeFacts, ZenonT(60)
<1>2. w[1] \in Idx /\ w[2] \in Idx /\ w[3] \in Idx /\ w[4] \in Idx  BY IdxFacts, ZenonT(60)
<1>3. \A t \in Tables(d), i \in Idx : m[t][i].kind = "table" => m[t][i].to \in Tables(d)
  <2> SUFFICES ASSUME NEW t \in Tables(d), NEW i \in Idx, m[t][i].kind = "table" PROVE m[t][i].to \in Tables(d)
    BY Zenon
  <2>1. m[t][i].to \in Frames  BY <1>1, EntryFacts, ZenonT(60)
  <2>2. Link(m, t, i, m[t][i].to)  BY Zenon DEF Link
  <2> QED  BY <1>1, <2>1, <2>2, ZenonT(60)
<1>4. \A t \in Tables(d) : Val3(m2, t, w) = Val3(m, t, w)  BY Zenon DEF Val3
<1>5. \A t \in Tables(d) : Val2(m2, t, w) = Val2(m, t, w)  BY <1>2, <1>3, <1>4, ZenonT(60) DEF Val2
<1>6. \A t \in Tables(d) : Val1(m2, t, w) = Val1(m, t, w)  BY <1>2, <1>3, <1>5, ZenonT(60) DEF Val1
<1> QED  BY <1>1, <1>2, <1>3, <1>6, Zenon DEF Leaf

LEMMA PoolAppend ==
  ASSUME NEW pool \in Seq(Frames), NEW f \in Frames, Distinct(pool), f \notin Members(pool)
  PROVE  /\ Append(pool, f) \in Seq(Frames) /\ Distinct(Append(pool, f)) /\ Len(Append(pool, f)) = Len(pool) + 1
         /\ Members(Append(pool, f)) = Members(pool) \cup {f}
         /\ \A m : ZeroedPool(m, pool) /\ m[f] = Zeroed => ZeroedPool(m, Append(pool, f))
<1> DEFINE q == Append(pool, f)
<1>1. /\ q \in Seq(Frames) /\ Len(q) = Len(pool) + 1 /\ Len(pool) \in Nat /\ DOMAIN q = 1 .. Len(pool) + 1
      /\ DOMAIN pool = 1 .. Len(pool) /\ q[Len(pool) + 1] = f
  OBVIOUS
<1>2. \A i \in 1 .. Len(pool) : q[i] = pool[i] /\ q[i] # f  BY DEF Members
<1>3. \A i \in DOMAIN q : i \in 1 .. Len(pool) \/ i = Len(pool) + 1  BY <1>1
<1>4. DOMAIN pool \subseteq DOMAIN q /\ Len(pool) + 1 \in DOMAIN q  BY <1>1
<1> HIDE DEF q
<1>5. Distinct(q)  BY <1>1, <1>2, <1>3, ZenonT(60) DEF Distinct
<1>6. Members(q) = Members(pool) \cup {f}
  <2>1. \A x \in Members(q) : x \in Members(pool) \/ x = f  BY <1>1, <1>2, <1>3, ZenonT(60) DEF Members
  <2>2. \A x \in Members(pool) : x \in Members(q)  BY <1>1, <1>2, <1>4, ZenonT(60) DEF Members
  <2>3. f \in Members(q)  BY <1>1, <1>4, ZenonT(60) DEF Members
  <2> QED  BY <2>1, <2>2, <2>3, ZenonT(60)
<1>7. \A m : ZeroedPool(m, pool) /\ m[f] = Zeroed => ZeroedPool(m, q)  BY <1>1, <1>2, <1>3, ZenonT(60) DEF ZeroedPool
<1> QED  BY <1>1, <1>5, <1>6, <1>7, ZenonT(60) DEF q

LEMMA TypedTables == Zeroed \in [Idx -> Entries] /\ Stale \in [Idx -> Entries]
<1>1. Entry("large", "stale", {}) \in Entries  BY Zenon DEF Entry, Entries
<1> QED  BY <1>1, AbsentFacts, ZenonT(60) DEF Zeroed, Stale

LEMMA EmptyPool == << >> \in Seq(Frames) /\ Distinct(<< >>) /\ Members(<< >>) = {} /\ \A m : ZeroedPool(m, << >>)
BY DEF Distinct, Members, ZeroedPool

LEMMA BeginStep ==
  ASSUME NEW d, Inv(d), NEW k \in Callers, NEW op \in {"map", "large"}, Begin(k, op)
  PROVE  Inv(d)' /\ \A w \in Virt : Leaf(mem', w) = Leaf(mem, w)
<1> DEFINE g == [op |-> op, pool |-> << >>]
<1>1. call[k] = Idle /\ call' = [call EXCEPT ![k] = g] /\ mem' = mem /\ lost' = lost /\ holders' = holders
  BY Zenon DEF Begin
<1>2. call \in [Callers -> Calls] /\ Account(holders, call, lost, InTree(d)) /\ \A o \in Callers : CallOK(call[o], mem)
  BY Zenon DEF Inv
<1>3. g \in Calls /\ g.pool = << >> /\ g.op = op /\ call[k].pool = << >>  BY <1>1, EmptyPool DEF Calls, Idle
<1>4. CallOK(g, mem)
  <2>1. Len(<< >>) <= Need(op)  BY DEF Need
  <2> QED  BY <1>3, <2>1, EmptyPool, ZenonT(60) DEF CallOK
<1> HIDE DEF g
<1>5. InTree(d) \in SUBSET Frames /\ lost \in SUBSET Frames /\ InTree(d) \cap lost = {}  BY <1>2, Zenon DEF Account
<1>6. Account(holders, call', lost, InTree(d))  BY <1>1, <1>2, <1>3, <1>5, EmptyPool, AccountMoves, ZenonT(60)
<1>7. call' \in [Callers -> Calls] /\ \A o \in Callers : CallOK(call'[o], mem)  BY <1>1, <1>2, <1>3, <1>4, ZenonT(60)
<1>8. Shape(mem, d) /\ NonEmpty(mem, d, Root)  BY Zenon DEF Inv
<1> QED  BY <1>1, <1>6, <1>7, <1>8, Zenon DEF Inv

LEMMA PoolFailsStep ==
  ASSUME NEW d \in Depths, Inv(d), NEW k \in Callers, PoolFails(k)
  PROVE  Inv(d)' /\ \A w \in Virt : Leaf(mem', w) = Leaf(mem, w)
<1>1. call' = [call EXCEPT ![k] = Giving(call[k].pool)] /\ mem' = mem /\ lost' = lost /\ holders' = holders
  BY Zenon DEF PoolFails
<1>2. /\ Shape(mem, d) /\ NonEmpty(mem, d, Root) /\ CallOK(call[k], mem) /\ Account(holders, call, lost, InTree(d))
  BY Zenon DEF Inv
<1>3. call[k].pool \in Seq(Frames) /\ Distinct(call[k].pool)  BY <1>2, ZenonT(60) DEF CallOK, Calls
<1>4. lost \in SUBSET Frames /\ InTree(d) \cap lost = {} /\ Members(call[k].pool) \cap (InTree(d) \cup lost) = {}
  BY <1>2, ZenonT(60) DEF Account
<1>5. Inv(d)'  BY <1>1, <1>2, <1>3, <1>4, LockedStep, ZenonT(60)
<1> QED  BY <1>1, <1>5, ZenonT(60)

LEMMA AllocTableStep ==
  ASSUME NEW d \in Depths, Inv(d), NEW k \in Callers, NEW f \in Frames, AllocTable(k, f)
  PROVE  Inv(d)' /\ \A w \in Virt : Leaf(mem', w) = Leaf(mem, w)
<1> DEFINE g == [op |-> call[k].op, pool |-> Append(call[k].pool, f)]
<1>1. /\ Filling(k) /\ Take(f, f) /\ mem' = [mem EXCEPT ![f] = Zeroed] /\ lost' = lost
      /\ call' = [call EXCEPT ![k].pool = Append(@, f)]
  BY Zenon DEF AllocTable
<1>2. /\ Shape(mem, d) /\ NonEmpty(mem, d, Root) /\ call \in [Callers -> Calls] /\ Account(holders, call, lost, InTree(d))
      /\ \A o \in Callers : CallOK(call[o], mem)
  BY Zenon DEF Inv
<1>3. holders[f] = 0 /\ holders' = [holders EXCEPT ![f] = 1]
  <2>1. f .. f = {f}  BY VmmAssumption
  <2>2. holders \in [Frames -> {0, 1}]  BY <1>2, Zenon DEF Account
  <2>3. f \notin Held  BY <1>1, <2>1, ZenonT(60) DEF Take
  <2>4. holders[f] = 0  BY <2>2, <2>3 DEF Held
  <2>5. holders' = [e \in Frames |-> IF e \in {f} THEN 1 ELSE holders[e]]  BY <1>1, <2>1, ZenonT(60) DEF Take
  <2> QED  BY <2>2, <2>4, <2>5, ZenonT(60)
<1>4. call[k].pool \in Seq(Frames) /\ Distinct(call[k].pool) /\ call[k] \in Calls  BY <1>2, ZenonT(60) DEF CallOK, Calls
<1>5. call' = [call EXCEPT ![k] = g]
  <2>1. call[k] = [op |-> call[k].op, pool |-> call[k].pool]  BY <1>4, ZenonT(60) DEF Calls
  <2>2. [call[k] EXCEPT !.pool = Append(call[k].pool, f)] = g  BY <2>1
  <2> QED  BY <1>1, <1>2, <2>2, ZenonT(60)
<1>6. f \notin InTree(d) \cup lost /\ \A o \in Callers : f \notin Members(call[o].pool)
  <2>1. holders[f] # 1  BY <1>3
  <2> QED  BY <1>2, <2>1, Zenon DEF Account
<1>7. /\ Append(call[k].pool, f) \in Seq(Frames) /\ Distinct(Append(call[k].pool, f))
      /\ Len(Append(call[k].pool, f)) = Len(call[k].pool) + 1
      /\ Members(Append(call[k].pool, f)) = Members(call[k].pool) \cup {f}
      /\ \A m : ZeroedPool(m, call[k].pool) /\ m[f] = Zeroed => ZeroedPool(m, Append(call[k].pool, f))
  BY <1>4, <1>6, PoolAppend, ZenonT(60)
<1>8. g \in Calls /\ g.pool = Append(call[k].pool, f) /\ g.op = call[k].op  BY <1>4, <1>7, ZenonT(60) DEF Calls
<1> HIDE DEF g
<1>9. Account(holders', call', lost, InTree(d))
  <2>1. Members(g.pool) = Members(call[k].pool) \cup {f}  BY <1>7, <1>8, ZenonT(60)
  <2>2. Takes(holders, call, lost, InTree(d), k, g, f, holders', call')
    BY <1>2, <1>3, <1>5, <1>8, <2>1, Zenon DEF Takes
  <2> QED  BY <2>2, AccountTakes, ZenonT(60)
<1>10. d[f] = Out  BY <1>6, ZenonT(60) DEF InTree
<1>11. /\ Shape(mem', d) /\ NonEmpty(mem', d, Root) /\ mem'[f] = Zeroed
       /\ \A e \in Frames : e # f => mem'[e] = mem[e]
  <2>1. Zeroed \in [Idx -> Entries] /\ mem' = [mem EXCEPT ![f] = Zeroed]  BY <1>1, TypedTables, Zenon
  <2>2. Shape(mem, d) /\ NonEmpty(mem, d, Root)  BY <1>2, ZenonT(60)
  <2>3. Refilled(mem, d, f, Zeroed, mem')  BY <1>10, <2>1, <2>2, Zenon DEF Refilled
  <2> QED  BY <2>2, <2>3, OutsideWrite
<1>12. ASSUME NEW o \in Callers PROVE ZeroedPool(mem, call[o].pool) => ZeroedPool(mem', call[o].pool)
  <2>1. call[o].pool \in Seq(Frames)  BY <1>2, ZenonT(60) DEF CallOK, Calls
  <2> QED  BY <1>6, <1>11, <2>1, MembersFacts, ZenonT(60) DEF ZeroedPool
<1>13. ASSUME NEW o \in Callers PROVE CallOK(call'[o], mem')
  <2>1. CASE o = k
    <3>1. call'[o] = g  BY <1>2, <1>5, <2>1, ZenonT(60)
    <3>2. call[k].op \in {"map", "large"} /\ Len(call[k].pool) < Need(call[k].op)  BY <1>1, Zenon DEF Filling
    <3>3. ZeroedPool(mem, call[k].pool)  BY <1>2, <3>2, ZenonT(60) DEF CallOK
    <3>4. ZeroedPool(mem', Append(call[k].pool, f))  BY <1>7, <1>11, <1>12, <3>3, ZenonT(60)
    <3>5. Len(call[k].pool) + 1 <= Need(call[k].op)
      <4>1. Len(call[k].pool) \in Nat /\ Need(call[k].op) \in Nat  BY <1>4 DEF Need
      <4> QED  BY <3>2, <4>1
    <3> QED  BY <1>7, <1>8, <3>1, <3>2, <3>4, <3>5, ZenonT(60) DEF CallOK
  <2>2. CASE o # k
    <3>1. call'[o] = call[o] /\ CallOK(call[o], mem)  BY <1>2, <1>5, <2>2, ZenonT(60)
    <3> QED  BY <1>12, <3>1, CallKept, ZenonT(60)
  <2> QED  BY <2>1, <2>2, ZenonT(60)
<1>14. call' \in [Callers -> Calls]  BY <1>2, <1>5, <1>8, ZenonT(60)
<1>15. Inv(d)'  BY <1>1, <1>9, <1>11, <1>13, <1>14, Zenon DEF Inv
<1>16. \A t \in Tables(d) : mem'[t] = mem[t]
  <2>1. f \notin Tables(d) /\ \A t \in Tables(d) : t \in Frames \cup {Root}  BY <1>10, ZenonT(60) DEF Tables
  <2> QED  BY <1>1, <1>2, <2>1, ZenonT(60) DEF Shape, Memory
<1> QED  BY <1>2, <1>15, <1>16, LeafOutside

LEMMA FreeTableStep ==
  ASSUME NEW d \in Depths, Inv(d), NEW k \in Callers, FreeTable(k)
  PROVE  Inv(d)' /\ \A w \in Virt : Leaf(mem', w) = Leaf(mem, w)
<1>1. PICK f : f = Head(call[k].pool)  BY ZenonT(60)
<1>2. PICK rest : rest = Tail(call[k].pool)  BY Zenon
<1>3. /\ call[k].op = "give" /\ holders' = [holders EXCEPT ![f] = 0] /\ mem' = [mem EXCEPT ![f] = Stale]
      /\ call' = [call EXCEPT ![k] = Giving(rest)] /\ lost' = lost
  BY <1>1, <1>2, ZenonT(60) DEF FreeTable, Give
<1>4. /\ Shape(mem, d) /\ NonEmpty(mem, d, Root) /\ call \in [Callers -> Calls] /\ Account(holders, call, lost, InTree(d))
      /\ \A o \in Callers : CallOK(call[o], mem)
  BY ZenonT(60) DEF Inv
<1>5. call[k].pool \in Seq(Frames) /\ Distinct(call[k].pool) /\ call[k].pool # << >>  BY <1>3, <1>4, ZenonT(60) DEF CallOK, Calls
<1>6. /\ f \in Frames /\ rest \in Seq(Frames) /\ Distinct(rest)
      /\ Members(call[k].pool) = Members(rest) \cup {f} /\ f \notin Members(rest)
  BY <1>1, <1>2, <1>5, PoolHead, ZenonT(60)
<1>7. CallOK(Giving(rest), mem') /\ Giving(rest).pool = rest /\ Giving(rest) \in Calls  BY <1>6, GivingFacts, ZenonT(60)
<1>8. /\ Account(holders', call', lost, InTree(d)) /\ f \notin InTree(d) \cup lost
      /\ \A o \in Callers : o # k => f \notin Members(call[o].pool)
  <2>1. PICK g : g = Giving(rest)  BY Zenon
  <2>2. g \in Calls /\ call' = [call EXCEPT ![k] = g] /\ g.pool = rest  BY <1>3, <1>7, <2>1, Zenon
  <2>3. Members(call[k].pool) = Members(g.pool) \cup {f} /\ f \notin Members(g.pool)  BY <1>6, <2>2, ZenonT(60)
  <2>4. Gives(holders, call, lost, InTree(d), k, g, f, holders', call')
    BY <1>3, <1>4, <1>6, <2>2, <2>3, Zenon DEF Gives
  <2> QED  BY <2>4, AccountGives
<1>9. d[f] = Out  BY <1>6, <1>8, ZenonT(60) DEF InTree
<1>10. /\ Shape(mem', d) /\ NonEmpty(mem', d, Root) /\ \A e \in Frames : e # f => mem'[e] = mem[e]
  <2>1. Stale \in [Idx -> Entries] /\ mem' = [mem EXCEPT ![f] = Stale]  BY <1>3, TypedTables, Zenon
  <2>2. Shape(mem, d) /\ NonEmpty(mem, d, Root) /\ f \in Frames  BY <1>4, <1>6, ZenonT(60)
  <2>3. Refilled(mem, d, f, Stale, mem')  BY <1>9, <2>1, <2>2, Zenon DEF Refilled
  <2> QED  BY <2>2, <2>3, OutsideWrite
<1>11. ASSUME NEW o \in Callers PROVE CallOK(call'[o], mem')
  <2>1. CASE o = k  BY <1>3, <1>4, <1>7, <2>1, ZenonT(60)
  <2>2. CASE o # k
    <3>1. call'[o] = call[o] /\ CallOK(call[o], mem)  BY <1>3, <1>4, <2>2, ZenonT(60)
    <3>2. call[o].pool \in Seq(Frames)  BY <3>1, ZenonT(60) DEF CallOK, Calls
    <3>3. ZeroedPool(mem, call[o].pool) => ZeroedPool(mem', call[o].pool)
      BY <1>8, <1>10, <2>2, <3>2, MembersFacts, ZenonT(60) DEF ZeroedPool
    <3> QED  BY <3>1, <3>3, CallKept, ZenonT(60)
  <2> QED  BY <2>1, <2>2, ZenonT(60)
<1>12. call' \in [Callers -> Calls]  BY <1>3, <1>4, <1>7, ZenonT(60)
<1>13. Inv(d)'  BY <1>3, <1>8, <1>10, <1>11, <1>12, Zenon DEF Inv
<1>14. \A t \in Tables(d) : mem'[t] = mem[t]
  <2>1. f \notin Tables(d) /\ \A t \in Tables(d) : t \in Frames \cup {Root}  BY <1>9, ZenonT(60) DEF Tables
  <2> QED  BY <1>3, <1>4, <2>1, ZenonT(60) DEF Shape, Memory
<1> QED  BY <1>4, <1>13, <1>14, LeafOutside
=============================================================================
