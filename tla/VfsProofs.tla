----------------------------- MODULE VfsProofs -----------------------------
(***************************************************************************)
(* Proofs about Vfs, for any callers, names, bytes and sizes of tables.    *)
(***************************************************************************)
EXTENDS Vfs, FiniteSetTheorems, TLAPS

-----------------------------------------------------------------------------
(* The invariant *)

Contents == Bytes \cup {Stale}
Files == [name : Names, size : Nat, data : Seq(Contents)]

\* Nodes that a descriptor may lead to.
Known == (DOMAIN nodes) \cup {RootNode}

\* A buffer holds the file, and nothing was written behind its end.
FileOK(node) ==
  /\ node.size <= Len(node.data)
  /\ \A i \in 1 .. Len(node.data) : i > node.size => node.data[i] = Stale

\* No two files have one name.
NodesOK ==
  /\ nodes \in Seq(Files)
  /\ \A n \in DOMAIN nodes : FileOK(nodes[n])
  /\ \A m, n \in DOMAIN nodes : nodes[m].name = nodes[n].name => m = n

Calls ==
  {Idle} \cup [at : {"create"}, name : Names] \cup [at : {"alloc"}, node : Int]
  \cup [at : {"fill"}, node : Int, fd : Fds]

TypesOK ==
  /\ fd_table \in [Fds -> [used : BOOLEAN, vnode : Int, offset : Nat]]
  /\ call \in [Callers -> Calls]
  /\ \A k \in Callers : call[k].at \in {"alloc", "fill"} => call[k].node \in Known
  /\ holds \in [Callers -> SUBSET [fd : Fds, name : Names \cup {"/"}]]
  /\ \A fd \in Fds : fd_table[fd].used => fd_table[fd].vnode \in Known \cup {Nobody}

\* A descriptor is in the hands of one caller only.
OneOwner ==
  /\ \A k, l \in Callers : \A h \in holds[k], g \in holds[l] : h.fd = g.fd => k = l /\ h = g
  /\ \A k, l \in Opening : call[k].fd = call[l].fd => k = l

VfsInv ==
  /\ NodesOK /\ TypesOK /\ OneOwner /\ HandlesSound
  /\ IsFiniteSet(Opening) /\ IsFiniteSet(Handles)

-----------------------------------------------------------------------------
(* What the type of a call says *)

LEMMA CallFacts ==
  ASSUME TypesOK, NEW k \in Callers
  PROVE  /\ call[k].at = "create" => call[k].name \in Names
         /\ call[k].at = "alloc" => call[k].node \in Int /\ call[k].node \in Known
         /\ call[k].at = "fill" => call[k].node \in Int /\ call[k].node \in Known /\ call[k].fd \in Fds
         /\ call[k] = Idle <=> call[k].at = "idle"
<1>1. call[k] \in Calls  BY Zenon DEF TypesOK
<1>2. \/ call[k] = Idle \/ call[k] \in [at : {"create"}, name : Names]
      \/ call[k] \in [at : {"alloc"}, node : Int] \/ call[k] \in [at : {"fill"}, node : Int, fd : Fds]
  BY <1>1, Zenon DEF Calls
<1>3. Idle.at = "idle"  BY Zenon DEF Idle
<1>4. call[k].at \in {"alloc", "fill"} => call[k].node \in Known  BY Zenon DEF TypesOK
<1> QED  BY <1>2, <1>3, <1>4, Zenon

LEMMA FdFacts ==
  ASSUME TypesOK, NEW fd \in Fds
  PROVE  /\ fd_table[fd].used \in BOOLEAN /\ fd_table[fd].vnode \in Int /\ fd_table[fd].offset \in Nat
         /\ DOMAIN fd_table = Fds
BY Zenon DEF TypesOK

LEMMA InUseFinite == IsFiniteSet(InUse) /\ InUse \subseteq Fds
<1>1. IsFiniteSet(Fds)  BY VfsAssumption, FS_Interval DEF Fds
<1>2. InUse \subseteq Fds  BY Zenon DEF InUse
<1> QED  BY <1>1, <1>2, FS_Subset, Zenon

LEMMA HandlesMembers ==
  /\ \A k \in Callers : \A h \in holds[k] : <<k, h>> \in Handles
  /\ \A p \in Handles : \E k \in Callers : \E h \in holds[k] : p = <<k, h>>
BY DEF Handles

\* The files that are there keep their names.
NamesKept ==
  nodes' \in Seq(Files) /\ \A n \in DOMAIN nodes : n \in DOMAIN nodes' /\ nodes'[n].name = nodes[n].name

LEMMA NamesKeptFacts ==
  ASSUME NamesKept
  PROVE  Known \subseteq Known' /\ \A n \in Known : NameOf(n)' = NameOf(n)
BY Zenon DEF NamesKept, Known, NameOf

\* A step after which the same callers have the same descriptors.
LEMMA OwnersKept ==
  ASSUME VfsInv, NamesKept, UNCHANGED <<Opening, holds>>,
         \A fd \in Fds : fd_table'[fd].used = fd_table[fd].used /\ fd_table'[fd].vnode = fd_table[fd].vnode,
         \A k \in Opening : call'[k] = call[k]
  PROVE  OneOwner' /\ HandlesSound' /\ IsFiniteSet(Opening)' /\ IsFiniteSet(Handles)'
<1>1. Handles' = Handles  BY Zenon DEF Handles
<1>2. InUse' = InUse  BY Zenon DEF InUse
<1>3. OneOwner'  BY DEF OneOwner, VfsInv
<1>4. ASSUME NEW k \in Callers, NEW h \in holds[k] PROVE Leads(h)'
  <2>1. h.fd \in Fds  BY DEF VfsInv, TypesOK
  <2>2. fd_table[h.fd].used /\ fd_table[h.fd].vnode # Nobody /\ NameOf(fd_table[h.fd].vnode) = h.name
    BY Zenon DEF VfsInv, HandlesSound, Leads
  <2>3. fd_table[h.fd].vnode \in Known  BY <2>1, <2>2, Zenon DEF VfsInv, TypesOK
  <2>4. NameOf(fd_table[h.fd].vnode)' = h.name
    <3>1. \A n \in Known : (IF n = RootNode THEN "/" ELSE nodes'[n].name) = NameOf(n)
      BY NamesKeptFacts, Zenon DEF NameOf
    <3> QED  BY <2>1, <2>2, <2>3, <3>1, ZenonT(60) DEF NameOf
  <2> QED  BY <2>1, <2>2, <2>4, Zenon DEF Leads
<1>5. ASSUME NEW k \in Opening PROVE Reserved(call[k].fd)'
  <2>1. call[k].fd \in Fds  BY CallFacts, Zenon DEF Opening, VfsInv
  <2> QED  BY <2>1, ZenonT(60) DEF VfsInv, HandlesSound, Reserved
<1>6. HandlesSound'
  BY <1>1, <1>2, <1>4, <1>5, Zenon DEF HandlesSound, VfsInv
<1> QED  BY <1>1, <1>3, <1>6, Zenon DEF VfsInv

-----------------------------------------------------------------------------
(* fs_open *)

\* A call goes on, without having or getting a descriptor.
LEMMA CallMoves ==
  ASSUME VfsInv, NamesKept, NEW k \in Callers, call[k].at # "fill",
         NEW c \in Calls, c.at # "fill", c.at = "alloc" => c.node \in Known',
         call' = [call EXCEPT ![k] = c]
  PROVE  /\ call' \in [Callers -> Calls] /\ UNCHANGED Opening
         /\ \A l \in Opening : call'[l] = call[l]
         /\ \A l \in Callers : call'[l].at \in {"alloc", "fill"} => call'[l].node \in Known'
<1>1. call \in [Callers -> Calls]  BY Zenon DEF VfsInv, TypesOK
<1>2. call' \in [Callers -> Calls] /\ call'[k] = c /\ \A l \in Callers : l # k => call'[l] = call[l]
  BY <1>1, Zenon
<1>3. \A l \in Callers : call[l].at \in {"alloc", "fill"} => call[l].node \in Known'
  BY NamesKeptFacts, Zenon DEF VfsInv, TypesOK
<1>4. UNCHANGED Opening  BY <1>2, Zenon DEF Opening
<1>5. \A l \in Opening : call'[l] = call[l]  BY <1>2, Zenon DEF Opening
<1> QED  BY <1>2, <1>3, <1>4, <1>5, ZenonT(60)

\* A step that changes neither descriptors nor what callers hold keeps the rest of the types.
LEMMA SameTable ==
  ASSUME VfsInv, NamesKept, UNCHANGED <<fd_table, holds>>, call' \in [Callers -> Calls],
         \A l \in Callers : call'[l].at \in {"alloc", "fill"} => call'[l].node \in Known'
  PROVE  TypesOK'
BY NamesKeptFacts, Zenon DEF VfsInv, TypesOK

LEMMA NodesSame ==
  ASSUME NodesOK, UNCHANGED nodes
  PROVE  NodesOK' /\ NamesKept /\ Known' = Known
BY Zenon DEF NodesOK, NamesKept, Known

LEMMA NodeFacts ==
  ASSUME NodesOK, NEW n \in DOMAIN nodes
  PROVE  /\ nodes[n] \in Files /\ nodes[n].name \in Names /\ nodes[n].size \in Nat /\ nodes[n].data \in Seq(Contents)
         /\ FileOK(nodes[n])
<1>1. nodes \in Seq(Files)  BY Zenon DEF NodesOK
<1>2. nodes[n] \in Files  BY <1>1
<1> QED  BY <1>2, Zenon DEF NodesOK, Files

LEMMA LookupKnown ==
  ASSUME NEW name, NEW n \in Lookup(name)
  PROVE  n \in Known
BY Zenon DEF Lookup, Named, Known

\* With at most one file of each name the search finds it, if there is one.
LEMMA LookupNamed ==
  ASSUME NodesOK, NEW name \in Names
  PROVE  /\ Lookup(name) = Named(name)
         /\ \A n \in DOMAIN nodes : nodes[n].name = name => Lookup(name) = {n}
<1>1. name # "/"  BY VfsAssumption, Zenon
<1>2. \A m, n \in Named(name) : m = n  BY Zenon DEF Named, NodesOK
<1>3. Named(name) \subseteq Int  BY DEF Named, NodesOK
<1>4. Lookup(name) = Named(name)  BY <1>1, <1>2, <1>3 DEF Lookup
<1> QED  BY <1>2, <1>4, Zenon DEF Named

LEMMA ResolveInv ==
  ASSUME VfsInv, NEW k \in Callers, NEW name \in Names \cup {"/"}, NEW creat, OpenResolve(k, name, creat)
  PROVE  VfsInv'
<1>1. call[k] = Idle /\ UNCHANGED <<nodes, fd_table, holds>>  BY Zenon DEF OpenResolve
<1>2. call[k].at = "idle"  BY <1>1 DEF Idle
<1>3. NodesOK' /\ NamesKept /\ Known' = Known  BY <1>1, NodesSame, Zenon DEF VfsInv
<1>4. PICK c \in Calls : /\ c.at # "fill" /\ (c.at = "alloc" => c.node \in Known)
                         /\ call' = [call EXCEPT ![k] = c]
  <2>1. CASE \E n \in Lookup(name) : call' = [call EXCEPT ![k] = [at |-> "alloc", node |-> n]]
    <3>1. PICK n \in Lookup(name) : call' = [call EXCEPT ![k] = [at |-> "alloc", node |-> n]]  BY <2>1, Zenon
    <3>2. n \in Known  BY LookupKnown, Zenon
    <3>3. n \in Int  BY <3>2 DEF Known, RootNode, VfsInv, NodesOK
    <3>4. [at |-> "alloc", node |-> n] \in Calls  BY <3>3, Zenon DEF Calls
    <3> QED  BY <3>1, <3>2, <3>4, Zenon
  <2>2. CASE Lookup(name) = {} /\ call' = [call EXCEPT ![k] = [at |-> "create", name |-> name]]
    <3>1. name \in Names  BY <2>2, Zenon DEF Lookup
    <3>2. [at |-> "create", name |-> name] \in Calls  BY <3>1, Zenon DEF Calls
    <3> QED  BY <2>2, <3>2, Zenon
  <2> QED  BY <2>1, <2>2, Zenon DEF OpenResolve
<1>5. /\ call' \in [Callers -> Calls] /\ UNCHANGED Opening /\ \A l \in Opening : call'[l] = call[l]
      /\ \A l \in Callers : call'[l].at \in {"alloc", "fill"} => call'[l].node \in Known'
  BY <1>2, <1>3, <1>4, CallMoves, Zenon
<1>6. TypesOK'  BY <1>1, <1>3, <1>5, SameTable, Zenon
<1>7. OneOwner' /\ HandlesSound' /\ IsFiniteSet(Opening)' /\ IsFiniteSet(Handles)'
  BY <1>1, <1>3, <1>5, OwnersKept, Zenon
<1> QED  BY <1>3, <1>6, <1>7, Zenon DEF VfsInv

\* A new file, of a name that no file has.
LEMMA CreateNodes ==
  ASSUME NodesOK, NEW name \in Names, CanCreate(name), nodes' = Append(nodes, NewFile(name))
  PROVE  /\ NodesOK' /\ NamesKept /\ DOMAIN nodes' = DOMAIN nodes \cup {Len(nodes) + 1}
         /\ Len(nodes) + 1 \in Known' /\ Len(nodes) + 1 \notin DOMAIN nodes
         /\ nodes'[Len(nodes) + 1] = NewFile(name)
         /\ \A n \in DOMAIN nodes : nodes'[n] = nodes[n] /\ nodes[n].name # name
<1> DEFINE new == NewFile(name)  last == Len(nodes) + 1
<1>1. new \in Files /\ new.name = name /\ new.size = 0 /\ new.data = << >>  BY DEF NewFile, Files
<1>2. nodes \in Seq(Files) /\ Len(nodes) \in Nat  BY DEF NodesOK
<1> HIDE DEF new
<1>3. /\ nodes' \in Seq(Files) /\ Len(nodes') = last /\ nodes'[last] = new
      /\ \A n \in 1 .. Len(nodes) : nodes'[n] = nodes[n]
  BY <1>1, <1>2 DEF new
<1>4. DOMAIN nodes = 1 .. Len(nodes) /\ DOMAIN nodes' = 1 .. last  BY <1>2, <1>3
<1>5. DOMAIN nodes' = DOMAIN nodes \cup {last} /\ last \notin DOMAIN nodes  BY <1>2, <1>4
<1>6. \A n \in DOMAIN nodes : nodes'[n] = nodes[n]  BY <1>3, <1>4, Zenon
<1>7. \A n \in DOMAIN nodes : nodes[n].name # name
  BY LookupNamed, Zenon DEF CanCreate, Named
<1>8. \A n \in DOMAIN nodes' : FileOK(nodes'[n])
  <2>1. FileOK(new)  BY <1>1 DEF FileOK
  <2>2. \A n \in DOMAIN nodes : FileOK(nodes[n])  BY Zenon DEF NodesOK
  <2> QED  BY <1>3, <1>5, <1>6, <2>1, <2>2, Zenon
<1>9. \A m, n \in DOMAIN nodes' : nodes'[m].name = nodes'[n].name => m = n
  BY <1>1, <1>3, <1>5, <1>6, <1>7 DEF NodesOK
<1>10. NodesOK'  BY <1>3, <1>8, <1>9, Zenon DEF NodesOK
<1>11. NamesKept  BY <1>3, <1>5, <1>6, Zenon DEF NamesKept
<1>12. last \in Known'  BY <1>5, Zenon DEF Known
<1> QED  BY <1>3, <1>5, <1>6, <1>7, <1>10, <1>11, <1>12, ZenonT(60) DEF new

LEMMA CreateInv ==
  ASSUME VfsInv, NEW k \in Callers, OpenCreate(k)
  PROVE  VfsInv'
<1>1. call[k].at = "create" /\ call[k].name \in Names /\ UNCHANGED <<fd_table, holds>>
  BY CallFacts, Zenon DEF OpenCreate, VfsInv
<1>2. NodesOK' /\ NamesKept /\ \E c \in Calls :
         c.at # "fill" /\ (c.at = "alloc" => c.node \in Known') /\ call' = [call EXCEPT ![k] = c]
  <2>1. CASE /\ CanCreate(call[k].name) /\ nodes' = Append(nodes, NewFile(call[k].name))
             /\ call' = [call EXCEPT ![k] = [at |-> "alloc", node |-> Len(nodes) + 1]]
    <3>1. NodesOK' /\ NamesKept /\ Len(nodes) + 1 \in Known'  BY <1>1, <2>1, CreateNodes, Zenon DEF VfsInv
    <3>2. [at |-> "alloc", node |-> Len(nodes) + 1] \in Calls  BY DEF Calls, VfsInv, NodesOK
    <3> QED  BY <2>1, <3>1, <3>2, Zenon
  <2>2. CASE call' = [call EXCEPT ![k] = Idle] /\ UNCHANGED nodes
    <3>1. Idle \in Calls /\ Idle.at = "idle"  BY Zenon DEF Calls, Idle
    <3> QED  BY <2>2, <3>1, NodesSame, Zenon DEF VfsInv
  <2> QED  BY <2>1, <2>2, Zenon DEF OpenCreate
<1>3. /\ call' \in [Callers -> Calls] /\ UNCHANGED Opening /\ \A l \in Opening : call'[l] = call[l]
      /\ \A l \in Callers : call'[l].at \in {"alloc", "fill"} => call'[l].node \in Known'
  BY <1>1, <1>2, CallMoves, Zenon
<1>4. TypesOK'  BY <1>1, <1>2, <1>3, SameTable, Zenon
<1>5. OneOwner' /\ HandlesSound' /\ IsFiniteSet(Opening)' /\ IsFiniteSet(Handles)'
  BY <1>1, <1>2, <1>3, OwnersKept, Zenon
<1> QED  BY <1>2, <1>4, <1>5, Zenon DEF VfsInv

\* A free descriptor goes to the caller, and is counted with it.
LEMMA AllocInv ==
  ASSUME VfsInv, NEW k \in Callers, OpenAlloc(k)
  PROVE  VfsInv'
<1>1. call[k].at = "alloc" /\ call[k].node \in Known /\ call[k].node \in Int /\ UNCHANGED <<nodes, holds>>
  BY CallFacts, Zenon DEF OpenAlloc, VfsInv
<1>2. NodesOK' /\ NamesKept /\ Known' = Known  BY <1>1, NodesSame, Zenon DEF VfsInv
<1>3. CASE call' = [call EXCEPT ![k] = Idle] /\ UNCHANGED fd_table
  <2>1. Idle \in Calls /\ Idle.at = "idle"  BY Zenon DEF Calls, Idle
  <2>2. /\ call' \in [Callers -> Calls] /\ UNCHANGED Opening /\ \A l \in Opening : call'[l] = call[l]
        /\ \A l \in Callers : call'[l].at \in {"alloc", "fill"} => call'[l].node \in Known'
    BY <1>1, <1>2, <1>3, <2>1, CallMoves, Zenon
  <2>3. TypesOK'  BY <1>1, <1>2, <1>3, <2>2, SameTable, Zenon
  <2>4. OneOwner' /\ HandlesSound' /\ IsFiniteSet(Opening)' /\ IsFiniteSet(Handles)'
    BY <1>1, <1>2, <1>3, <2>2, OwnersKept, Zenon
  <2> QED  BY <1>2, <2>3, <2>4, Zenon DEF VfsInv
<1>4. ASSUME NEW fd \in LowestFree,
             fd_table' = [fd_table EXCEPT ![fd] = [used |-> TRUE, vnode |-> Nobody, offset |-> 0]],
             call' = [call EXCEPT ![k] = [at |-> "fill", node |-> call[k].node, fd |-> fd]]
      PROVE  VfsInv'
  <2> DEFINE c == [at |-> "fill", node |-> call[k].node, fd |-> fd]
             e == [used |-> TRUE, vnode |-> Nobody, offset |-> 0]
  <2>1. fd \in Fds /\ ~fd_table[fd].used  BY Zenon DEF LowestFree, FreeFds
  <2>2. c \in Calls /\ c.at = "fill" /\ c.node = call[k].node /\ c.fd = fd  BY <1>1, <2>1, Zenon DEF Calls
  <2>3. e \in [used : BOOLEAN, vnode : Int, offset : Nat] /\ e.used /\ e.vnode = Nobody  BY DEF Nobody
  <2> HIDE DEF c, e
  <2>4. /\ call' \in [Callers -> Calls] /\ call'[k] = c /\ \A l \in Callers : l # k => call'[l] = call[l]
    BY <1>4, <2>2, Zenon DEF VfsInv, TypesOK, c
  <2>5. /\ fd_table' \in [Fds -> [used : BOOLEAN, vnode : Int, offset : Nat]] /\ fd_table'[fd] = e
        /\ \A f \in Fds : f # fd => fd_table'[f] = fd_table[f]
    BY <1>4, <2>1, <2>3, Zenon DEF VfsInv, TypesOK, e
  <2>6. Opening' = Opening \cup {k} /\ k \notin Opening  BY <1>1, <2>2, <2>4, Zenon DEF Opening
  <2>7. InUse' = InUse \cup {fd} /\ fd \notin InUse  BY <2>1, <2>3, <2>5, Zenon DEF InUse
  <2>8. Handles' = Handles  BY <1>1, Zenon DEF Handles
  <2>9. \A l \in Callers : call'[l].at \in {"alloc", "fill"} => call'[l].node \in Known'
    BY <1>1, <1>2, <2>2, <2>4, ZenonT(60) DEF VfsInv, TypesOK
  <2>10. \A f \in Fds : fd_table'[f].used => fd_table'[f].vnode \in Known' \cup {Nobody}
    BY <1>2, <2>3, <2>5, Zenon DEF VfsInv, TypesOK
  <2>11. TypesOK'  BY <1>1, <2>4, <2>5, <2>9, <2>10, ZenonT(60) DEF VfsInv, TypesOK
  \* Nobody had the descriptor before.
  <2>12. \A l \in Callers : \A h \in holds[l] : h.fd # fd /\ h.fd \in Fds
    BY <2>1 DEF VfsInv, HandlesSound, Leads, TypesOK
  <2>13. \A l \in Opening : l \in Callers /\ call[l].fd # fd /\ call[l].fd \in Fds /\ call'[l] = call[l]
    BY <2>1, <2>4, <2>6, CallFacts, Zenon DEF VfsInv, HandlesSound, Reserved, Opening
  <2>14. OneOwner'
    <3>1. \A l, m \in Opening' : call'[l].fd = call'[m].fd => l = m
      BY <2>2, <2>4, <2>6, <2>13 DEF VfsInv, OneOwner
    <3> QED  BY <1>1, <3>1 DEF VfsInv, OneOwner
  <2>15. ASSUME NEW l \in Callers, NEW h \in holds[l] PROVE Leads(h)'
    <3>1. fd_table'[h.fd] = fd_table[h.fd]  BY <2>5, <2>12, Zenon
    <3>2. Leads(h)  BY Zenon DEF VfsInv, HandlesSound
    <3> QED  BY <1>1, <3>1, <3>2, Zenon DEF Leads, NameOf
  <2>16. ASSUME NEW l \in Opening' PROVE Reserved(call[l].fd)'
    <3>1. CASE l = k  BY <2>2, <2>3, <2>4, <2>5, <3>1, Zenon DEF Reserved
    <3>2. CASE l \in Opening
      <4>1. fd_table'[call[l].fd] = fd_table[call[l].fd] /\ call'[l] = call[l]  BY <2>5, <2>13, <3>2, Zenon
      <4>2. Reserved(call[l].fd)  BY <3>2, Zenon DEF VfsInv, HandlesSound
      <4> QED  BY <4>1, <4>2, Zenon DEF Reserved
    <3> QED  BY <2>6, <3>1, <3>2, Zenon
  <2>17. Cardinality(InUse') = Cardinality(InUse) + 1 /\ Cardinality(InUse) \in Nat
    BY <2>7, InUseFinite, FS_AddElement, FS_CardinalityType, Zenon
  <2>18. Cardinality(Opening') = Cardinality(Opening) + 1 /\ IsFiniteSet(Opening') /\ Cardinality(Opening) \in Nat
    BY <2>6, FS_AddElement, FS_CardinalityType, Zenon DEF VfsInv
  <2>19. Cardinality(Handles) \in Nat  BY FS_CardinalityType, Zenon DEF VfsInv
  <2>20. Cardinality(InUse') = Cardinality(Opening') + Cardinality(Handles')
    BY <2>8, <2>17, <2>18, <2>19 DEF VfsInv, HandlesSound
  <2>21. HandlesSound'  BY <1>1, <2>15, <2>16, <2>20, Zenon DEF HandlesSound
  <2> QED  BY <1>2, <2>8, <2>11, <2>14, <2>18, <2>21, ZenonT(60) DEF VfsInv
<1> QED  BY <1>3, <1>4, Zenon DEF OpenAlloc

\* The caller that was opening the descriptor now holds it.
LEMMA FillInv ==
  ASSUME VfsInv, NEW k \in Callers, OpenFill(k)
  PROVE  VfsInv'
<1> DEFINE fd == call[k].fd  n == call[k].node  new == [fd |-> fd, name |-> NameOf(n)]
<1>1. call[k].at = "fill" /\ n \in Known /\ n \in Int /\ fd \in Fds /\ UNCHANGED nodes
  BY CallFacts, Zenon DEF OpenFill, VfsInv
<1>2. /\ fd_table' = [fd_table EXCEPT ![fd].vnode = n, ![fd].offset = 0]
      /\ holds' = [holds EXCEPT ![k] = holds[k] \cup {new}]
      /\ call' = [call EXCEPT ![k] = Idle]
  BY Zenon DEF OpenFill
<1>3. NodesOK' /\ NamesKept /\ Known' = Known  BY <1>1, NodesSame, Zenon DEF VfsInv
<1>4. n # Nobody  BY <1>1 DEF Known, Nobody, RootNode, VfsInv, NodesOK
<1>5. NameOf(n) \in Names \cup {"/"}
  <2>1. \A m \in DOMAIN nodes : nodes[m].name \in Names  BY NodeFacts, Zenon DEF VfsInv
  <2> QED  BY <1>1, <2>1, Zenon DEF Known, NameOf
<1>6. new.fd = fd /\ new.name = NameOf(n) /\ new \in [fd : Fds, name : Names \cup {"/"}]  BY <1>1, <1>5, Zenon
<1>7. k \in Opening  BY <1>1, Zenon DEF Opening
<1>8. Reserved(fd)  BY <1>7, Zenon DEF VfsInv, HandlesSound
<1> HIDE DEF new, fd, n
<1>9. /\ fd_table' \in [Fds -> [used : BOOLEAN, vnode : Int, offset : Nat]]
      /\ fd_table'[fd].used /\ fd_table'[fd].vnode = n
      /\ \A f \in Fds : f # fd => fd_table'[f] = fd_table[f]
  <2>1. fd_table \in [Fds -> [used : BOOLEAN, vnode : Int, offset : Nat]] /\ fd_table[fd].used
    BY <1>8, Zenon DEF VfsInv, TypesOK, Reserved
  <2> QED  BY <1>1, <1>2, <2>1, ZenonT(60)
<1>10. /\ holds' \in [Callers -> SUBSET [fd : Fds, name : Names \cup {"/"}]]
       /\ holds'[k] = holds[k] \cup {new} /\ \A l \in Callers : l # k => holds'[l] = holds[l]
  BY <1>2, <1>6, Zenon DEF VfsInv, TypesOK
<1>11. Idle \in Calls /\ Idle.at = "idle"  BY Zenon DEF Calls, Idle
<1>12. call' \in [Callers -> Calls] /\ call'[k] = Idle /\ \A l \in Callers : l # k => call'[l] = call[l]
  BY <1>2, <1>11, Zenon DEF VfsInv, TypesOK
<1>13. Opening' = Opening \ {k}  BY <1>11, <1>12, Zenon DEF Opening
\* The descriptors that others have are other ones.
<1>14. \A l \in Callers : \A h \in holds[l] : h.fd # fd /\ h.fd \in Fds
  BY <1>8 DEF VfsInv, HandlesSound, Leads, Reserved, TypesOK
<1>15. \A l \in Opening : l \in Callers /\ call[l].fd \in Fds /\ (l # k => call[l].fd # fd)
  BY <1>7, CallFacts, Zenon DEF VfsInv, OneOwner, Opening, fd
<1>16. InUse' = InUse
  <2>1. fd_table[fd].used  BY <1>8, Zenon DEF Reserved
  <2> QED  BY <1>9, <2>1, Zenon DEF InUse
<1>17. Handles' = Handles \cup {<<k, new>>} /\ <<k, new>> \notin Handles
  <2>1. <<k, new>> \notin Handles  BY <1>6, <1>14, HandlesMembers, Zenon
  <2>2. \A p : p \in Handles' <=> \E l \in Callers : \E h \in holds'[l] : p = <<l, h>>  BY DEF Handles
  <2>3. \A p : p \in Handles <=> \E l \in Callers : \E h \in holds[l] : p = <<l, h>>  BY DEF Handles
  <2>4. \A p : p \in Handles' <=> p \in Handles \/ p = <<k, new>>  BY <1>10, <2>2, <2>3, ZenonT(60)
  <2> QED  BY <2>1, <2>4, Zenon
<1>18. \A l \in Callers : call'[l].at \in {"alloc", "fill"} => call'[l].node \in Known'
  BY <1>3, <1>11, <1>12, Zenon DEF VfsInv, TypesOK
<1>19. \A f \in Fds : fd_table'[f].used => fd_table'[f].vnode \in Known' \cup {Nobody}
  BY <1>1, <1>3, <1>9, Zenon DEF VfsInv, TypesOK
<1>20. TypesOK'  BY <1>9, <1>10, <1>12, <1>18, <1>19, Zenon DEF TypesOK
<1>21. OneOwner'
  <2>1. \A l \in Callers : \A h \in holds'[l] : h \in holds[l] \/ (l = k /\ h = new)  BY <1>10, Zenon
  <2>2. \A l, m \in Callers : \A h \in holds'[l], g \in holds'[m] : h.fd = g.fd => l = m /\ h = g
    BY <1>6, <1>14, <2>1 DEF VfsInv, OneOwner
  <2>3. \A l, m \in Opening' : call'[l].fd = call'[m].fd => l = m
    BY <1>12, <1>13, <1>15 DEF VfsInv, OneOwner
  <2> QED  BY <2>2, <2>3, Zenon DEF OneOwner
<1>22. ASSUME NEW l \in Callers, NEW h \in holds'[l] PROVE Leads(h)'
  <2>1. CASE h \in holds[l]
    <3>1. fd_table'[h.fd] = fd_table[h.fd]  BY <1>9, <1>14, <2>1, Zenon
    <3>2. Leads(h)  BY <2>1, Zenon DEF VfsInv, HandlesSound
    <3> QED  BY <1>1, <3>1, <3>2, Zenon DEF Leads, NameOf
  <2>2. CASE h = new
    <3>1. (IF n = RootNode THEN "/" ELSE nodes'[n].name) = h.name  BY <1>1, <1>6, <2>2, Zenon DEF NameOf
    <3>2. h.fd = fd  BY <1>6, <2>2, Zenon
    <3> QED  BY <1>4, <1>9, <3>1, <3>2, Zenon DEF Leads, NameOf
  <2> QED  BY <1>10, <2>1, <2>2, Zenon
<1>23. ASSUME NEW l \in Opening' PROVE Reserved(call[l].fd)'
  <2>1. fd_table'[call[l].fd] = fd_table[call[l].fd] /\ call'[l] = call[l]
    BY <1>9, <1>12, <1>13, <1>15, Zenon
  <2>2. Reserved(call[l].fd)  BY <1>13, Zenon DEF VfsInv, HandlesSound
  <2> QED  BY <2>1, <2>2, Zenon DEF Reserved
<1>24. Cardinality(Handles') = Cardinality(Handles) + 1 /\ IsFiniteSet(Handles') /\ Cardinality(Handles) \in Nat
  BY <1>17, FS_AddElement, FS_CardinalityType, Zenon DEF VfsInv
<1>25. Cardinality(Opening') = Cardinality(Opening) - 1 /\ IsFiniteSet(Opening') /\ Cardinality(Opening) \in Nat
  BY <1>7, <1>13, FS_RemoveElement, FS_CardinalityType, Zenon DEF VfsInv
<1>26. Cardinality(InUse') = Cardinality(Opening') + Cardinality(Handles')
  BY <1>16, <1>24, <1>25 DEF VfsInv, HandlesSound
<1>27. HandlesSound'  BY <1>22, <1>23, <1>26, Zenon DEF HandlesSound
<1> QED  BY <1>3, <1>20, <1>21, <1>24, <1>25, <1>27, ZenonT(60) DEF VfsInv

-----------------------------------------------------------------------------
(* Open files *)

\* fs_close gives back one descriptor, the one that the caller had.
LEMMA CloseInv ==
  ASSUME VfsInv, NEW k \in Callers, NEW h \in holds[k], FsClose(k, h)
  PROVE  VfsInv'
<1>1. UNCHANGED <<nodes, call>> /\ fd_table' = [fd_table EXCEPT ![h.fd] = Unused]
  BY Zenon DEF FsClose
<1>2. holds' = [holds EXCEPT ![k] = holds[k] \ {h}]  BY Zenon DEF FsClose
<1>3. NodesOK' /\ NamesKept /\ Known' = Known  BY <1>1, NodesSame, Zenon DEF VfsInv
<1>4. Unused \in [used : BOOLEAN, vnode : Int, offset : Nat] /\ ~Unused.used  BY DEF Unused, Nobody
<1>5. h.fd \in Fds /\ Leads(h)  BY DEF VfsInv, TypesOK, HandlesSound
<1>6. /\ fd_table' \in [Fds -> [used : BOOLEAN, vnode : Int, offset : Nat]]
      /\ fd_table'[h.fd] = Unused /\ \A f \in Fds : f # h.fd => fd_table'[f] = fd_table[f]
  BY <1>1, <1>4, <1>5, Zenon DEF VfsInv, TypesOK
<1>7. /\ holds' \in [Callers -> SUBSET [fd : Fds, name : Names \cup {"/"}]]
      /\ holds'[k] = holds[k] \ {h} /\ \A l \in Callers : l # k => holds'[l] = holds[l]
  BY <1>2, Zenon DEF VfsInv, TypesOK
<1>8. \A l \in Callers : holds'[l] \subseteq holds[l]  BY <1>7, Zenon
<1>9. \A l \in Callers : \A g \in holds'[l] : g.fd # h.fd /\ g.fd \in Fds
  BY <1>7, <1>8 DEF VfsInv, OneOwner, TypesOK
<1>10. Opening' = Opening  BY <1>1, Zenon DEF Opening
<1>11. \A l \in Opening : call[l].fd # h.fd /\ call[l].fd \in Fds
  BY <1>5, CallFacts, ZenonT(60) DEF VfsInv, HandlesSound, Leads, Reserved, Opening
<1>12. InUse' = InUse \ {h.fd} /\ h.fd \in InUse
  BY <1>4, <1>5, <1>6, Zenon DEF InUse, Leads
<1>13. Handles' = Handles \ {<<k, h>>} /\ <<k, h>> \in Handles
  <2>1. <<k, h>> \in Handles  BY HandlesMembers, Zenon
  <2>2. \A p : p \in Handles' <=> \E l \in Callers : \E g \in holds'[l] : p = <<l, g>>  BY DEF Handles
  <2>3. \A p : p \in Handles <=> \E l \in Callers : \E g \in holds[l] : p = <<l, g>>  BY DEF Handles
  <2>4. \A p : p \in Handles' <=> p \in Handles /\ p # <<k, h>>  BY <1>7, <2>2, <2>3
  <2> QED  BY <2>1, <2>4, Zenon
<1>14. TypesOK'
  <2>1. \A f \in Fds : fd_table'[f].used => fd_table'[f].vnode \in Known' \cup {Nobody}
    BY <1>3, <1>4, <1>6, Zenon DEF VfsInv, TypesOK
  <2> QED  BY <1>1, <1>3, <1>6, <1>7, <2>1, Zenon DEF VfsInv, TypesOK
<1>15. OneOwner'  BY <1>1, <1>8, <1>10, ZenonT(60) DEF VfsInv, OneOwner
<1>16. ASSUME NEW l \in Callers, NEW g \in holds'[l] PROVE Leads(g)'
  <2>1. fd_table'[g.fd] = fd_table[g.fd]  BY <1>6, <1>9, Zenon
  <2>2. Leads(g)  BY <1>8, Zenon DEF VfsInv, HandlesSound
  <2> QED  BY <1>1, <2>1, <2>2, Zenon DEF Leads, NameOf
<1>17. ASSUME NEW l \in Opening PROVE Reserved(call[l].fd)'
  <2>1. fd_table'[call[l].fd] = fd_table[call[l].fd]  BY <1>6, <1>11, Zenon
  <2>2. Reserved(call[l].fd)  BY Zenon DEF VfsInv, HandlesSound
  <2> QED  BY <1>1, <2>1, <2>2, Zenon DEF Reserved
<1>18. Cardinality(Handles') = Cardinality(Handles) - 1 /\ IsFiniteSet(Handles') /\ Cardinality(Handles) \in Nat
  BY <1>13, FS_RemoveElement, FS_CardinalityType, Zenon DEF VfsInv
<1>19. Cardinality(InUse') = Cardinality(InUse) - 1 /\ Cardinality(InUse) \in Nat
  BY <1>12, InUseFinite, FS_RemoveElement, FS_CardinalityType, Zenon
<1>20. Cardinality(Opening) \in Nat  BY FS_CardinalityType, Zenon DEF VfsInv
<1>21. Cardinality(InUse') = Cardinality(Opening') + Cardinality(Handles')
  BY <1>10, <1>18, <1>19, <1>20 DEF VfsInv, HandlesSound
<1>22. HandlesSound'  BY <1>10, <1>16, <1>17, <1>21, Zenon DEF HandlesSound
<1> QED  BY <1>3, <1>10, <1>14, <1>15, <1>18, <1>22, ZenonT(60) DEF VfsInv

\* A step that only moves the offset of one descriptor, and keeps the names of the files.
LEMMA OffsetInv ==
  ASSUME VfsInv, NodesOK', NamesKept, NEW fd \in Fds, NEW next \in Nat,
         fd_table' = [fd_table EXCEPT ![fd].offset = next], UNCHANGED <<call, holds>>
  PROVE  VfsInv'
<1>1. fd_table \in [Fds -> [used : BOOLEAN, vnode : Int, offset : Nat]]  BY Zenon DEF VfsInv, TypesOK
<1>2. /\ fd_table' \in [Fds -> [used : BOOLEAN, vnode : Int, offset : Nat]]
      /\ \A f \in Fds : fd_table'[f].used = fd_table[f].used /\ fd_table'[f].vnode = fd_table[f].vnode
  BY <1>1, Zenon
<1>3. Opening' = Opening  BY Zenon DEF Opening
<1>4. OneOwner' /\ HandlesSound' /\ IsFiniteSet(Opening)' /\ IsFiniteSet(Handles)'
  BY <1>2, <1>3, OwnersKept, Zenon
<1>5. TypesOK'  BY <1>2, NamesKeptFacts, Zenon DEF VfsInv, TypesOK
<1> QED  BY <1>4, <1>5, Zenon DEF VfsInv

LEMMA ReadInv ==
  ASSUME VfsInv, NEW fd \in Fds, NEW len \in 0 .. MaxLen, FsRead(fd, len)
  PROVE  VfsInv'
<1> DEFINE offset == fd_table[fd].offset  n == fd_table[fd].vnode  size == nodes[n].size
<1>1. n \in DOMAIN nodes /\ offset < size /\ UNCHANGED <<nodes, call, holds>>  BY Zenon DEF FsRead, IsFile
<1>2. offset \in Nat  BY FdFacts, Zenon DEF VfsInv
<1>3. size \in Nat  BY <1>1, NodeFacts, Zenon DEF VfsInv
<1>4. fd_table' = [fd_table EXCEPT ![fd].offset = offset + Smaller(len, size - offset)]  BY Zenon DEF FsRead
<1> HIDE DEF offset, n, size
<1>5. offset + Smaller(len, size - offset) \in Nat
  BY <1>1, <1>2, <1>3, VfsAssumption DEF Smaller
<1>6. NodesOK' /\ NamesKept  BY <1>1, NodesSame, Zenon DEF VfsInv
<1> QED  BY <1>1, <1>4, <1>5, <1>6, OffsetInv, Zenon

LEMMA LseekInv ==
  ASSUME VfsInv, NEW fd \in Fds, NEW next \in 0 .. MaxSize, FsLseek(fd, next)
  PROVE  VfsInv'
<1>1. fd_table' = [fd_table EXCEPT ![fd].offset = next] /\ UNCHANGED <<nodes, call, holds>>  BY Zenon DEF FsLseek
<1>2. NodesOK' /\ NamesKept  BY <1>1, NodesSame, Zenon DEF VfsInv
<1>3. next \in Nat  BY VfsAssumption
<1> QED  BY <1>1, <1>2, <1>3, OffsetInv, Zenon

\* A buffer holds a file, and nothing behind its end.
Holds(buffer, node) ==
  /\ buffer \in Seq(Contents) /\ node.size <= Len(buffer)
  /\ \A i \in 1 .. Len(buffer) : buffer[i] = IF i <= node.size THEN node.data[i] ELSE Stale

\* The buffer that tmpfs_reserve returns is long enough and holds the file, and nothing else.
LEMMA ReserveFacts ==
  ASSUME NEW node \in Files, FileOK(node), NEW need \in Nat, NEW buffer \in Reserve(node, need)
  PROVE  Holds(buffer, node) /\ need <= Len(buffer)
<1> USE DEF FileOK, Holds
<1>1. node.size \in Nat /\ node.data \in Seq(Contents) /\ Len(node.data) \in Nat  BY DEF Files
<1>2. \A i \in 1 .. Len(node.data) : node.data[i] \in Contents  BY <1>1
<1>3. Stale \in Contents  BY Zenon DEF Contents
<1>4. CASE need <= Len(node.data)
  <2>1. buffer = node.data  BY <1>4, Zenon DEF Reserve
  <2> QED  BY <1>1, <1>4, <2>1
<1>5. CASE ~(need <= Len(node.data))
  <2>1. PICK cap \in Grown(node, need) :
          buffer = [i \in 1 .. cap |-> IF i <= node.size THEN node.data[i] ELSE Stale]
    BY <1>5, Zenon DEF Reserve
  <2>2. cap \in Int /\ need <= cap
    <3> DEFINE start == IF node.data = << >> THEN FirstCap ELSE Len(node.data)
    <3>1. cap \in need .. start + 2 * need  BY <2>1, Zenon DEF Grown
    <3> QED  BY <1>1, <3>1, VfsAssumption
  <2>3. cap \in Nat /\ node.size <= cap  BY <1>1, <1>5, <2>2
  <2>4. \A i \in 1 .. cap : (IF i <= node.size THEN node.data[i] ELSE Stale) \in Contents
    BY <1>1, <1>2, <1>3
  <2>5. buffer \in Seq(Contents) /\ Len(buffer) = cap
    BY <2>1, <2>3, <2>4
  <2> QED  BY <2>1, <2>2, <2>3, <2>5, Zenon
<1> QED  BY <1>4, <1>5, Zenon

LEMMA StringsFacts ==
  ASSUME NEW bytes \in Strings
  PROVE  bytes \in Seq(Bytes) /\ Len(bytes) \in Nat /\ \A i \in 1 .. Len(bytes) : bytes[i] \in Contents
<1>1. PICK n \in 0 .. MaxLen : bytes \in [1 .. n -> Bytes]  BY Zenon DEF Strings
<1>2. n \in Nat  BY VfsAssumption
<1> QED  BY <1>1, <1>2 DEF Contents

\* The file after a write.
IsWritten(w, node, offset, bytes) ==
  /\ w \in Files /\ FileOK(w) /\ w.name = node.name /\ w.size = Larger(node.size, offset + Len(bytes))
  /\ \A i \in 1 .. Len(w.data) :
       w.data[i] = IF offset < i /\ i <= offset + Len(bytes) THEN bytes[i - offset]
                   ELSE IF i <= node.size THEN node.data[i] ELSE Stale

LEMMA WrittenFacts ==
  ASSUME NEW node \in Files, NEW buffer, Holds(buffer, node), NEW offset \in Nat, NEW bytes \in Strings,
         offset + Len(bytes) <= Len(buffer)
  PROVE  IsWritten(Written(node, buffer, offset, bytes), node, offset, bytes)
<1> DEFINE end == offset + Len(bytes)
           Byte(i) == IF offset < i /\ i <= end THEN bytes[i - offset] ELSE buffer[i]
           data == [i \in 1 .. Len(buffer) |-> Byte(i)]
           w == Written(node, buffer, offset, bytes)
<1>0. /\ buffer \in Seq(Contents) /\ node.size <= Len(buffer)
      /\ \A i \in 1 .. Len(buffer) : buffer[i] = IF i <= node.size THEN node.data[i] ELSE Stale
  BY Zenon DEF Holds
<1>1. bytes \in Seq(Bytes) /\ Len(bytes) \in Nat /\ \A i \in 1 .. Len(bytes) : bytes[i] \in Contents
  BY StringsFacts, Zenon
<1>2. node.size \in Nat /\ node.name \in Names /\ Len(buffer) \in Nat /\ end \in Nat  BY <1>0, <1>1 DEF Files
<1>3. \A i \in 1 .. Len(buffer) : Byte(i) \in Contents
  <2>1. \A i \in 1 .. Len(buffer) : buffer[i] \in Contents  BY <1>0
  <2>2. ASSUME NEW i \in 1 .. Len(buffer), offset < i, i <= end PROVE bytes[i - offset] \in Contents
    <3>1. i - offset \in 1 .. Len(bytes)  BY <1>1, <1>2, <2>2
    <3> QED  BY <1>1, <3>1, Zenon
  <2> QED  BY <2>1, <2>2, Zenon
<1>4. w = [name |-> node.name, size |-> Larger(node.size, end), data |-> data]  BY Zenon DEF Written
<1> HIDE DEF Byte, end, w
<1>5. data \in Seq(Contents) /\ Len(data) = Len(buffer) /\ \A i \in 1 .. Len(buffer) : data[i] = Byte(i)
  BY <1>2, <1>3
<1> HIDE DEF data
<1>6. /\ Larger(node.size, end) \in Nat /\ Larger(node.size, end) <= Len(buffer)
      /\ \A i \in Int : i > Larger(node.size, end) => i > end /\ i > node.size
  BY <1>0, <1>2 DEF Larger, end
<1>7. /\ w \in Files /\ w.name = node.name /\ w.size = Larger(node.size, end) /\ w.data = data
  BY <1>2, <1>4, <1>5, <1>6, Zenon DEF Files
<1>8. \A i \in 1 .. Len(buffer) :
        data[i] = IF offset < i /\ i <= end THEN bytes[i - offset]
                  ELSE IF i <= node.size THEN node.data[i] ELSE Stale
  BY <1>0, <1>5 DEF Byte
<1>9. \A i \in 1 .. Len(buffer) : i > Larger(node.size, end) => data[i] = Stale
  <2> SUFFICES ASSUME NEW i \in 1 .. Len(buffer), i > Larger(node.size, end) PROVE data[i] = Stale
    BY Zenon
  <2>1. i > end /\ i > node.size /\ i \in Int  BY <1>2, <1>6
  <2>2. ~(i <= end) /\ ~(i <= node.size)  BY <1>2, <2>1
  <2> QED  BY <1>8, <2>2, Zenon
<1>10. FileOK(w)  BY <1>5, <1>6, <1>7, <1>9, Zenon DEF FileOK
<1>11. \A i \in 1 .. Len(w.data) :
         w.data[i] = IF offset < i /\ i <= offset + Len(bytes) THEN bytes[i - offset]
                     ELSE IF i <= node.size THEN node.data[i] ELSE Stale
  BY <1>5, <1>7, <1>8, Zenon DEF end
<1>12. IsWritten(w, node, offset, bytes)  BY <1>7, <1>10, <1>11, Zenon DEF IsWritten, end
<1> QED  BY <1>12, Zenon DEF w

\* What fs_write does to the files.
WriteFacts(fd, n, bytes) ==
  /\ n \in DOMAIN nodes /\ DOMAIN nodes' = DOMAIN nodes /\ nodes' \in Seq(Files)
  /\ \A m \in DOMAIN nodes : m # n => nodes'[m] = nodes[m]
  /\ IsWritten(nodes'[n], nodes[n], fd_table[fd].offset, bytes)

LEMMA WriteNodes ==
  ASSUME VfsInv, NEW fd \in Fds, NEW bytes \in Strings, FsWrite(fd, bytes)
  PROVE  WriteFacts(fd, fd_table[fd].vnode, bytes)
<1> DEFINE n == fd_table[fd].vnode  offset == fd_table[fd].offset  need == offset + Len(bytes)
<1>1. n \in DOMAIN nodes  BY Zenon DEF FsWrite, IsFile
<1>2. offset \in Nat  BY FdFacts, Zenon DEF VfsInv
<1>3. need \in Nat  BY <1>2, StringsFacts
<1>4. PICK buffer \in Reserve(nodes[n], need) :
        nodes' = [nodes EXCEPT ![n] = Written(nodes[n], buffer, offset, bytes)]
  BY Zenon DEF FsWrite
<1> DEFINE w == Written(nodes[n], buffer, offset, bytes)
<1>5. nodes[n] \in Files /\ FileOK(nodes[n])  BY <1>1, NodeFacts, Zenon DEF VfsInv
<1> HIDE DEF n, offset
<1>6. Holds(buffer, nodes[n]) /\ need <= Len(buffer)  BY <1>3, <1>4, <1>5, ReserveFacts, Zenon
<1>7. IsWritten(w, nodes[n], offset, bytes)  BY <1>2, <1>5, <1>6, WrittenFacts, Zenon
<1>8. w \in Files  BY <1>7, Zenon DEF IsWritten
<1>9. nodes \in Seq(Files)  BY Zenon DEF VfsInv, NodesOK
<1>10. nodes' = [nodes EXCEPT ![n] = w]  BY <1>4, Zenon
<1> HIDE DEF w, need
<1>11. /\ nodes' \in Seq(Files) /\ DOMAIN nodes' = DOMAIN nodes /\ nodes'[n] = w
       /\ \A m \in DOMAIN nodes : m # n => nodes'[m] = nodes[m]
  BY <1>1, <1>8, <1>9, <1>10
<1> QED  BY <1>1, <1>7, <1>11, Zenon DEF WriteFacts, n, offset

LEMMA WriteInv ==
  ASSUME VfsInv, NEW fd \in Fds, NEW bytes \in Strings, FsWrite(fd, bytes)
  PROVE  VfsInv'
<1> DEFINE n == fd_table[fd].vnode
<1>1. WriteFacts(fd, n, bytes)  BY WriteNodes, Zenon
<1>2. /\ n \in DOMAIN nodes /\ DOMAIN nodes' = DOMAIN nodes /\ nodes' \in Seq(Files)
      /\ \A m \in DOMAIN nodes : m # n => nodes'[m] = nodes[m]
      /\ nodes'[n].name = nodes[n].name /\ FileOK(nodes'[n])
  BY <1>1, Zenon DEF WriteFacts, IsWritten
<1> HIDE DEF n
<1>3. \A m \in DOMAIN nodes : nodes'[m].name = nodes[m].name  BY <1>2, Zenon
<1>4. NamesKept  BY <1>2, <1>3, Zenon DEF NamesKept
<1>5. \A m \in DOMAIN nodes' : FileOK(nodes'[m])
  <2>1. \A m \in DOMAIN nodes : FileOK(nodes[m])  BY Zenon DEF VfsInv, NodesOK
  <2> QED  BY <1>2, <2>1, Zenon
<1>6. \A l, m \in DOMAIN nodes' : nodes'[l].name = nodes'[m].name => l = m
  BY <1>2, <1>3, Zenon DEF VfsInv, NodesOK
<1>7. NodesOK'  BY <1>2, <1>5, <1>6, Zenon DEF NodesOK
<1>8. fd_table[fd].offset + Len(bytes) \in Nat  BY FdFacts, StringsFacts DEF VfsInv
<1>9. /\ fd_table' = [fd_table EXCEPT ![fd].offset = fd_table[fd].offset + Len(bytes)]
      /\ UNCHANGED <<call, holds>>
  BY Zenon DEF FsWrite
<1> QED  BY <1>4, <1>7, <1>8, <1>9, OffsetInv, Zenon

-----------------------------------------------------------------------------

LEMMA VfsInitInv == Init => VfsInv
<1> SUFFICES ASSUME Init PROVE VfsInv
  BY Zenon
<1>1. NodesOK  BY DEF Init, NodesOK
<1>2. Idle \in Calls /\ Idle.at = "idle"  BY Zenon DEF Calls, Idle
<1>3. Unused \in [used : BOOLEAN, vnode : Int, offset : Nat] /\ ~Unused.used  BY DEF Unused, Nobody
<1>4. /\ \A fd \in Fds : fd_table[fd] = Unused
      /\ \A k \in Callers : call[k] = Idle /\ holds[k] = {}
  BY Zenon DEF Init
<1>5. TypesOK  BY <1>2, <1>3, <1>4, Zenon DEF Init, TypesOK
<1>6. Opening = {} /\ InUse = {}  BY <1>2, <1>3, <1>4, Zenon DEF Opening, InUse
<1>7. Handles = {}  BY <1>4, HandlesMembers, Zenon
<1>8. OneOwner  BY <1>4, <1>6, Zenon DEF OneOwner
<1>9. IsFiniteSet({}) /\ Cardinality({}) = 0  BY FS_EmptySet, Zenon
<1>10. HandlesSound  BY <1>4, <1>6, <1>7, <1>9 DEF HandlesSound
<1> QED  BY <1>1, <1>5, <1>6, <1>7, <1>8, <1>9, <1>10, Zenon DEF VfsInv

LEMMA VfsStepInv == VfsInv /\ [Next]_vars => VfsInv'
<1> SUFFICES ASSUME VfsInv, [Next]_vars PROVE VfsInv'
  BY Zenon
<1>1. ASSUME UNCHANGED vars PROVE VfsInv'
  <2>1. UNCHANGED <<nodes, fd_table, call, holds>>  BY <1>1, Zenon DEF vars
  <2>2. NodesOK' /\ NamesKept /\ Known' = Known  BY <2>1, NodesSame, Zenon DEF VfsInv
  <2>3. Opening' = Opening  BY <2>1, Zenon DEF Opening
  <2>4. TypesOK'  BY <2>1, <2>2, Zenon DEF VfsInv, TypesOK
  <2>5. OneOwner' /\ HandlesSound' /\ IsFiniteSet(Opening)' /\ IsFiniteSet(Handles)'
    BY <2>1, <2>2, <2>3, OwnersKept, Zenon
  <2> QED  BY <2>2, <2>4, <2>5, Zenon DEF VfsInv
<1>2. ASSUME NEW k \in Callers, NEW name \in Names \cup {"/"}, NEW creat \in BOOLEAN, OpenResolve(k, name, creat)
      PROVE VfsInv'
  BY <1>2, ResolveInv, Zenon
<1>3. ASSUME NEW k \in Callers, OpenCreate(k) PROVE VfsInv'  BY <1>3, CreateInv, Zenon
<1>4. ASSUME NEW k \in Callers, OpenAlloc(k) PROVE VfsInv'  BY <1>4, AllocInv, Zenon
<1>5. ASSUME NEW k \in Callers, OpenFill(k) PROVE VfsInv'  BY <1>5, FillInv, Zenon
<1>6. ASSUME NEW k \in Callers, NEW h \in holds[k], FsClose(k, h) PROVE VfsInv'  BY <1>6, CloseInv, Zenon
<1>7. ASSUME NEW fd \in Fds, NEW len \in 0 .. MaxLen, FsRead(fd, len) PROVE VfsInv'  BY <1>7, ReadInv, Zenon
<1>8. ASSUME NEW fd \in Fds, NEW next \in 0 .. MaxSize, FsLseek(fd, next) PROVE VfsInv'  BY <1>8, LseekInv, Zenon
<1>9. ASSUME NEW fd \in Fds, NEW bytes \in Strings, FsWrite(fd, bytes) PROVE VfsInv'  BY <1>9, WriteInv, Zenon
<1> QED  BY <1>1, <1>2, <1>3, <1>4, <1>5, <1>6, <1>7, <1>8, <1>9, Zenon DEF Next

\* HandlesSound holds for any callers and any sizes: whatever comes between the four steps of an fs_open,
\* a descriptor has one owner, leads to the file its owner named, and is not lost.
THEOREM VfsHandlesSound == Spec => []HandlesSound
<1>1. VfsInv => HandlesSound  BY Zenon DEF VfsInv
<1> QED  BY <1>1, VfsInitInv, VfsStepInv, PTL DEF Spec

-----------------------------------------------------------------------------
(* The file store that the nodes and descriptors implement *)

\* The bytes of a file.
FileOf(node) == SubSeq(node.data, 1, node.size)

LEMMA FileOfFacts ==
  ASSUME NEW node \in Files, FileOK(node)
  PROVE  /\ FileOf(node) \in Seq(Contents) /\ Len(FileOf(node)) = node.size /\ node.size \in Nat
         /\ \A i \in 1 .. node.size : FileOf(node)[i] = node.data[i]
         /\ FileOf(node) # Store!Missing
<1>1. node.size \in Nat /\ node.data \in Seq(Contents) /\ node.size <= Len(node.data)
  BY Zenon DEF Files, FileOK
<1>2. /\ FileOf(node) \in Seq(Contents) /\ Len(FileOf(node)) = node.size
      /\ \A i \in 1 .. node.size : FileOf(node)[i] = node.data[i]
  BY <1>1 DEF FileOf
<1>3. "missing" \notin Contents  BY VfsAssumption, Zenon DEF Contents, Stale
<1>4. ASSUME FileOf(node) = Store!Missing PROVE FALSE
  <2>1. FileOf(node) = <<"missing">>  BY <1>4, Zenon DEF Store!Missing
  <2>2. Len(FileOf(node)) = 1 /\ FileOf(node)[1] = "missing"  BY <2>1
  <2>3. FileOf(node)[1] \in Contents  BY <1>2, <2>2, SMTT(60)
  <2> QED  BY <1>3, <2>2, <2>3, Zenon
<1> QED  BY <1>1, <1>2, <1>4, Zenon

\* Names lead to the bytes of their files.
StoredRight ==
  /\ \A n \in DOMAIN nodes : StoredFile(nodes[n].name) = FileOf(nodes[n])
  /\ \A name \in Names : (\A n \in DOMAIN nodes : nodes[n].name # name) => StoredFile(name) = Store!Missing

LEMMA StoredFacts == NodesOK => StoredRight
<1> SUFFICES ASSUME NodesOK PROVE StoredRight
  BY Zenon
<1>1. ASSUME NEW n \in DOMAIN nodes PROVE StoredFile(nodes[n].name) = FileOf(nodes[n])
  <2>1. nodes[n].name \in Names  BY NodeFacts, Zenon
  <2>2. Lookup(nodes[n].name) = {n} /\ Named(nodes[n].name) # {}  BY <2>1, LookupNamed
  <2>3. (CHOOSE m \in {n} : TRUE) = n  BY Zenon
  <2> QED  BY <2>2, <2>3, Zenon DEF StoredFile, FileOf
<1>2. ASSUME NEW name \in Names, \A n \in DOMAIN nodes : nodes[n].name # name
      PROVE  StoredFile(name) = Store!Missing
  BY <1>2, Zenon DEF StoredFile, Named, Store!Missing
<1> QED  BY <1>1, <1>2, Zenon DEF StoredRight

LEMMA StoredNext == NodesOK' => StoredRight'
BY StoredFacts, PTL

\* The files change with the nodes only.
LEMMA StoredSame ==
  ASSUME UNCHANGED nodes
  PROVE  UNCHANGED StoredFiles
<1>1. \A name \in Names : StoredFile(name)' = StoredFile(name)
  BY DEF StoredFile, Lookup, Named
<1> QED  BY <1>1, Zenon DEF StoredFiles

LEMMA OpenFacts ==
  ASSUME VfsInv, NEW fd \in Fds
  PROVE  /\ OpenFiles[fd] = OpenFile(fd)
         /\ fd_table[fd].used /\ fd_table[fd].vnode # Nobody
            => /\ OpenFile(fd).name = NameOf(fd_table[fd].vnode) /\ OpenFile(fd).offset = fd_table[fd].offset
               /\ OpenFile(fd) # Store!Closed /\ NameOf(fd_table[fd].vnode) \in Names \cup {"/"}
               /\ OpenFile(fd) = [name |-> NameOf(fd_table[fd].vnode), offset |-> fd_table[fd].offset]
         /\ ~(fd_table[fd].used /\ fd_table[fd].vnode # Nobody) => OpenFile(fd) = Store!Closed
<1> DEFINE n == fd_table[fd].vnode
<1>1. OpenFiles[fd] = OpenFile(fd)  BY Zenon DEF OpenFiles
<1>2. ASSUME fd_table[fd].used, n # Nobody
      PROVE  /\ OpenFile(fd).name = NameOf(n) /\ OpenFile(fd).offset = fd_table[fd].offset
             /\ OpenFile(fd) # Store!Closed /\ NameOf(n) \in Names \cup {"/"}
             /\ OpenFile(fd) = [name |-> NameOf(n), offset |-> fd_table[fd].offset]
  <2>1. n \in Known  BY <1>2, Zenon DEF VfsInv, TypesOK
  <2>2. NameOf(n) \in Names \cup {"/"}
    <3>1. \A m \in DOMAIN nodes : nodes[m].name \in Names  BY NodeFacts, Zenon DEF VfsInv
    <3> QED  BY <2>1, <3>1, Zenon DEF Known, NameOf
  <2>3. OpenFile(fd) = [name |-> NameOf(n), offset |-> fd_table[fd].offset]  BY <1>2, Zenon DEF OpenFile
  <2>4. NameOf(n) # "closed"  BY <2>2, VfsAssumption, Zenon
  <2> HIDE DEF n
  <2>5. OpenFile(fd).name # Store!Closed.name  BY <2>3, <2>4 DEF Store!Closed
  <2> QED  BY <2>2, <2>3, <2>5
<1>3. ASSUME ~(fd_table[fd].used /\ n # Nobody) PROVE OpenFile(fd) = Store!Closed
  BY <1>3, Zenon DEF OpenFile, Store!Closed
<1> QED  BY <1>1, <1>2, <1>3, Zenon

\* A descriptor that does not change stands for the same open file.
LEMMA OpenKept ==
  ASSUME VfsInv, NamesKept, NEW f \in Fds, fd_table'[f] = fd_table[f]
  PROVE  OpenFile(f)' = OpenFile(f)
<1>1. CASE fd_table[f].used /\ fd_table[f].vnode # Nobody
  <2>1. fd_table[f].vnode \in Known  BY <1>1, Zenon DEF VfsInv, TypesOK
  <2>2. \A n \in Known : (IF n = RootNode THEN "/" ELSE nodes'[n].name) = NameOf(n)
    BY NamesKeptFacts, Zenon DEF NameOf
  <2>3. (IF fd_table[f].vnode = RootNode THEN "/" ELSE nodes'[fd_table[f].vnode].name) = NameOf(fd_table[f].vnode)
    BY <2>1, <2>2, Zenon
  <2> QED  BY <2>3, Zenon DEF OpenFile, NameOf
<1>2. CASE ~(fd_table[f].used /\ fd_table[f].vnode # Nobody)  BY <1>2, Zenon DEF OpenFile
<1> QED  BY <1>1, <1>2, Zenon

\* A step that changes one descriptor changes one open file.
LEMMA OpenChanges ==
  ASSUME VfsInv, NamesKept, NEW fd \in Fds, \A f \in Fds : f # fd => fd_table'[f] = fd_table[f]
  PROVE  OpenFiles' = [OpenFiles EXCEPT ![fd] = OpenFile(fd)']
<1>1. \A f \in Fds : f # fd => OpenFile(f)' = OpenFile(f)  BY OpenKept, Zenon
<1> QED  BY <1>1, Zenon DEF OpenFiles

\* A step that changes no descriptor changes no open file.
LEMMA OpenSame ==
  ASSUME VfsInv, NamesKept, UNCHANGED fd_table
  PROVE  UNCHANGED OpenFiles
<1>1. \A f \in Fds : OpenFile(f)' = OpenFile(f)  BY OpenKept, Zenon
<1> QED  BY <1>1, Zenon DEF OpenFiles

\* The step of the file store that a step is.
StoreStep == Store!Next \/ UNCHANGED <<StoredFiles, OpenFiles>>

LEMMA CreateMaps ==
  ASSUME VfsInv, NEW k \in Callers, OpenCreate(k)
  PROVE  StoreStep
<1> PICK name : name = call[k].name  BY Zenon
<1>1. name \in Names /\ UNCHANGED fd_table  BY CallFacts, Zenon DEF OpenCreate, VfsInv
<1>2. CASE CanCreate(name) /\ nodes' = Append(nodes, NewFile(name))
  <2>1. /\ NodesOK' /\ NamesKept /\ DOMAIN nodes' = DOMAIN nodes \cup {Len(nodes) + 1}
        /\ nodes'[Len(nodes) + 1] = NewFile(name)
        /\ \A n \in DOMAIN nodes : nodes'[n] = nodes[n] /\ nodes[n].name # name
    BY <1>1, <1>2, CreateNodes, Zenon DEF VfsInv
  <2>2. UNCHANGED OpenFiles  BY <1>1, <2>1, OpenSame, Zenon
  <2>3. StoredFile(name) = Store!Missing  BY <1>1, <2>1, StoredFacts, Zenon DEF VfsInv, StoredRight
  <2>4. \A n \in DOMAIN nodes : StoredFile(nodes[n].name) = FileOf(nodes[n])  BY StoredFacts, Zenon DEF VfsInv, StoredRight
  <2>5. StoredRight'  BY <2>1, StoredNext, Zenon
  <2>6. NewFile(name).name = name /\ FileOf(NewFile(name)) = << >>
    BY DEF NewFile, FileOf
  <2>7. StoredFile(name)' = << >>
    <3>1. nodes'[Len(nodes) + 1].name = name /\ Len(nodes) + 1 \in DOMAIN nodes'  BY <2>1, <2>6, Zenon
    <3>2. \A n \in DOMAIN nodes' : nodes'[n].name = name => StoredFile(name)' = FileOf(nodes'[n])
      BY <2>5, Zenon DEF StoredRight, FileOf
    <3> QED  BY <2>1, <2>6, <3>1, <3>2, ZenonT(60)
  <2>8. ASSUME NEW m \in Names, m # name PROVE StoredFile(m)' = StoredFile(m)
    <3>1. CASE \E n \in DOMAIN nodes : nodes[n].name = m
      <4>1. PICK n \in DOMAIN nodes : nodes[n].name = m  BY <3>1, Zenon
      <4>2. n \in DOMAIN nodes' /\ nodes'[n] = nodes[n]  BY <2>1, Zenon
      <4>3. \A l \in DOMAIN nodes' : nodes'[l].name = m => StoredFile(m)' = FileOf(nodes'[l])
        BY <2>5, Zenon DEF StoredRight, FileOf
      <4> QED  BY <2>4, <4>1, <4>2, <4>3, ZenonT(60)
    <3>2. CASE \A n \in DOMAIN nodes : nodes[n].name # m
      <4>1. \A n \in DOMAIN nodes' : nodes'[n].name # m  BY <2>1, <2>6, <2>8, <3>2, ZenonT(60)
      <4> QED  BY <2>5, <3>2, <4>1, StoredFacts, Zenon DEF VfsInv, StoredRight
    <3> QED  BY <3>1, <3>2, Zenon
  <2>9. StoredFiles' = [StoredFiles EXCEPT ![name] = << >>]  BY <2>7, <2>8, Zenon DEF StoredFiles
  <2>10. StoredFiles[name] = Store!Missing  BY <1>1, <2>3, Zenon DEF StoredFiles
  <2>11. Store!Create(name)  BY <2>2, <2>9, <2>10, Zenon DEF Store!Create
  <2> QED  BY <1>1, <2>11, Zenon DEF StoreStep, Store!Next
<1>3. CASE UNCHANGED nodes
  <2>1. NamesKept  BY <1>3, NodesSame, Zenon DEF VfsInv
  <2> QED  BY <1>1, <1>3, <2>1, StoredSame, OpenSame, ZenonT(60) DEF StoreStep
<1> QED  BY <1>2, <1>3, Zenon DEF OpenCreate

LEMMA AllocMaps ==
  ASSUME VfsInv, NEW k \in Callers, OpenAlloc(k)
  PROVE  StoreStep
<1>1. UNCHANGED nodes  BY Zenon DEF OpenAlloc
<1>2. NamesKept  BY <1>1, NodesSame, Zenon DEF VfsInv
<1>3. UNCHANGED StoredFiles  BY <1>1, StoredSame, Zenon
<1>4. CASE UNCHANGED fd_table  BY <1>2, <1>3, <1>4, OpenSame, ZenonT(60) DEF StoreStep
<1>5. ASSUME NEW fd \in LowestFree,
             fd_table' = [fd_table EXCEPT ![fd] = [used |-> TRUE, vnode |-> Nobody, offset |-> 0]]
      PROVE  UNCHANGED OpenFiles
  <2>1. fd \in Fds /\ ~fd_table[fd].used  BY Zenon DEF LowestFree, FreeFds
  <2>2. fd_table'[fd].vnode = Nobody /\ \A f \in Fds : f # fd => fd_table'[f] = fd_table[f]
    BY <1>5, <2>1, Zenon DEF VfsInv, TypesOK
  <2>3. OpenFile(fd)' = Store!Closed  BY <2>2, Zenon DEF OpenFile, Store!Closed
  <2>4. OpenFile(fd) = Store!Closed  BY <2>1, Zenon DEF OpenFile, Store!Closed
  <2>5. OpenFiles' = [OpenFiles EXCEPT ![fd] = OpenFile(fd)']  BY <1>2, <2>1, <2>2, OpenChanges, ZenonT(60)
  <2>6. OpenFiles' = [OpenFiles EXCEPT ![fd] = OpenFile(fd)]  BY <2>3, <2>4, <2>5, ZenonT(60)
  <2> QED  BY <2>1, <2>6, Zenon DEF OpenFiles
<1> QED  BY <1>3, <1>4, <1>5, Zenon DEF OpenAlloc, StoreStep

LEMMA FillMaps ==
  ASSUME VfsInv, NEW k \in Callers, OpenFill(k)
  PROVE  StoreStep
<1> PICK fd, n : fd = call[k].fd /\ n = call[k].node  BY Zenon
<1>1. k \in Opening /\ n \in Known /\ fd \in Fds /\ UNCHANGED nodes
  BY CallFacts, Zenon DEF OpenFill, VfsInv, Opening
<1>2. fd_table' = [fd_table EXCEPT ![fd].vnode = n, ![fd].offset = 0]  BY Zenon DEF OpenFill
<1>3. Reserved(fd)  BY <1>1, Zenon DEF VfsInv, HandlesSound
<1>4. NamesKept  BY <1>1, NodesSame, Zenon DEF VfsInv
<1>5. n # Nobody  BY <1>1 DEF Known, Nobody, RootNode, VfsInv, NodesOK
<1>6. /\ fd_table'[fd].used /\ fd_table'[fd].vnode = n /\ fd_table'[fd].offset = 0
      /\ \A f \in Fds : f # fd => fd_table'[f] = fd_table[f]
  <2>1. fd_table \in [Fds -> [used : BOOLEAN, vnode : Int, offset : Nat]] /\ fd_table[fd].used
    BY <1>3, Zenon DEF VfsInv, TypesOK, Reserved
  <2> QED  BY <1>1, <1>2, <2>1, ZenonT(60)
<1>7. OpenFiles[fd] = Store!Closed  BY <1>1, <1>3, OpenFacts, ZenonT(60) DEF Reserved
<1>8. OpenFile(fd)' = [name |-> NameOf(n), offset |-> 0]
  <2>1. (IF n = RootNode THEN "/" ELSE nodes'[n].name) = NameOf(n)  BY <1>1, Zenon DEF NameOf
  <2> QED  BY <1>5, <1>6, <2>1, Zenon DEF OpenFile, NameOf
<1>9. OpenFiles' = [OpenFiles EXCEPT ![fd] = OpenFile(fd)']  BY <1>1, <1>4, <1>6, OpenChanges, ZenonT(60)
<1>10. NameOf(n) = "/" \/ (n \in DOMAIN nodes /\ NameOf(n) = nodes[n].name)  BY <1>1, Zenon DEF Known, NameOf
<1>11. n \in DOMAIN nodes => StoredFiles[nodes[n].name] # Store!Missing /\ nodes[n].name \in Names
  <2> SUFFICES ASSUME n \in DOMAIN nodes
               PROVE  StoredFiles[nodes[n].name] # Store!Missing /\ nodes[n].name \in Names
    BY Zenon
  <2>1. nodes[n].name \in Names /\ nodes[n] \in Files /\ FileOK(nodes[n])  BY NodeFacts, Zenon DEF VfsInv
  <2>2. StoredFile(nodes[n].name) = FileOf(nodes[n])  BY StoredFacts, Zenon DEF VfsInv, StoredRight
  <2>3. FileOf(nodes[n]) # Store!Missing  BY <2>1, FileOfFacts, Zenon
  <2> QED  BY <2>1, <2>2, <2>3, Zenon DEF StoredFiles
<1>12. NameOf(n) \in Names \cup {"/"} /\ (NameOf(n) \in Names => StoredFiles[NameOf(n)] # Store!Missing)
  <2>1. "/" \notin Names  BY VfsAssumption, Zenon
  <2> QED  BY <1>10, <1>11, <2>1, Zenon
<1>13. UNCHANGED StoredFiles  BY <1>1, StoredSame, Zenon
<1>14. Store!Open(fd, NameOf(n))
  <2>1. OpenFiles' = [OpenFiles EXCEPT ![fd] = [name |-> NameOf(n), offset |-> 0]]  BY <1>8, <1>9, Zenon
  <2> QED  BY <1>7, <1>12, <1>13, <2>1, Zenon DEF Store!Open
<1> QED  BY <1>1, <1>12, <1>14, Zenon DEF StoreStep, Store!Next

LEMMA CloseMaps ==
  ASSUME VfsInv, NEW k \in Callers, NEW h \in holds[k], FsClose(k, h)
  PROVE  StoreStep
<1>1. UNCHANGED nodes /\ fd_table' = [fd_table EXCEPT ![h.fd] = Unused]  BY Zenon DEF FsClose
<1>2. h.fd \in Fds /\ Leads(h)  BY DEF VfsInv, TypesOK, HandlesSound
<1>3. OpenFiles[h.fd] # Store!Closed  BY <1>2, OpenFacts, Zenon DEF Leads
<1>4. NamesKept  BY <1>1, NodesSame, Zenon DEF VfsInv
<1>5. fd_table'[h.fd] = Unused /\ \A f \in Fds : f # h.fd => fd_table'[f] = fd_table[f]
  BY <1>1, <1>2, Zenon DEF VfsInv, TypesOK
<1>6. ~Unused.used  BY Zenon DEF Unused
<1>7. OpenFile(h.fd)' = Store!Closed  BY <1>5, <1>6, Zenon DEF OpenFile, Store!Closed
<1>8. OpenFiles' = [OpenFiles EXCEPT ![h.fd] = OpenFile(h.fd)']  BY <1>2, <1>4, <1>5, OpenChanges, ZenonT(60)
<1>9. UNCHANGED StoredFiles  BY <1>1, StoredSame, Zenon
<1>10. Store!Close(h.fd)  BY <1>3, <1>7, <1>8, <1>9, ZenonT(60) DEF Store!Close
<1> QED  BY <1>2, <1>10, Zenon DEF StoreStep, Store!Next

\* A step that moves an open file in its file.
LEMMA MoveMaps ==
  ASSUME VfsInv, NamesKept, NEW fd \in Fds, NEW next,
         fd_table[fd].used, fd_table[fd].vnode # Nobody, fd_table' = [fd_table EXCEPT ![fd].offset = next]
  PROVE  Store!MoveTo(fd, next)
<1> PICK n : n = fd_table[fd].vnode  BY Zenon
<1>1. n \in Known  BY Zenon DEF VfsInv, TypesOK
<1>2. /\ fd_table'[fd].used /\ fd_table'[fd].vnode = n /\ fd_table'[fd].offset = next
      /\ \A f \in Fds : f # fd => fd_table'[f] = fd_table[f]
  <2>1. fd_table \in [Fds -> [used : BOOLEAN, vnode : Int, offset : Nat]]  BY Zenon DEF VfsInv, TypesOK
  <2> QED  BY <2>1, Zenon
<1>3. OpenFile(fd)' = [name |-> NameOf(n), offset |-> next]
  <2>1. \A m \in Known : (IF m = RootNode THEN "/" ELSE nodes'[m].name) = NameOf(m)
    BY NamesKeptFacts, Zenon DEF NameOf
  <2>2. (IF n = RootNode THEN "/" ELSE nodes'[n].name) = NameOf(n)  BY <1>1, <2>1, Zenon
  <2> QED  BY <1>2, <2>2, Zenon DEF OpenFile, NameOf
<1>4. OpenFiles[fd] = [name |-> NameOf(n), offset |-> fd_table[fd].offset]  BY OpenFacts, Zenon
<1>5. OpenFiles' = [OpenFiles EXCEPT ![fd] = OpenFile(fd)']  BY <1>2, OpenChanges, Zenon
<1>6. [OpenFiles[fd] EXCEPT !.offset = next] = [name |-> NameOf(n), offset |-> next]  BY <1>4
<1>7. OpenFiles' = [OpenFiles EXCEPT ![fd] = [OpenFiles[fd] EXCEPT !.offset = next]]  BY <1>3, <1>5, <1>6, Zenon
<1> QED  BY <1>7, Zenon DEF Store!MoveTo

\* What an open file says of the file it leads to.
LEMMA IsFileFacts ==
  ASSUME VfsInv, NEW fd \in Fds, IsFile(fd)
  PROVE  LET n == fd_table[fd].vnode IN
         /\ n \in DOMAIN nodes /\ n # Nobody /\ fd_table[fd].used /\ fd_table[fd].offset \in Nat
         /\ nodes[n] \in Files /\ FileOK(nodes[n]) /\ nodes[n].name \in Names
         /\ OpenFiles[fd] = [name |-> nodes[n].name, offset |-> fd_table[fd].offset]
         /\ StoredFiles[nodes[n].name] = FileOf(nodes[n])
<1> DEFINE n == fd_table[fd].vnode
<1>1. n \in DOMAIN nodes /\ fd_table[fd].used /\ fd_table[fd].offset \in Nat  BY FdFacts, Zenon DEF IsFile, VfsInv
<1>2. n # Nobody /\ n # RootNode  BY <1>1 DEF Nobody, RootNode, VfsInv, NodesOK
<1>3. nodes[n] \in Files /\ FileOK(nodes[n]) /\ nodes[n].name \in Names  BY <1>1, NodeFacts, Zenon DEF VfsInv
<1>4. OpenFiles[fd] = [name |-> NameOf(n), offset |-> fd_table[fd].offset]  BY <1>1, <1>2, OpenFacts, ZenonT(60)
<1>5. NameOf(n) = nodes[n].name  BY <1>2, Zenon DEF NameOf
<1>6. StoredFile(nodes[n].name) = FileOf(nodes[n])  BY <1>1, StoredFacts, Zenon DEF VfsInv, StoredRight
<1>7. StoredFiles[nodes[n].name] = FileOf(nodes[n])  BY <1>3, <1>6, Zenon DEF StoredFiles
<1> QED  BY <1>1, <1>2, <1>3, <1>4, <1>5, <1>7, ZenonT(60)

LEMMA ReadMaps ==
  ASSUME VfsInv, NEW fd \in Fds, NEW len \in 0 .. MaxLen, FsRead(fd, len)
  PROVE  StoreStep
<1> PICK n, offset : n = fd_table[fd].vnode /\ offset = fd_table[fd].offset  BY Zenon
<1> DEFINE size == nodes[n].size  file == FileOf(nodes[n])  next == offset + Smaller(len, size - offset)
<1>1. IsFile(fd) /\ offset < size /\ UNCHANGED nodes  BY Zenon DEF FsRead
<1>2. fd_table' = [fd_table EXCEPT ![fd].offset = next]  BY Zenon DEF FsRead
<1>3. /\ n # Nobody /\ fd_table[fd].used /\ offset \in Nat
      /\ nodes[n] \in Files /\ FileOK(nodes[n]) /\ nodes[n].name \in Names
      /\ OpenFiles[fd] = [name |-> nodes[n].name, offset |-> offset]
      /\ StoredFiles[nodes[n].name] = file
  BY <1>1, IsFileFacts, Zenon
<1>4. Len(file) = size /\ size \in Nat  BY <1>3, FileOfFacts, Zenon
<1>5. NamesKept /\ UNCHANGED StoredFiles  BY <1>1, NodesSame, StoredSame, ZenonT(60) DEF VfsInv
<1> HIDE DEF file, size
<1>6. Store!After(file, offset, len) = next
  BY <1>1, <1>3, <1>4, VfsAssumption DEF Store!After, Smaller
<1> HIDE DEF next
<1>7. Store!MoveTo(fd, next)
  <2>1. ASSUME NEW m, m = next PROVE Store!MoveTo(fd, m)  BY <1>2, <1>3, <1>5, <2>1, MoveMaps, Zenon
  <2> QED  BY <2>1, Zenon
<1>8. OpenFiles[fd].name = nodes[n].name /\ OpenFiles[fd].offset = offset  BY <1>3
<1>9. Store!Read(fd, len)
  <2>1. OpenFiles[fd].name \in Names /\ StoredFiles[OpenFiles[fd].name] = file  BY <1>3, <1>8, Zenon
  <2>2. Store!After(StoredFiles[OpenFiles[fd].name], OpenFiles[fd].offset, len) = next  BY <1>6, <1>8, <2>1, ZenonT(60)
  <2> QED  BY <1>5, <1>7, <2>1, <2>2, Zenon DEF Store!Read
<1> QED  BY <1>9, Zenon DEF StoreStep, Store!Next

LEMMA LseekMaps ==
  ASSUME VfsInv, NEW fd \in Fds, NEW next \in 0 .. MaxSize, FsLseek(fd, next)
  PROVE  StoreStep
<1>1. fd_table[fd].used /\ fd_table' = [fd_table EXCEPT ![fd].offset = next] /\ UNCHANGED nodes  BY Zenon DEF FsLseek
<1>2. NamesKept /\ UNCHANGED StoredFiles  BY <1>1, NodesSame, StoredSame, ZenonT(60) DEF VfsInv
<1>3. CASE fd_table[fd].vnode # Nobody
  <2>1. Store!MoveTo(fd, next)  BY <1>1, <1>2, <1>3, MoveMaps, Zenon
  <2>2. OpenFiles[fd] # Store!Closed  BY <1>1, <1>3, OpenFacts, ZenonT(60)
  <2>3. Store!Seek(fd, next)  BY <1>2, <2>1, <2>2, Zenon DEF Store!Seek
  <2> QED  BY <2>3, Zenon DEF StoreStep, Store!Next
<1>4. CASE fd_table[fd].vnode = Nobody
  <2>1. fd_table'[fd].vnode = Nobody /\ \A f \in Fds : f # fd => fd_table'[f] = fd_table[f]
    BY <1>1, <1>4, ZenonT(60) DEF VfsInv, TypesOK
  <2>2. OpenFile(fd)' = Store!Closed  BY <2>1, Zenon DEF OpenFile, Store!Closed
  <2>3. OpenFile(fd) = Store!Closed  BY <1>4, Zenon DEF OpenFile, Store!Closed
  <2>4. OpenFiles' = [OpenFiles EXCEPT ![fd] = OpenFile(fd)']  BY <1>2, <2>1, OpenChanges, ZenonT(60)
  <2>5. OpenFiles' = [OpenFiles EXCEPT ![fd] = OpenFile(fd)]  BY <2>2, <2>3, <2>4, ZenonT(60)
  <2>6. UNCHANGED OpenFiles  BY <2>5, Zenon DEF OpenFiles
  <2> QED  BY <1>2, <2>6, ZenonT(60) DEF StoreStep
<1> QED  BY <1>3, <1>4, Zenon

\* The bytes of a file that was written are the bytes the store has.
LEMMA OverwriteIs ==
  ASSUME NEW node \in Files, FileOK(node), NEW w, NEW offset \in Nat, NEW bytes \in Strings,
         IsWritten(w, node, offset, bytes)
  PROVE  FileOf(w) = Store!Overwrite(FileOf(node), offset, bytes)
<1> DEFINE end == offset + Len(bytes)  old == FileOf(node)  new == FileOf(w)
<1>1. Len(bytes) \in Nat /\ end \in Nat  BY StringsFacts
<1>2. /\ w \in Files /\ FileOK(w) /\ w.size = Larger(node.size, end)
      /\ \A i \in 1 .. Len(w.data) :
           w.data[i] = IF offset < i /\ i <= end THEN bytes[i - offset]
                       ELSE IF i <= node.size THEN node.data[i] ELSE Stale
  BY Zenon DEF IsWritten
<1>3. Len(old) = node.size /\ node.size \in Nat /\ \A i \in 1 .. node.size : old[i] = node.data[i]
  BY FileOfFacts, Zenon
<1>4. new \in Seq(Contents) /\ Len(new) = w.size /\ w.size \in Nat /\ \A i \in 1 .. w.size : new[i] = w.data[i]
  BY <1>2, FileOfFacts, Zenon
<1>5. w.size <= Len(w.data) /\ Len(w.data) \in Nat  BY <1>2 DEF FileOK, Files
<1> DEFINE size == IF Len(old) < end THEN end ELSE Len(old)
           Byte(i) == IF offset < i /\ i <= end THEN bytes[i - offset] ELSE IF i <= Len(old) THEN old[i] ELSE Stale
<1>6. Store!Overwrite(old, offset, bytes) = [i \in 1 .. size |-> Byte(i)]  BY Zenon DEF Store!Overwrite
<1>7. size = w.size  BY <1>1, <1>2, <1>3, ZenonT(60) DEF Larger
<1> HIDE DEF end, old, new, size
<1>8. \A i \in 1 .. w.size : new[i] = Byte(i)
  <2> SUFFICES ASSUME NEW i \in 1 .. w.size PROVE new[i] = Byte(i)
    BY Zenon
  <2>1. i \in 1 .. Len(w.data) /\ new[i] = w.data[i]  BY <1>4, <1>5
  <2>2. i <= node.size => old[i] = node.data[i]  BY <1>3, <1>4
  <2> QED  BY <1>2, <1>3, <2>1, <2>2, ZenonT(60)
<1> HIDE DEF Byte
<1>9. new = [i \in 1 .. w.size |-> Byte(i)]  BY <1>4, <1>8
<1>10. new = Store!Overwrite(old, offset, bytes)  BY <1>6, <1>7, <1>9, ZenonT(60)
<1> QED  BY <1>10, Zenon DEF new, old

LEMMA WriteMaps ==
  ASSUME VfsInv, NEW fd \in Fds, NEW bytes \in Strings, FsWrite(fd, bytes)
  PROVE  StoreStep
<1> PICK n, offset, name : n = fd_table[fd].vnode /\ offset = fd_table[fd].offset /\ name = nodes[n].name
  BY Zenon
<1>1. IsFile(fd) /\ fd_table' = [fd_table EXCEPT ![fd].offset = offset + Len(bytes)]  BY Zenon DEF FsWrite
<1>2. /\ n \in DOMAIN nodes /\ n # Nobody /\ fd_table[fd].used /\ offset \in Nat
      /\ nodes[n] \in Files /\ FileOK(nodes[n]) /\ name \in Names
      /\ OpenFiles[fd] = [name |-> name, offset |-> offset]
      /\ StoredFiles[name] = FileOf(nodes[n])
  BY <1>1, IsFileFacts, Zenon
<1>3. WriteFacts(fd, n, bytes)  BY WriteNodes, Zenon
<1>4. /\ DOMAIN nodes' = DOMAIN nodes /\ nodes' \in Seq(Files)
      /\ \A m \in DOMAIN nodes : m # n => nodes'[m] = nodes[m]
      /\ IsWritten(nodes'[n], nodes[n], offset, bytes) /\ nodes'[n].name = name
  BY <1>3, Zenon DEF WriteFacts, IsWritten
<1>5. \A m \in DOMAIN nodes : nodes'[m].name = nodes[m].name  BY <1>4, ZenonT(60)
<1>6. NamesKept  BY <1>4, <1>5, Zenon DEF NamesKept
<1>7. Store!MoveTo(fd, offset + Len(bytes))
  <2>1. ASSUME NEW m, m = offset + Len(bytes) PROVE Store!MoveTo(fd, m)  BY <1>1, <1>2, <1>6, <2>1, MoveMaps, Zenon
  <2> QED  BY <2>1, ZenonT(60)
<1>8. FileOf(nodes'[n]) = Store!Overwrite(FileOf(nodes[n]), offset, bytes)  BY <1>2, <1>4, OverwriteIs
<1>9. StoredRight /\ StoredRight'
  <2>1. NodesOK'  BY WriteInv, Zenon DEF VfsInv
  <2> QED  BY <2>1, StoredFacts, StoredNext, Zenon DEF VfsInv
<1>10. \A m \in DOMAIN nodes' : nodes'[m].name = name => StoredFile(name)' = FileOf(nodes'[m])
  BY <1>9, Zenon DEF StoredRight, FileOf
<1>11. StoredFile(name)' = FileOf(nodes'[n])  BY <1>2, <1>4, <1>10, Zenon
<1>12. ASSUME NEW other \in Names, other # name PROVE StoredFile(other)' = StoredFile(other)
  <2>1. \A m \in DOMAIN nodes' : nodes'[m].name = other => StoredFile(other)' = FileOf(nodes'[m])
    BY <1>9, Zenon DEF StoredRight, FileOf
  <2>2. CASE \E m \in DOMAIN nodes : nodes[m].name = other
    <3>1. PICK m \in DOMAIN nodes : nodes[m].name = other  BY <2>2, Zenon
    <3>2. m \in DOMAIN nodes' /\ nodes'[m] = nodes[m]  BY <1>4, <1>12, <3>1, Zenon
    <3>3. StoredFile(other) = FileOf(nodes[m])  BY <1>9, <3>1, ZenonT(60) DEF StoredRight
    <3> QED  BY <2>1, <3>1, <3>2, <3>3, Zenon
  <2>3. CASE \A m \in DOMAIN nodes : nodes[m].name # other
    <3>1. \A m \in DOMAIN nodes' : nodes'[m].name # other  BY <1>4, <1>5, <2>3, ZenonT(60)
    <3> QED  BY <1>9, <2>3, <3>1, ZenonT(60) DEF StoredRight
  <2> QED  BY <2>2, <2>3, ZenonT(60)
<1>13. StoredFiles' = [StoredFiles EXCEPT ![name] = FileOf(nodes'[n])]  BY <1>11, <1>12, Zenon DEF StoredFiles
<1>14. Store!Write(fd, bytes)
  <2>1. OpenFiles[fd].name = name /\ OpenFiles[fd].offset = offset  BY <1>2
  <2>2. StoredFiles' = [StoredFiles EXCEPT ![name] = Store!Overwrite(StoredFiles[name], offset, bytes)]
    BY <1>2, <1>8, <1>13, Zenon
  <2> QED  BY <1>2, <1>7, <2>1, <2>2, Zenon DEF Store!Write
<1>15. bytes \in Store!Strings  BY Zenon DEF Strings, Store!Strings
<1> QED  BY <1>14, <1>15, Zenon DEF StoreStep, Store!Next

LEMMA VfsInitMaps == Init => Store!Init
<1> SUFFICES ASSUME Init PROVE Store!Init
  BY Zenon
<1>1. ~Unused.used  BY Zenon DEF Unused
<1>2. \A fd \in Fds : OpenFile(fd) = Store!Closed  BY <1>1, Zenon DEF Init, OpenFile, Store!Closed
<1>3. \A name \in Names : StoredFile(name) = Store!Missing
  BY DEF Init, StoredFile, Named, Store!Missing
<1> QED  BY <1>2, <1>3, Zenon DEF Store!Init, StoredFiles, OpenFiles

LEMMA VfsStepMaps == VfsInv /\ [Next]_vars => [Store!Next]_<<StoredFiles, OpenFiles>>
<1> SUFFICES ASSUME VfsInv, [Next]_vars PROVE StoreStep
  BY Zenon DEF StoreStep
<1>1. ASSUME UNCHANGED <<nodes, fd_table>> PROVE StoreStep
  <2>1. NamesKept /\ UNCHANGED StoredFiles  BY <1>1, NodesSame, StoredSame, ZenonT(60) DEF VfsInv
  <2> QED  BY <1>1, <2>1, OpenSame, Zenon DEF StoreStep
<1>2. ASSUME UNCHANGED vars PROVE StoreStep  BY <1>1, <1>2, Zenon DEF vars
<1>3. ASSUME NEW k \in Callers, NEW name \in Names \cup {"/"}, NEW creat \in BOOLEAN, OpenResolve(k, name, creat)
      PROVE StoreStep
  BY <1>1, <1>3, Zenon DEF OpenResolve
<1>4. ASSUME NEW k \in Callers, OpenCreate(k) PROVE StoreStep  BY <1>4, CreateMaps, Zenon
<1>5. ASSUME NEW k \in Callers, OpenAlloc(k) PROVE StoreStep  BY <1>5, AllocMaps, ZenonT(60)
<1>6. ASSUME NEW k \in Callers, OpenFill(k) PROVE StoreStep  BY <1>6, FillMaps, Zenon
<1>7. ASSUME NEW k \in Callers, NEW h \in holds[k], FsClose(k, h) PROVE StoreStep  BY <1>7, CloseMaps, ZenonT(60)
<1>8. ASSUME NEW fd \in Fds, NEW len \in 0 .. MaxLen, FsRead(fd, len) PROVE StoreStep  BY <1>8, ReadMaps, ZenonT(60)
<1>9. ASSUME NEW fd \in Fds, NEW next \in 0 .. MaxSize, FsLseek(fd, next) PROVE StoreStep  BY <1>9, LseekMaps, Zenon
<1>10. ASSUME NEW fd \in Fds, NEW bytes \in Strings, FsWrite(fd, bytes) PROVE StoreStep  BY <1>10, WriteMaps, Zenon
<1> QED  BY <1>2, <1>3, <1>4, <1>5, <1>6, <1>7, <1>8, <1>9, <1>10, Zenon DEF Next

\* The file layer implements FileStore for any sizes and any interleaving of the steps of fs_open: two
\* callers that create one name get one file, a byte written stays as it is while the buffer grows and
\* other files are written, and an open file is moved by its own calls only.
THEOREM VfsImplementsFileStore == Spec => ImplementsFileStore
<1>1. Spec => []VfsInv  BY VfsInitInv, VfsStepInv, PTL DEF Spec
<1> QED  BY <1>1, VfsInitMaps, VfsStepMaps, PTL DEF Spec, ImplementsFileStore, Store!Spec
====
