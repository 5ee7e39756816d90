------------------------------- MODULE MCVmm -------------------------------
(* Vmm with four virtual pages: neighbours in one page table, in one page directory, in one pdpt. *)
EXTENDS Vmm

MCVirt == {<<0, 0, 0, 0>>, <<0, 0, 0, 1>>, <<0, 0, 1, 0>>, <<0, 1, 0, 0>>}
MCRights == {{}, {"RW"}}

\* States that differ only in which frame holds which table are one state: a table is named by the
\* entries that lead to it, a pool by its length.  What was asked before decides nothing.
Shape(e) == IF e.kind = "table" THEN e.flags ELSE e

Path(v) ==
  LET pdpte == mem[Root][v[1]]
      pde == mem[pdpte.to][v[2]]
      pte == mem[pde.to][v[3]]
  IN  IF pdpte.kind = "absent" THEN << >>
      ELSE IF pde.kind = "absent" THEN <<Shape(pdpte)>>
      ELSE IF pte.kind # "table" THEN <<Shape(pdpte), Shape(pde), Shape(pte)>>
      ELSE <<Shape(pdpte), Shape(pde), Shape(pte), mem[pte.to][v[4]]>>

View ==
  <<[v \in Virt |-> Path(v)],
    [k \in Callers |-> [call[k] EXCEPT !.pool = Len(@)]],
    Cardinality(lost), Cardinality(Held)>>

\* What follows a page mapped within a large page is not explored.
NoneWithin == within = {}

\* The frame taken is the lowest.
LowestFrame == \A f \in Held' \ Held, g \in Frames \ Held' : f < g
=============================================================================
