---------------------------- MODULE AddressSpace ----------------------------
(***************************************************************************)
(* What kernel/mm/vmm.c promises: an address space maps each virtual page  *)
(* to a physical one with the rights asked for, and a call changes the     *)
(* translation of its own page, or of its own large page, and of nothing   *)
(* else.  Callers promise not to map a page within a large page; nothing   *)
(* is said of a call that does so, nor of what comes after it.  Page       *)
(* tables do not appear.                                                   *)
(***************************************************************************)
EXTENDS Integers

CONSTANTS
  Virt,        \* virtual pages, <<pml4_i, pdpt_i, pd_i, pt_i>>
  Pages,       \* physical pages
  Rights       \* sets of rights (RW, US) a mapping may be asked with

VARIABLES
  trans,       \* trans[v]: where v leads
  within,      \* virtual pages that were mapped within a large page
  asked        \* the last call and its arguments

Unmapped == [kind |-> "absent"]
Mapping(kind, page, rights) == [kind |-> kind, to |-> page, flags |-> rights]

\* The pages that one entry of a page directory covers with v.
Region(v) == {w \in Virt : \A level \in 1 .. 3 : w[level] = v[level]}

Init == trans = [v \in Virt |-> Unmapped] /\ within = {} /\ asked = << >>

Map(v, page, rights) ==
  /\ trans[v].kind # "large"
  /\ asked' = <<"map", v, page, rights>>
  /\ trans' = [trans EXCEPT ![v] = Mapping("page", page, rights)]
  /\ UNCHANGED within

\* The call that callers promise not to make: trans' may be anything.
MapWithin(v, page, rights) ==
  /\ trans[v].kind = "large"
  /\ asked' = <<"map", v, page, rights>>
  /\ within' = within \cup {v}

MapLarge(v, page, rights) ==
  /\ asked' = <<"large", v, page, rights>>
  /\ trans' = [w \in Virt |-> IF w \in Region(v) THEN Mapping("large", page, rights) ELSE trans[w]]
  /\ UNCHANGED within

\* A large page is never unmapped.
Unmap(v) ==
  /\ trans[v].kind # "large"
  /\ asked' = <<"unmap", v>>
  /\ trans' = [trans EXCEPT ![v] = Unmapped]
  /\ UNCHANGED within

Next ==
  \/ within # {}
  \/ \E v \in Virt :
       \/ \E page \in Pages, rights \in Rights :
            Map(v, page, rights) \/ MapWithin(v, page, rights) \/ MapLarge(v, page, rights)
       \/ Unmap(v)

Spec == Init /\ [][Next]_<<trans, within, asked>>
=============================================================================
