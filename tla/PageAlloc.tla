----------------------------- MODULE PageAlloc -----------------------------
(***************************************************************************)
(* What the page allocator promises to its callers: frames are handed out  *)
(* in runs, a frame to one caller at a time, and come back one by one.     *)
(* kernel/mm/pmm.c implements it (Pmm); the page-table code is written     *)
(* against it (Vmm).                                                       *)
(***************************************************************************)
EXTENDS Integers

CONSTANT Frames   \* the frames that may be handed out

VARIABLE holders  \* holders[f]: how many callers hold frame f

Held == {f \in Frames : holders[f] > 0}

Init == holders = [f \in Frames |-> 0]

\* The frames first .. last, which nobody holds, go to a caller.
Take(first, last) ==
  /\ first .. last \subseteq Frames \ Held
  /\ holders' = [f \in Frames |-> IF f \in first .. last THEN 1 ELSE holders[f]]

\* The caller that holds a frame gives it back.
Give(f) == holders[f] = 1 /\ holders' = [holders EXCEPT ![f] = 0]

Next ==
  \/ \E first, last \in Frames : Take(first, last)
  \/ \E f \in Frames : Give(f)

Spec == Init /\ [][Next]_holders
=============================================================================
