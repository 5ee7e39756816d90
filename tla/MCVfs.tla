------------------------------- MODULE MCVfs -------------------------------
(* Vfs for model checking. *)
EXTENDS Vfs, TLC

\* Callers are alike.
Symmetry == Permutations(Callers)
=============================================================================
