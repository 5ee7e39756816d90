------------------------------ MODULE MCKheap ------------------------------
(* Kheap, with headers of one byte, on Pmm with pages of 4 bytes and words of 4 bits. *)
EXTENDS Kheap

MCLow == [base |-> 0, len |-> 3]
MCKernel == [base |-> 6, len |-> 3]
MCInfo == [base |-> 10, len |-> 3]

Avail(b, l) == [type |-> "available", base |-> b, len |-> l]
Module(b, l) == [type |-> "module", base |-> b, len |-> l]

\* 14 frames, more than the bitmap may cover, or fewer; ranges that are unaligned, that overlap, that
\* are reported twice, modules in and outside them, an empty map.
MCMaps ==
  { <<Avail(0, 56)>>,
    <<Avail(0, 21), Avail(18, 30), [type |-> "other", base |-> 2, len |-> 9]>>,
    <<Avail(4, 40), Avail(9, 24), Module(21, 6)>>,
    <<Module(26, 2), Avail(0, 48), Avail(0, 48)>>,
    <<Avail(13, 14), Avail(29, 14), Module(38, 0)>>,
    << >> }
=============================================================================
