----------------------------- MODULE PipeStream -----------------------------
(***************************************************************************)
(* What a pipe promises: a bounded stream of bytes.  A write appends as    *)
(* much of its data as fits, a read removes as much as it asks for and     *)
(* there is, each in one step; neither waits.                              *)
(***************************************************************************)
EXTENDS Integers, Sequences

CONSTANTS
  Data,     \* what may be written at once
  Lengths,  \* how much may be asked for at once
  Room      \* how much a pipe holds

VARIABLES
  queue,    \* the bytes in the pipe, oldest first
  written,  \* what the last write returned
  got       \* what the last read returned

vars == <<queue, written, got>>

Init == queue = <<>> /\ written = 0 /\ got = <<>>

Smaller(a, b) == IF a < b THEN a ELSE b

Write(data) ==
  /\ written' = Smaller(Len(data), Room - Len(queue))
  /\ queue' = queue \o SubSeq(data, 1, written')
  /\ UNCHANGED got

Read(len) ==
  LET n == Smaller(len, Len(queue)) IN
  /\ got' = SubSeq(queue, 1, n)
  /\ queue' = SubSeq(queue, n + 1, Len(queue))
  /\ UNCHANGED written

Next == (\E data \in Data : Write(data)) \/ (\E len \in Lengths : Read(len))

Spec == Init /\ [][Next]_vars
=============================================================================
