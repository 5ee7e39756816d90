------------------------------ MODULE PipeRing ------------------------------
(***************************************************************************)
(* One pipe of kernel/proc/fd.c byte by byte: the ring buf, indexed modulo *)
(* NM_PIPE_BUF by two positions that only grow, and the loops of           *)
(* read_from_pipe and write_to_pipe.  nm_fd_read and nm_fd_write hold      *)
(* fd_lock around them, so one loop runs at a time.                        *)
(*                                                                         *)
(* FdTable models the same calls as single steps on the number of queued   *)
(* bytes; ImplementsStream is the reason why that is sound.                *)
(***************************************************************************)
EXTENDS Integers, Sequences

CONSTANTS
  Bytes,
  PipeBuf,   \* NM_PIPE_BUF (4096)
  MaxLen,    \* longest read or write
  MaxBytes   \* bound on write_pos (uint64_t in the code)

ASSUME PipeAssumption ==
  PipeBuf \in Nat \ {0} /\ MaxLen \in Nat /\ MaxBytes \in Nat /\ Bytes # {}

Data == UNION {[1 .. n -> Bytes] : n \in 0 .. MaxLen}

VARIABLES
  buf, read_pos, write_pos,
  op,        \* the loop in progress: Idle, or what it reads or writes
  written,   \* result of the last write_to_pipe
  got        \* bytes delivered by the last read_from_pipe

vars == <<buf, read_pos, write_pos, op, written, got>>

Idle == [kind |-> "idle"]
WriteOps == [kind : {"write"}, data : Data, count : 0 .. MaxLen]
ReadOps == [kind : {"read"}, len : 0 .. MaxLen, out : Data]

TypeOK ==
  /\ buf \in [0 .. PipeBuf - 1 -> Bytes]
  /\ read_pos \in Nat /\ write_pos \in Nat
  /\ write_pos - read_pos \in 0 .. PipeBuf
  /\ op \in {Idle} \cup WriteOps \cup ReadOps
  /\ written \in Nat /\ got \in Data

\* A pipe that nm_fd_pipe has just set up: its buffer holds anything.
Init ==
  /\ buf \in [0 .. PipeBuf - 1 -> Bytes]
  /\ read_pos = 0 /\ write_pos = 0
  /\ op = Idle
  /\ written = 0 /\ got = <<>>

\* Mutant: fd_lock is not released.
UnlockMutant == op' = op

\* The call returns and nm_fd_read or nm_fd_write drops fd_lock.
Unlock == op' = Idle

-----------------------------------------------------------------------------
(* write_to_pipe *)

StartWrite(data) ==
  /\ op = Idle
  /\ write_pos + Len(data) <= MaxBytes
  /\ op' = [kind |-> "write", data |-> data, count |-> 0]
  /\ UNCHANGED <<buf, read_pos, write_pos, written, got>>

HasRoom == write_pos - read_pos < PipeBuf

WriteMore == op.count < Len(op.data) /\ HasRoom

Slot(pos) == pos % PipeBuf

WriteByte ==
  /\ op.kind = "write"
  /\ WriteMore
  /\ buf' = [buf EXCEPT ![Slot(write_pos)] = op.data[op.count + 1]]
  /\ write_pos' = write_pos + 1
  /\ op' = [op EXCEPT !.count = op.count + 1]
  /\ UNCHANGED <<read_pos, written, got>>

WriteReturn ==
  /\ op.kind = "write"
  /\ ~ WriteMore
  /\ written' = op.count
  /\ Unlock
  /\ UNCHANGED <<buf, read_pos, write_pos, got>>

-----------------------------------------------------------------------------
(* read_from_pipe *)

StartRead(len) ==
  /\ op = Idle
  /\ op' = [kind |-> "read", len |-> len, out |-> <<>>]
  /\ UNCHANGED <<buf, read_pos, write_pos, written, got>>

ReadMore == Len(op.out) < op.len /\ read_pos < write_pos

\* Mutant: the loop does not advance read_pos.
AfterReadMutant == read_pos

AfterRead == read_pos + 1

ReadByte ==
  /\ op.kind = "read"
  /\ ReadMore
  /\ op' = [op EXCEPT !.out = Append(op.out, buf[Slot(read_pos)])]
  /\ read_pos' = AfterRead
  /\ UNCHANGED <<buf, write_pos, written, got>>

ReadReturn ==
  /\ op.kind = "read"
  /\ ~ ReadMore
  /\ got' = op.out
  /\ Unlock
  /\ UNCHANGED <<buf, read_pos, write_pos, written>>

-----------------------------------------------------------------------------
Loop == WriteByte \/ WriteReturn \/ ReadByte \/ ReadReturn

Next ==
  \/ \E data \in Data : StartWrite(data)
  \/ \E len \in 0 .. MaxLen : StartRead(len)
  \/ Loop

Spec == Init /\ [][Next]_vars

\* A loop that has started goes on: nothing it does waits.
FairSpec == Spec /\ WF_vars(Loop)

-----------------------------------------------------------------------------
(* Properties *)

\* What the buffer b holds at the positions from a up to z - 1.
Window(b, a, z) == [k \in 1 .. z - a |-> b[Slot(a + k - 1)]]

\* The stream as it was when the call in progress began.
QueueAtCall ==
  IF op.kind = "write" THEN Window(buf, read_pos, write_pos - op.count)
  ELSE IF op.kind = "read" THEN Window(buf, read_pos - Len(op.out), write_pos)
  ELSE Window(buf, read_pos, write_pos)

\* The ring and its loops implement the atomic calls of PipeStream: bytes come
\* out in the order they went in, none lost, repeated or overwritten, and each
\* call moves as many as its length and the buffer allow.
Stream == INSTANCE PipeStream WITH Room <- PipeBuf, Lengths <- 0 .. MaxLen, queue <- QueueAtCall
ImplementsStream == Stream!Spec

\* Every call returns, so fd_lock is released.
CallReturns == op # Idle ~> op = Idle
=============================================================================
