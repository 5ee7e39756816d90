------------------------------ MODULE MCDgram ------------------------------
(***************************************************************************)
(* Dgram with callers that are interchangeable.  Of the numbers of the     *)
(* datagrams and of the bindings only one thing decides anything: whether  *)
(* a datagram in a queue belongs to the binding that has the entry.  The   *)
(* port left in a socket that is not in use is never read.                 *)
(***************************************************************************)
EXTENDS Dgram, TLC

Symmetry == Permutations(Callers)

Kind(p, d) ==
  IF d = NoDatagram THEN "empty"
  ELSE IF d.dst = ports[p].port /\ d.binding = ports[p].binding THEN "own" ELSE "stale"

View ==
  <<[fd \in Fds |-> IF socks[fd].used THEN socks[fd].port ELSE -1],
    [p \in Slots |-> <<IF ports[p].used THEN ports[p].port ELSE -1, [i \in QSlots |-> Kind(p, ports[p].q[i])]>>],
    eph_port, call, served>>
=============================================================================
