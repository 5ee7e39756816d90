----------------------------- MODULE MCSockets -----------------------------
(***************************************************************************)
(* Sockets with callers that are interchangeable.  What is left in an      *)
(* entry that is not in use is never read: nm_socket, nm_accept and        *)
(* alloc_conn set every field, so states that differ only there are one.   *)
(* Whether bytes are left in it is kept, for RxFromPeer.                   *)
(***************************************************************************)
EXTENDS Sockets, TLC

Symmetry == Permutations(Callers)

View ==
  <<[fd \in Fds |-> IF socks[fd].used THEN <<socks[fd]>> ELSE <<>>],
    [c \in Conns |-> IF conns[c].used THEN <<conns[c]>> ELSE <<conns[c].rx = Nothing>>],
    next_id, eph_port, call>>
=============================================================================
