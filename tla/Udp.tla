-------------------------------- MODULE Udp --------------------------------
(***************************************************************************)
(* The UDP ports and their queues: kernel/net/udp.c.  Every function holds *)
(* udp_lock throughout and is one action.  Datagrams are numbered in the   *)
(* order in which they arrive, and bindings in the order in which they are *)
(* made; the code keeps neither number.                                    *)
(***************************************************************************)
EXTENDS Integers, FiniteSets

CONSTANTS
  NPorts,     \* UDP_PORT_MAX (64)
  QueueCap,   \* UDP_QUEUE_CAP (16)
  UdpPorts,   \* port numbers in use
  MaxMsgs,    \* bound on the datagrams delivered
  MaxBinds    \* bound on the bindings made

ASSUME UdpAssumption ==
  /\ NPorts \in Nat /\ QueueCap \in Nat /\ MaxMsgs \in Nat /\ MaxBinds \in Nat
  /\ UdpPorts \subseteq Nat

Slots == 0 .. NPorts - 1
QSlots == 0 .. QueueCap - 1
NoDatagram == [seq |-> 0, dst |-> 0, binding |-> 0]

VARIABLES
  ports,   \* used, port, the queue, and which binding the entry belongs to
  arrived, bound   \* history: datagrams and bindings so far

udpVars == <<ports, arrived, bound>>

UdpInit ==
  /\ ports = [p \in Slots |->
               [used |-> FALSE, port |-> 0, binding |-> 0, q |-> [i \in QSlots |-> NoDatagram]]]
  /\ arrived = 0 /\ bound = 0

-----------------------------------------------------------------------------
\* find_port
FindPort(port) ==
  {p \in Slots : ports[p].used /\ ports[p].port = port
                 /\ \A r \in Slots : ports[r].used /\ ports[r].port = port => p <= r}

FreePorts == {p \in Slots : ~ports[p].used /\ \A r \in Slots : ~ports[r].used => p <= r}

\* Mutant: a port that is bound already is bound again.
NewlyBoundMutant(port) == FreePorts

\* The entry udp_bind fills: none if the port is bound.
NewlyBound(port) == IF FindPort(port) = {} THEN FreePorts ELSE {}

\* Mutant: the queue keeps what the last binding of the entry left.
ClearedMutant(p) == ports[p].q

\* The queue of a new binding.
Cleared(p) == [i \in QSlots |-> NoDatagram]

UdpBind(port) ==
  /\ port # 0
  /\ bound < MaxBinds
  /\ \E p \in NewlyBound(port) :
       ports' = [ports EXCEPT ![p] = [used |-> TRUE, port |-> port, binding |-> bound + 1, q |-> Cleared(p)]]
  /\ bound' = bound + 1
  /\ UNCHANGED arrived

UdpUnbind(port) ==
  /\ \E p \in FindPort(port) : ports' = [ports EXCEPT ![p].used = FALSE]
  /\ UNCHANGED <<arrived, bound>>

\* The place in a queue that udp_deliver fills, and the one udp_recv empties:
\* the lowest.
Lowest(S) == {i \in S : \A j \in S : i <= j}
Vacant(p) == {i \in QSlots : ports[p].q[i] = NoDatagram}
Queued(p) == {i \in QSlots : ports[p].q[i] # NoDatagram}

\* udp_deliver: a datagram for an unbound port or a full queue is dropped.
UdpDeliver(dst) ==
  /\ arrived < MaxMsgs
  /\ \E p \in FindPort(dst) : \E i \in Lowest(Vacant(p)) :
       ports' = [ports EXCEPT ![p].q[i] = [seq |-> arrived + 1, dst |-> dst, binding |-> ports[p].binding]]
  /\ arrived' = arrived + 1
  /\ UNCHANGED bound

\* udp_recv of a queue that is not empty.
UdpRecv(port) ==
  /\ \E p \in FindPort(port) : \E i \in Lowest(Queued(p)) : ports' = [ports EXCEPT ![p].q[i] = NoDatagram]
  /\ UNCHANGED <<arrived, bound>>

-----------------------------------------------------------------------------
(* Properties *)

Bound == {p \in Slots : ports[p].used}

\* A port number is bound by one entry at most: find_port has no choice.
PortsUnique == \A p, r \in Bound : ports[p].port = ports[r].port => p = r

\* What can be received on a port was sent to that port while this very binding
\* existed, although unbinding leaves the queue of the entry as it is.
NoStaleDatagrams ==
  \A p \in Bound : \A i \in Queued(p) :
    ports[p].q[i].dst = ports[p].port /\ ports[p].q[i].binding = ports[p].binding
=============================================================================
