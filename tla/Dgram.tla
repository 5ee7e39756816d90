------------------------------- MODULE Dgram -------------------------------
(***************************************************************************)
(* Datagram sockets, kernel/net/socket.c, on top of the port table that    *)
(* Udp models.  As in Sockets, a call drops sock_lock before it calls      *)
(* udp.c, and other callers may close the socket, or open another under    *)
(* its number, before the call goes on.                                    *)
(*                                                                         *)
(* udp_bind succeeds for a port that is bound already, so sockets may      *)
(* share one; the first of them to close unbinds it.  `served' is history: *)
(* the port that a call has bound for the socket, unless a close of        *)
(* another socket has unbound it since, or a bind that failed has put an   *)
(* older port back into the socket.                                        *)
(***************************************************************************)
EXTENDS Udp

CONSTANTS
  NSocks,      \* SOCK_MAX (64)
  Callers,     \* who calls the socket API at the same time
  FirstEph,    \* first value of eph_port (40000)
  PortSpace    \* 2^16: eph_port is a uint16_t

ASSUME DgramAssumption ==
  /\ NSocks \in Nat \ {0} /\ PortSpace \in Nat \ {0}
  /\ FirstEph \in 0 .. PortSpace - 1 /\ UdpPorts \subseteq 0 .. PortSpace - 1

Fds == 0 .. NSocks - 1

VARIABLES
  socks,      \* used and port of each entry
  eph_port,
  call,       \* at, and the local variables fd, port and old_port
  served

sockVars == <<socks, eph_port, call, served>>
dgramVars == <<sockVars, udpVars>>

NoPort == 0
NoCall == [at |-> "idle", fd |-> 0, port |-> NoPort, old |-> NoPort]

DgramInit ==
  /\ UdpInit
  /\ socks = [fd \in Fds |-> [used |-> FALSE, port |-> NoPort]]
  /\ eph_port = FirstEph
  /\ call = [k \in Callers |-> NoCall]
  /\ served = [fd \in Fds |-> NoPort]

-----------------------------------------------------------------------------
Enters(k) == call[k].at = "idle"
GoesTo(k, section) == call' = [call EXCEPT ![k] = section]
Returns(k) == GoesTo(k, NoCall)

\* alloc_socket_unlocked
FreeFds == {fd \in Fds : ~socks[fd].used /\ \A g \in Fds : ~socks[g].used => fd <= g}

\* nm_socket
Socket(k) ==
  /\ Enters(k)
  /\ \E fd \in FreeFds : socks' = [socks EXCEPT ![fd] = [used |-> TRUE, port |-> NoPort]]
  /\ UNCHANGED <<eph_port, call, served, udpVars>>

\* nm_bind: the port is stored before it is known whether it can be bound.
BindBegin(k, fd, port) ==
  /\ Enters(k) /\ socks[fd].used
  /\ socks' = [socks EXCEPT ![fd].port = port]
  /\ served' = [served EXCEPT ![fd] = NoPort]
  /\ GoesTo(k, [NoCall EXCEPT !.at = "bind", !.fd = fd, !.port = port, !.old = socks[fd].port])
  /\ UNCHANGED <<eph_port, udpVars>>

\* udp_bind has bound the port for the socket of this number, if that still has the port.
Serves(fd, port) ==
  served' = IF socks[fd].used /\ socks[fd].port = port THEN [served EXCEPT ![fd] = port] ELSE served

\* udp_bind returns 0, for a port that was bound already too.
BindsPort(fd, port) ==
  /\ UdpBind(port) \/ (FindPort(port) # {} /\ UNCHANGED udpVars)
  /\ Serves(fd, port)

\* udp_bind fails.
BindFails(port) == port = NoPort \/ (FindPort(port) = {} /\ FreePorts = {})

BindUdp(k) ==
  /\ call[k].at = "bind"
  /\ \/ BindsPort(call[k].fd, call[k].port) /\ Returns(k)
     \/ /\ BindFails(call[k].port)
        /\ GoesTo(k, [call[k] EXCEPT !.at = "undo"])
        /\ UNCHANGED <<served, udpVars>>
  /\ UNCHANGED <<socks, eph_port>>

\* The socket of this number, which may be another one by now, gets the old port.
BindUndo(k) ==
  /\ call[k].at = "undo"
  /\ IF socks[call[k].fd].used
     THEN /\ socks' = [socks EXCEPT ![call[k].fd].port = call[k].old]
          /\ served' = [served EXCEPT ![call[k].fd] = NoPort]
     ELSE UNCHANGED <<socks, served>>
  /\ Returns(k)
  /\ UNCHANGED <<eph_port, udpVars>>

\* Mutant: a port that the socket has is replaced too.
SourcePortMutant(fd) == eph_port

\* The port nm_sendto sends from.
SourcePort(fd) == IF socks[fd].port = NoPort THEN eph_port ELSE socks[fd].port

\* eph_port++; it comes round to 0, which stands for no port
NextEph(port) == (port + 1) % PortSpace

\* nm_sendto: a socket without a port gets the next ephemeral one, and keeps it.
SendBegin(k, fd) ==
  /\ Enters(k) /\ socks[fd].used
  /\ socks' = [socks EXCEPT ![fd].port = SourcePort(fd)]
  /\ eph_port' = IF socks[fd].port = NoPort THEN NextEph(eph_port) ELSE eph_port
  /\ GoesTo(k, [NoCall EXCEPT !.at = "send", !.fd = fd, !.port = SourcePort(fd)])
  /\ UNCHANGED <<served, udpVars>>

SendBind(k) ==
  /\ call[k].at = "send"
  /\ \/ BindsPort(call[k].fd, call[k].port) /\ GoesTo(k, [NoCall EXCEPT !.at = "deliver"])
     \/ BindFails(call[k].port) /\ Returns(k) /\ UNCHANGED <<served, udpVars>>
  /\ UNCHANGED <<socks, eph_port>>

\* udp_sendto puts the datagram into the queue of the port it is for, on this machine.
Dropped(dst) == \A p \in FindPort(dst) : Vacant(p) = {}

SendDeliver(k, dst) ==
  /\ call[k].at = "deliver"
  /\ UdpDeliver(dst) \/ (Dropped(dst) /\ UNCHANGED udpVars)
  /\ Returns(k)
  /\ UNCHANGED <<socks, eph_port, served>>

\* nm_recvfrom
RecvBegin(k, fd) ==
  /\ Enters(k) /\ socks[fd].used
  /\ GoesTo(k, [NoCall EXCEPT !.at = "recv", !.port = socks[fd].port])
  /\ UNCHANGED <<socks, eph_port, served, udpVars>>

RecvUdp(k) ==
  /\ call[k].at = "recv"
  /\ UdpRecv(call[k].port) \/ ((\A p \in FindPort(call[k].port) : Queued(p) = {}) /\ UNCHANGED udpVars)
  /\ Returns(k)
  /\ UNCHANGED <<socks, eph_port, served>>

\* nm_close_socket up to sock_unlock.
CloseBegin(k, fd) ==
  /\ Enters(k) /\ socks[fd].used
  /\ socks' = [socks EXCEPT ![fd].used = FALSE]
  /\ served' = [served EXCEPT ![fd] = NoPort]
  /\ IF socks[fd].port # NoPort
     THEN GoesTo(k, [NoCall EXCEPT !.at = "unbind", !.port = socks[fd].port])
     ELSE UNCHANGED call
  /\ UNCHANGED <<eph_port, udpVars>>

CloseUdp(k) ==
  /\ call[k].at = "unbind"
  /\ UdpUnbind(call[k].port) \/ (FindPort(call[k].port) = {} /\ UNCHANGED udpVars)
  /\ served' = [fd \in Fds |-> IF served[fd] = call[k].port THEN NoPort ELSE served[fd]]
  /\ Returns(k)
  /\ UNCHANGED <<socks, eph_port>>

\* udp_input: a datagram from the network.
Input(dst) == UdpDeliver(dst) /\ UNCHANGED sockVars

DgramNext ==
  \/ \E k \in Callers :
       \/ Socket(k) \/ BindUdp(k) \/ BindUndo(k) \/ SendBind(k) \/ RecvUdp(k) \/ CloseUdp(k)
       \/ \E dst \in UdpPorts : SendDeliver(k, dst)
       \/ \E fd \in Fds :
            \/ SendBegin(k, fd) \/ RecvBegin(k, fd) \/ CloseBegin(k, fd)
            \/ \E port \in UdpPorts \cup {NoPort} : BindBegin(k, fd, port)
  \/ \E dst \in UdpPorts : Input(dst)

DgramSpec == DgramInit /\ [][DgramNext]_dgramVars

-----------------------------------------------------------------------------
(* Properties *)

\* A port that a call has bound for a socket stays the socket's, and stays bound, until the socket is
\* closed or bound anew.  Only two things of all that other callers do can take it away: a close of a
\* socket that has, or had, the same port, and a failing bind that was begun under the same number.
ServedIsBound ==
  \A fd \in Fds : served[fd] # NoPort =>
    socks[fd].used /\ socks[fd].port = served[fd] /\ FindPort(served[fd]) # {}
=============================================================================
