------------------------------ MODULE Sockets ------------------------------
(***************************************************************************)
(* Stream sockets, kernel/net/socket.c, on top of the connection table     *)
(* that Tcp models.  A call holds sock_lock while it looks at the socket,  *)
(* drops it to call tcp.c, and takes it again to store the result; between *)
(* these sections other callers run, and may close the socket and open a   *)
(* new one under the same number.  call[k] is where caller k stands.       *)
(*                                                                         *)
(* Datagram sockets are in Dgram.                                          *)
(***************************************************************************)
EXTENDS Tcp

CONSTANTS
  NSocks,      \* SOCK_MAX (64)
  Callers,     \* who calls the socket API at the same time
  FirstEph,    \* first value of eph_port (40000)
  PortSpace    \* 2^16: eph_port is a uint16_t

ASSUME SocketsAssumption ==
  /\ NSocks \in Nat \ {0} /\ PortSpace \in Nat \ {0}
  /\ FirstEph \in 0 .. PortSpace - 1 /\ Ports \subseteq 0 .. PortSpace - 1

Fds == 0 .. NSocks - 1

VARIABLES
  socks,      \* used, port, conn (tcp_conn_id) and listening of each entry
  eph_port,
  call        \* at, and the local variables fd, port, peer_port, auto and id

sockVars == <<socks, eph_port, call>>
vars == <<sockVars, tcpVars>>

Idle == [at |-> "idle", fd |-> 0, port |-> 0, dst |-> 0, auto |-> FALSE, id |-> 0]
NewSocket == [used |-> TRUE, port |-> 0, conn |-> None, listening |-> FALSE]

\* The sections of the calls that have not come to their end.
Sections == {"listen", "listen_set", "accept", "accept_set", "connect", "connect_set", "undo", "close",
             "send", "recv"}

TypeOK ==
  /\ TcpTypeOK
  /\ socks \in [Fds -> [used : BOOLEAN, port : 0 .. PortSpace - 1, conn : None .. next_id - 1,
                        listening : BOOLEAN]]
  /\ eph_port \in 0 .. PortSpace - 1
  /\ call \in [Callers -> [at : {"idle"} \cup Sections, fd : Fds, port : 0 .. PortSpace - 1,
                           dst : Ports \cup {0}, auto : BOOLEAN, id : 0 .. next_id - 1]]

Init ==
  /\ TcpInit
  /\ socks = [fd \in Fds |-> [used |-> FALSE, port |-> 0, conn |-> 0, listening |-> FALSE]]
  /\ eph_port = FirstEph
  /\ call = [k \in Callers |-> Idle]

-----------------------------------------------------------------------------
\* alloc_socket_unlocked
FreeFds == {fd \in Fds : ~socks[fd].used /\ \A g \in Fds : ~socks[g].used => fd <= g}

\* Caller k is about to enter, or to leave, a call.
Enters(k) == call[k].at = "idle"
GoesTo(k, section) == call' = [call EXCEPT ![k] = section]
Returns(k) == GoesTo(k, Idle)
Closing(id) == [Idle EXCEPT !.at = "close", !.id = id]

\* nm_socket
Socket(k) ==
  /\ Enters(k)
  /\ \E fd \in FreeFds : socks' = [socks EXCEPT ![fd] = NewSocket]
  /\ UNCHANGED <<eph_port, call, tcpVars>>

\* nm_bind of a stream socket
Bind(k, fd, port) ==
  /\ Enters(k) /\ socks[fd].used
  /\ socks' = [socks EXCEPT ![fd].port = port]
  /\ UNCHANGED <<eph_port, call, tcpVars>>

\* nm_listen: the socket is looked at, tcp_listen is called, its result is stored.
ListenBegin(k, fd) ==
  /\ Enters(k) /\ socks[fd].used /\ socks[fd].port # 0
  /\ GoesTo(k, [Idle EXCEPT !.at = "listen", !.fd = fd, !.port = socks[fd].port])
  /\ UNCHANGED <<socks, eph_port, tcpVars>>

ListenTcp(k) ==
  /\ call[k].at = "listen"
  /\ \/ /\ TcpListen(call[k].port)
        /\ GoesTo(k, [call[k] EXCEPT !.at = "listen_set", !.id = next_id])
     \/ /\ NextFree(0) = {} /\ Returns(k)
        /\ UNCHANGED tcpVars
  /\ UNCHANGED <<socks, eph_port>>

\* The result goes to the socket of that number, which may be another one by
\* now; if there is none the connection is closed again.
Attach(k, listening) ==
  /\ IF socks[call[k].fd].used
     THEN /\ socks' = [socks EXCEPT ![call[k].fd] =
                         [socks[call[k].fd] EXCEPT !.conn = call[k].id,
                                                   !.listening = listening \/ socks[call[k].fd].listening]]
          /\ Returns(k)
     ELSE /\ GoesTo(k, Closing(call[k].id))
          /\ UNCHANGED socks
  /\ UNCHANGED <<eph_port, tcpVars>>

ListenSet(k) == call[k].at = "listen_set" /\ Attach(k, TRUE)

\* nm_accept
AcceptBegin(k, fd) ==
  /\ Enters(k) /\ socks[fd].used /\ socks[fd].listening
  /\ GoesTo(k, [Idle EXCEPT !.at = "accept", !.port = socks[fd].port])
  /\ UNCHANGED <<socks, eph_port, tcpVars>>

AcceptTcp(k) ==
  /\ call[k].at = "accept"
  /\ \/ /\ TcpAccept(call[k].port)
        /\ \E c \in Accepted(call[k].port) : GoesTo(k, [call[k] EXCEPT !.at = "accept_set", !.id = conns[c].id])
     \/ /\ Accepted(call[k].port) = {} /\ Returns(k)
        /\ UNCHANGED tcpVars
  /\ UNCHANGED <<socks, eph_port>>

\* The accepted connection gets a socket of its own, or is closed.
AcceptSet(k) ==
  /\ call[k].at = "accept_set"
  /\ \/ /\ \E fd \in FreeFds :
             socks' = [socks EXCEPT ![fd] = [NewSocket EXCEPT !.port = call[k].port, !.conn = call[k].id]]
        /\ Returns(k)
     \/ /\ FreeFds = {}
        /\ GoesTo(k, Closing(call[k].id))
        /\ UNCHANGED socks
  /\ UNCHANGED <<eph_port, tcpVars>>

\* eph_port++; it comes round to 0, which stands for no port
NextEph(port) == (port + 1) % PortSpace

\* nm_connect: a socket without a port gets the next ephemeral one.
ConnectBegin(k, fd, dst) ==
  /\ Enters(k) /\ socks[fd].used
  /\ LET auto == socks[fd].port = 0
         port == IF auto THEN eph_port ELSE socks[fd].port
     IN  /\ socks' = [socks EXCEPT ![fd].port = port]
         /\ eph_port' = IF auto THEN NextEph(eph_port) ELSE eph_port
         /\ GoesTo(k, [Idle EXCEPT !.at = "connect", !.fd = fd, !.port = port, !.dst = dst, !.auto = auto])
  /\ UNCHANGED tcpVars

\* tcp_connect has failed: an ephemeral port has to be taken back.
ConnectRefused(k) == IF call[k].auto THEN GoesTo(k, [call[k] EXCEPT !.at = "undo"]) ELSE Returns(k)

ConnectTcp(k) ==
  /\ call[k].at = "connect"
  /\ \/ /\ TcpConnect(call[k].dst, call[k].port)
        /\ GoesTo(k, [call[k] EXCEPT !.at = "connect_set", !.id = next_id])
     \/ TcpConnectFails(call[k].dst) /\ ConnectRefused(k)
     \/ /\ Listeners(call[k].dst) = {} \/ NextFree(0) = {}
        /\ ConnectRefused(k)
        /\ UNCHANGED tcpVars
  /\ UNCHANGED <<socks, eph_port>>

ConnectSet(k) == call[k].at = "connect_set" /\ Attach(k, FALSE)

\* The port is taken back only if the socket still has it.
ConnectUndo(k) ==
  /\ call[k].at = "undo"
  /\ LET fd == call[k].fd
     IN  IF socks[fd].used /\ socks[fd].port = call[k].port
         THEN socks' = [socks EXCEPT ![fd].port = 0]
         ELSE UNCHANGED socks
  /\ Returns(k)
  /\ UNCHANGED <<eph_port, tcpVars>>

\* nm_close_socket up to sock_unlock.
CloseBegin(k, fd) ==
  /\ Enters(k) /\ socks[fd].used
  /\ socks' = [socks EXCEPT ![fd].used = FALSE]
  /\ IF socks[fd].conn > 0
     THEN GoesTo(k, Closing(socks[fd].conn))
     ELSE UNCHANGED call
  /\ UNCHANGED <<eph_port, tcpVars>>

\* tcp_close at the end of a close, or of a call that could not store its result.
CloseTcp(k) ==
  /\ call[k].at = "close"
  /\ TcpClose(call[k].id) \/ (ById(call[k].id) = {} /\ UNCHANGED tcpVars)
  /\ Returns(k)
  /\ UNCHANGED <<socks, eph_port>>

\* nm_sendto and nm_recvfrom read the connection's id; it may be closed before they use it.
IoBegin(k, fd, section) ==
  /\ Enters(k) /\ socks[fd].used /\ socks[fd].conn > 0
  /\ GoesTo(k, [Idle EXCEPT !.at = section, !.id = socks[fd].conn])
  /\ UNCHANGED <<socks, eph_port, tcpVars>>

SendTcp(k) ==
  /\ call[k].at = "send"
  /\ TcpSend(call[k].id) \/ (Receiving(call[k].id) = {} /\ UNCHANGED tcpVars)
  /\ Returns(k)
  /\ UNCHANGED <<socks, eph_port>>

RecvTcp(k) ==
  /\ call[k].at = "recv"
  /\ TcpRecv(call[k].id) \/ (Filled(call[k].id) = {} /\ UNCHANGED tcpVars)
  /\ Returns(k)
  /\ UNCHANGED <<socks, eph_port>>

Next ==
  \E k \in Callers :
    \/ Socket(k) \/ ListenTcp(k) \/ ListenSet(k) \/ AcceptTcp(k) \/ AcceptSet(k)
    \/ ConnectTcp(k) \/ ConnectSet(k) \/ ConnectUndo(k) \/ CloseTcp(k)
    \/ SendTcp(k) \/ RecvTcp(k)
    \/ \E fd \in Fds :
         \/ ListenBegin(k, fd) \/ AcceptBegin(k, fd) \/ CloseBegin(k, fd)
         \/ \E section \in {"send", "recv"} : IoBegin(k, fd, section)
         \/ \E port \in Ports : Bind(k, fd, port) \/ ConnectBegin(k, fd, port)

Spec == Init /\ [][Next]_vars

-----------------------------------------------------------------------------
(* Properties *)

\* The connection that an open socket, or a call in progress, answers for.
SocketConn(fd) == IF socks[fd].used THEN socks[fd].conn ELSE None
Carries(k) == call[k].at \in {"listen_set", "accept_set", "connect_set", "close"}

\* A connection has one owner: no two open sockets share one, and none belongs
\* to a socket while a call still carries it.  So nobody closes a connection
\* under another's feet, whatever the descriptors are reused for meanwhile.
OneOwner ==
  /\ \A f, g \in Fds : SocketConn(f) > 0 /\ SocketConn(f) = SocketConn(g) => f = g
  /\ \A k, l \in Callers : Carries(k) /\ Carries(l) /\ call[k].id = call[l].id => k = l
  /\ \A k \in Callers, f \in Fds : Carries(k) => SocketConn(f) # call[k].id

\* The connection of an open socket, and the one a call carries, is in the
\* connection table until its owner closes it.
OwnedConnExists ==
  /\ \A f \in Fds : SocketConn(f) > 0 => ById(SocketConn(f)) # {}
  /\ \A k \in Callers : Carries(k) => ById(call[k].id) # {}

\* A connection that waits to be accepted belongs to nobody yet.
WaitingIsUnowned ==
  \A c \in Used : conns[c].state = "SYN_RECV" =>
    /\ \A f \in Fds : SocketConn(f) # conns[c].id
    /\ \A k \in Callers : Carries(k) => call[k].id # conns[c].id
=============================================================================
