-------------------------------- MODULE Tcp --------------------------------
(***************************************************************************)
(* The TCP connection table: kernel/net/tcp.c.  Both ends of a connection  *)
(* are entries of the same table and find each other by connection id.     *)
(* Every function holds tcp_lock throughout and is one action.             *)
(*                                                                         *)
(* What is in a receive buffer is abstracted to who sent it; addresses     *)
(* other than the local port decide nothing and are left out.              *)
(***************************************************************************)
EXTENDS Integers, FiniteSets

CONSTANTS
  NConns,  \* TCP_CONN_MAX (64)
  Ports,   \* port numbers in use
  MaxId    \* bound on next_id (int in the code)

ASSUME TcpAssumption == NConns \in Nat /\ MaxId \in Nat /\ Ports \subseteq Nat

Conns == 0 .. NConns - 1
States == {"CLOSED", "LISTEN", "SYN_RECV", "ESTABLISHED"}
None == -1   \* peer_id of no connection
Nothing == 0 \* an empty receive buffer

VARIABLES
  conns,    \* the table: used, id, state, port, peer and who filled rx
  next_id

tcpVars == <<conns, next_id>>

TcpTypeOK ==
  /\ next_id \in Nat \ {0}
  /\ conns \in [Conns -> [used : BOOLEAN, id : 0 .. next_id - 1, state : States, port : Nat,
                          peer : None .. next_id - 1, rx : 0 .. next_id - 1]]

TcpInit ==
  /\ conns = [c \in Conns |-> [used |-> FALSE, id |-> 0, state |-> "CLOSED", port |-> 0,
                               peer |-> 0, rx |-> Nothing]]
  /\ next_id = 1

-----------------------------------------------------------------------------
\* find_by_id
ById(id) == {c \in Conns : conns[c].used /\ conns[c].id = id}

\* find_listener
Listeners(port) == {c \in Conns : conns[c].used /\ conns[c].state = "LISTEN" /\ conns[c].port = port}

\* Mutant: the buffer of the connection that had the entry before is kept.
FreshMutant(c, id, state, port, peer) ==
  [used |-> TRUE, id |-> id, state |-> state, port |-> port, peer |-> peer, rx |-> conns[c].rx]

\* Mutant: a connection is made its own peer.
FreshSelfMutant(c, id, state, port, peer) ==
  [used |-> TRUE, id |-> id, state |-> state, port |-> port, peer |-> id, rx |-> Nothing]

\* alloc_conn and the fields its caller sets.
Fresh(c, id, state, port, peer) ==
  [used |-> TRUE, id |-> id, state |-> state, port |-> port, peer |-> peer, rx |-> Nothing]

\* Mutant: the id is not incremented.
NewIdSameMutant(k) == next_id

\* next_id++, the k-th time in a call
NewId(k) == next_id + k

\* The entries that alloc_conn takes: the lowest unused ones.
IsFree(c) == ~conns[c].used
NextFree(from) == {c \in Conns : IsFree(c) /\ c >= from /\ \A d \in Conns : IsFree(d) /\ d >= from => c <= d}

\* tcp_listen; port numbers are not checked for another listener.
TcpListen(port) ==
  /\ next_id < MaxId
  /\ \E c \in NextFree(0) : conns' = [conns EXCEPT ![c] = Fresh(c, NewId(0), "LISTEN", port, None)]
  /\ next_id' = next_id + 1

\* tcp_connect: the client's end is established, the server's waits for accept.
TcpConnect(dst, src) ==
  /\ next_id + 1 < MaxId
  /\ Listeners(dst) # {}
  /\ \E cli \in NextFree(0) : \E srv \in NextFree(cli + 1) :
       conns' = [conns EXCEPT ![cli] = Fresh(cli, NewId(0), "ESTABLISHED", src, NewId(1)),
                              ![srv] = Fresh(srv, NewId(1), "SYN_RECV", dst, NewId(0))]
  /\ next_id' = next_id + 2

\* tcp_connect with a listener and one free entry: it is taken and given back,
\* and its id is used up.
TcpConnectFails(dst) ==
  /\ next_id < MaxId
  /\ Listeners(dst) # {}
  /\ \E cli \in NextFree(0) :
       /\ NextFree(cli + 1) = {}
       /\ conns' = [conns EXCEPT ![cli] = [used |-> FALSE, id |-> NewId(0), state |-> "CLOSED",
                                           port |-> conns[cli].port, peer |-> None, rx |-> Nothing]]
  /\ next_id' = next_id + 1

\* Mutant: any connection of the port is taken for one that waits.
WaitingMutant(port) == {c \in Conns : conns[c].used /\ conns[c].port = port}

\* The connections tcp_accept may return: the first that waits on the port.
Waiting(port) == {c \in Conns : conns[c].used /\ conns[c].state = "SYN_RECV" /\ conns[c].port = port}
Accepted(port) == {c \in Waiting(port) : \A d \in Waiting(port) : c <= d}

\* Mutant: the connection goes on waiting.
TcpAcceptMutant(port) == Accepted(port) # {} /\ UNCHANGED tcpVars

TcpAccept(port) ==
  /\ \E c \in Accepted(port) : conns' = [conns EXCEPT ![c].state = "ESTABLISHED"]
  /\ UNCHANGED next_id

\* The entry a connection's bytes go to.
Peer(c) == ById(conns[c].peer)

\* The entries tcp_send and tcp_recv work on: none, or one.
Open(id) == {c \in ById(id) : conns[c].state = "ESTABLISHED"}
Receiving(id) == {d \in Conns : conns[d].state = "ESTABLISHED" /\ \E c \in Open(id) : d \in Peer(c)}
Filled(id) == {c \in Open(id) : conns[c].rx # Nothing}

\* tcp_send: the peer's buffer is overwritten, whether it was read or not.
TcpSend(id) ==
  /\ \E d \in Receiving(id) : conns' = [conns EXCEPT ![d].rx = id]
  /\ UNCHANGED next_id

\* tcp_recv of a buffer that is not empty: what does not fit is dropped.
TcpRecv(id) ==
  /\ \E c \in Filled(id) : conns' = [conns EXCEPT ![c].rx = Nothing]
  /\ UNCHANGED next_id

\* Mutant: the peer's entry is given back too.
TcpCloseMutant(id) ==
  /\ ById(id) # {}
  /\ conns' = [c \in Conns |-> [conns[c] EXCEPT !.used = conns[c].used /\ id \notin {conns[c].id, conns[c].peer}]]
  /\ UNCHANGED next_id

\* tcp_close: the peer is not told.
TcpClose(id) ==
  /\ \E c \in ById(id) : conns' = [conns EXCEPT ![c].used = FALSE]
  /\ UNCHANGED next_id

-----------------------------------------------------------------------------
(* Properties *)

Used == {c \in Conns : conns[c].used}

\* A connection id names one entry of the table, and an id that is still to be
\* given out names none: find_by_id never returns a stranger's connection.
IdsUnique ==
  \A c, d \in Used : conns[c].id \in 1 .. next_id - 1 /\ (conns[c].id = conns[d].id => c = d)

\* Two ends of a connection name each other as long as both are in the table,
\* and at most one of them waits to be accepted.
PeersMutual ==
  \A c, d \in Used :
    conns[c].peer = conns[d].id =>
      /\ conns[d].peer = conns[c].id /\ c # d
      /\ "ESTABLISHED" \in {conns[c].state, conns[d].state}

\* What a connection receives was sent by its own peer: nothing is left in the
\* buffer from the connection that had the entry before, and nobody writes to
\* an entry through the id of a connection that is gone.
RxFromPeer == \A c \in Used : conns[c].rx # Nothing => conns[c].rx = conns[c].peer
=============================================================================
