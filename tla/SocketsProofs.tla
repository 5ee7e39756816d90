--------------------------- MODULE SocketsProofs ---------------------------
(***************************************************************************)
(* The properties of Sockets, for connection and socket tables of any size *)
(* and any number of callers.                                              *)
(*                                                                         *)
(* The properties of the connection table (Tcp) are inductive together: an *)
(* id that was never given out is stored nowhere (TcpTypeOK), so the ids   *)
(* of new connections meet no old peer_id, and a sender that finds a peer  *)
(* by id is found by it in the same way (PeersMutual), which makes it the  *)
(* right one to fill the peer's buffer.                                    *)
(*                                                                         *)
(* So are those of the sockets, given these: an owner's connection is in   *)
(* the table and does not wait to be accepted (Settled), so tcp_accept     *)
(* returns one without an owner, and a new id is no owner's.  Every step   *)
(* lets one connection move at most: to a call, from a call to a socket,   *)
(* from a socket to a call, or out of the table.                           *)
(***************************************************************************)
EXTENDS Sockets, TLAPS

TcpInv == TcpTypeOK /\ IdsUnique /\ PeersMutual /\ RxFromPeer

\* The empty table of static storage satisfies the invariant (conns, next_id).
LEMMA TcpInitInv == TcpInit => TcpInv
BY DEF TcpInit, TcpInv, TcpTypeOK, IdsUnique, PeersMutual, RxFromPeer, Used, States, None, Nothing

\* A table in which entries are only replaced by fresh ones, or given back,
\* keeps the invariant: tcp_listen.
LEMMA ListenInv ==
  ASSUME TcpInv, NEW port \in Nat, TcpListen(port)
  PROVE  TcpInv'
<1>1. PICK c \in Conns : /\ conns' = [conns EXCEPT ![c] = Fresh(c, NewId(0), "LISTEN", port, None)]
                         /\ next_id' = next_id + 1
  BY Zenon DEF TcpListen, NextFree
<1>2. next_id \in Nat \ {0} BY Zenon DEF TcpInv, TcpTypeOK
<1>3. TcpTypeOK'
  BY <1>1, <1>2 DEF TcpInv, TcpTypeOK, Fresh, NewId, States, None, Nothing
<1>4. \A d \in Conns : d # c => conns'[d] = conns[d]
  BY <1>1, Zenon DEF TcpInv, TcpTypeOK
<1>5. conns'[c] = [used |-> TRUE, id |-> next_id, state |-> "LISTEN", port |-> port, peer |-> -1, rx |-> 0]
  BY <1>1, <1>2 DEF TcpInv, TcpTypeOK, Fresh, NewId, None, Nothing
<1>6. \A d \in Conns : conns[d].id < next_id /\ conns[d].peer < next_id /\ conns[d].id \in Int /\ conns[d].peer \in Int
  BY <1>2 DEF TcpInv, TcpTypeOK, None
<1>7. IdsUnique'
  BY <1>1, <1>2, <1>4, <1>5, <1>6 DEF TcpInv, IdsUnique, Used
<1>8. PeersMutual'
  BY <1>2, <1>4, <1>5, <1>6 DEF TcpInv, PeersMutual, IdsUnique, Used
<1>9. RxFromPeer'
  BY <1>4, <1>5 DEF TcpInv, RxFromPeer, Used, Nothing
<1> QED BY <1>3, <1>7, <1>8, <1>9, Zenon DEF TcpInv

\* The two ends that tcp_connect makes name each other and nobody else.
LEMMA ConnectInv ==
  ASSUME TcpInv, NEW dst \in Nat, NEW src \in Nat, TcpConnect(dst, src)
  PROVE  TcpInv'
<1>1. PICK cli \in NextFree(0) : \E srv \in NextFree(cli + 1) :
        conns' = [conns EXCEPT ![cli] = Fresh(cli, NewId(0), "ESTABLISHED", src, NewId(1)),
                               ![srv] = Fresh(srv, NewId(1), "SYN_RECV", dst, NewId(0))]
  BY Zenon DEF TcpConnect
<1>2. PICK srv \in NextFree(cli + 1) :
        conns' = [conns EXCEPT ![cli] = Fresh(cli, NewId(0), "ESTABLISHED", src, NewId(1)),
                               ![srv] = Fresh(srv, NewId(1), "SYN_RECV", dst, NewId(0))]
  BY <1>1, Zenon
<1>3. cli \in Conns /\ srv \in Conns /\ cli # srv
  <2>1. cli \in Conns /\ srv \in Conns /\ srv >= cli + 1 BY Zenon DEF NextFree
  <2> QED BY <2>1 DEF Conns
<1>4. next_id \in Nat \ {0} /\ next_id' = next_id + 2 BY Zenon DEF TcpInv, TcpTypeOK, TcpConnect
<1> DEFINE client == [used |-> TRUE, id |-> next_id, state |-> "ESTABLISHED", port |-> src, peer |-> next_id + 1, rx |-> 0]
           server == [used |-> TRUE, id |-> next_id + 1, state |-> "SYN_RECV", port |-> dst, peer |-> next_id, rx |-> 0]
<1>5. Fresh(cli, NewId(0), "ESTABLISHED", src, NewId(1)) = client /\ Fresh(srv, NewId(1), "SYN_RECV", dst, NewId(0)) = server
  BY <1>4 DEF Fresh, NewId, Nothing
<1> HIDE DEF client, server
<1>6. DOMAIN conns = Conns /\ conns' = [conns EXCEPT ![cli] = client, ![srv] = server]
  BY <1>2, <1>5, Zenon DEF TcpInv, TcpTypeOK
<1>7. /\ conns' = [d \in Conns |-> IF d = srv THEN server ELSE IF d = cli THEN client ELSE conns[d]]
      /\ conns'[cli] = client /\ conns'[srv] = server
      /\ \A d \in Conns : d # cli /\ d # srv => conns'[d] = conns[d]
  BY <1>3, <1>6, Zenon
<1>8. TcpTypeOK'
  BY <1>3, <1>4, <1>7 DEF TcpInv, TcpTypeOK, States, None, client, server
<1>9. \A d \in Conns : conns[d].id < next_id /\ conns[d].peer < next_id /\ conns[d].id \in Int /\ conns[d].peer \in Int
  BY <1>4 DEF TcpInv, TcpTypeOK, None
<1>10. IdsUnique'
  BY <1>3, <1>4, <1>7, <1>9 DEF TcpInv, IdsUnique, Used, client, server
<1>11. PeersMutual'
  BY <1>3, <1>4, <1>7, <1>9 DEF TcpInv, PeersMutual, Used, client, server
<1>12. RxFromPeer'
  BY <1>3, <1>7, Zenon DEF TcpInv, RxFromPeer, Used, Nothing, client, server
<1> QED BY <1>8, <1>10, <1>11, <1>12, Zenon DEF TcpInv

\* The entry that tcp_connect takes and gives back stays unused.
LEMMA ConnectFailsInv ==
  ASSUME TcpInv, NEW dst \in Nat, TcpConnectFails(dst)
  PROVE  TcpInv'
<1>1. PICK cli \in Conns :
        /\ conns' = [conns EXCEPT ![cli] = [used |-> FALSE, id |-> NewId(0), state |-> "CLOSED",
                                            port |-> conns[cli].port, peer |-> None, rx |-> Nothing]]
        /\ next_id' = next_id + 1
  BY Zenon DEF TcpConnectFails, NextFree
<1>2. next_id \in Nat \ {0} BY Zenon DEF TcpInv, TcpTypeOK
<1>3. TcpTypeOK'
  BY <1>1, <1>2 DEF TcpInv, TcpTypeOK, NewId, States, None, Nothing
<1>4. (\A d \in Conns : d # cli => conns'[d] = conns[d]) /\ ~conns'[cli].used
  BY <1>1, Zenon DEF TcpInv, TcpTypeOK
<1>5. IdsUnique' /\ PeersMutual' /\ RxFromPeer'
  BY <1>1, <1>2, <1>4 DEF TcpInv, TcpTypeOK, IdsUnique, PeersMutual, RxFromPeer, Used
<1> QED BY <1>3, <1>5, Zenon DEF TcpInv

\* tcp_accept changes the state of one connection to established.
LEMMA AcceptInv ==
  ASSUME TcpInv, NEW port \in Nat, TcpAccept(port)
  PROVE  TcpInv'
<1>1. PICK c \in Conns : conns' = [conns EXCEPT ![c].state = "ESTABLISHED"] /\ next_id' = next_id
  BY Zenon DEF TcpAccept, Accepted, Waiting
<1>2. TcpTypeOK' BY <1>1 DEF TcpInv, TcpTypeOK, States
<1>3. /\ conns'[c].state = "ESTABLISHED"
      /\ \A d \in Conns : /\ conns'[d].used = conns[d].used /\ conns'[d].id = conns[d].id
                          /\ conns'[d].peer = conns[d].peer /\ conns'[d].rx = conns[d].rx
                          /\ conns'[d].state \in {conns[d].state, "ESTABLISHED"}
  BY <1>1, ZenonT(60) DEF TcpInv, TcpTypeOK
<1>4. IdsUnique' BY <1>1, <1>3 DEF TcpInv, IdsUnique, Used
<1>5. PeersMutual' BY <1>3 DEF TcpInv, PeersMutual, Used
<1>6. RxFromPeer' BY <1>3, ZenonT(60) DEF TcpInv, RxFromPeer, Used
<1> QED BY <1>2, <1>4, <1>5, <1>6, Zenon DEF TcpInv

\* tcp_send and tcp_recv change one receive buffer, tcp_send through PeersMutual.
LEMMA BufferInv ==
  ASSUME TcpInv, NEW id \in Int, TcpSend(id) \/ TcpRecv(id)
  PROVE  TcpInv'
<1>1. PICK d \in Conns, r \in 0 .. next_id - 1 :
        /\ conns' = [conns EXCEPT ![d].rx = r] /\ next_id' = next_id
        /\ r = Nothing \/ r = conns[d].peer
  <2>1. CASE TcpSend(id)
    <3>1. PICK d \in Receiving(id) : conns' = [conns EXCEPT ![d].rx = id]
      BY <2>1, Zenon DEF TcpSend
    <3>2. PICK c \in ById(id) : d \in Peer(c)  BY Zenon DEF Receiving, Open
    <3>3. c \in Used /\ d \in Used /\ conns[c].id = id /\ conns[c].peer = conns[d].id /\ d \in Conns
      BY <3>1, <3>2, Zenon DEF ById, Peer, Used
    <3>4. conns[d].peer = id BY <3>3, Zenon DEF TcpInv, PeersMutual
    <3>5. id \in 0 .. next_id - 1 BY <3>3, Zenon DEF TcpInv, TcpTypeOK, Used
    <3> QED BY <2>1, <3>1, <3>3, <3>4, <3>5, Zenon DEF TcpSend
  <2>2. CASE TcpRecv(id)
    <3>1. Nothing \in 0 .. next_id - 1 BY DEF TcpInv, TcpTypeOK, Nothing
    <3> QED BY <2>2, <3>1, Zenon DEF TcpRecv, Filled, Open, ById
  <2> QED BY <2>1, <2>2, Zenon
<1>2. TcpTypeOK' BY <1>1 DEF TcpInv, TcpTypeOK
<1>3. /\ conns'[d].rx = r
      /\ \A e \in Conns : /\ conns'[e].used = conns[e].used /\ conns'[e].id = conns[e].id
                          /\ conns'[e].peer = conns[e].peer /\ conns'[e].state = conns[e].state
                          /\ e # d => conns'[e].rx = conns[e].rx
  BY <1>1, ZenonT(60) DEF TcpInv, TcpTypeOK
<1>4. IdsUnique' BY <1>1, <1>3 DEF TcpInv, IdsUnique, Used
<1>5. PeersMutual' BY <1>3 DEF TcpInv, PeersMutual, Used
<1>6. RxFromPeer' BY <1>1, <1>3 DEF TcpInv, RxFromPeer, Used
<1> QED BY <1>2, <1>4, <1>5, <1>6, Zenon DEF TcpInv

\* tcp_close takes one connection out of the table.
LEMMA CloseInv ==
  ASSUME TcpInv, NEW id \in Int, TcpClose(id)
  PROVE  TcpInv'
<1>1. PICK c \in Conns : conns' = [conns EXCEPT ![c].used = FALSE] /\ next_id' = next_id
  BY Zenon DEF TcpClose, ById
<1>2. TcpTypeOK' BY <1>1, ZenonT(60) DEF TcpInv, TcpTypeOK
<1>3. \A d \in Conns : /\ conns'[d].used => conns[d].used
                       /\ conns'[d].id = conns[d].id /\ conns'[d].peer = conns[d].peer
                       /\ conns'[d].state = conns[d].state /\ conns'[d].rx = conns[d].rx
  BY <1>1, ZenonT(60) DEF TcpInv, TcpTypeOK
<1>4. IdsUnique' BY <1>1, <1>3 DEF TcpInv, IdsUnique, Used
<1>5. PeersMutual' BY <1>3 DEF TcpInv, PeersMutual, Used
<1>6. RxFromPeer' BY <1>3, ZenonT(60) DEF TcpInv, RxFromPeer, Used
<1> QED BY <1>2, <1>4, <1>5, <1>6, Zenon DEF TcpInv

\* The functions of tcp.c read and write conns and next_id only.
LEMMA TcpUnchanged ==
  ASSUME TcpInv, UNCHANGED tcpVars
  PROVE  TcpInv'
BY ZenonT(60) DEF tcpVars, TcpInv, TcpTypeOK, IdsUnique, PeersMutual, RxFromPeer, Used

-----------------------------------------------------------------------------
\* The connection with this id is in the table and does not wait to be accepted.
Settled(id) == \E c \in Conns : conns[c].used /\ conns[c].id = id /\ conns[c].state # "SYN_RECV"

SettledIds == {id \in Int : Settled(id)}

\* Whose connection is which: the one of each open socket, and the one each call in progress carries.
SocketOwns == [f \in Fds |-> SocketConn(f)]
CallOwns == [k \in Callers |-> IF Carries(k) THEN call[k].id ELSE None]

\* Every connection has one owner at most, and owners have settled connections.
Owned(so, co, settled) ==
  /\ so \in [Fds -> Int] /\ co \in [Callers -> Int]
  /\ \A f, g \in Fds : so[f] > 0 /\ so[f] = so[g] => f = g
  /\ \A k, l \in Callers : co[k] > 0 /\ co[k] = co[l] => k = l
  /\ \A k \in Callers, f \in Fds : co[k] > 0 => so[f] # co[k]
  /\ \A f \in Fds : so[f] > 0 => so[f] \in settled
  /\ \A k \in Callers : co[k] > 0 => co[k] \in settled

\* What a call carries is a connection.
CarriesOne == \A k \in Callers : Carries(k) => call[k].id > 0

SockInv == TcpInv /\ TypeOK /\ CarriesOne /\ Owned(SocketOwns, CallOwns, SettledIds)

\* Ids are numbers from 1 on, and an id that was not given out has no settled connection.
LEMMA SettledKnown ==
  ASSUME TcpInv, NEW id, Settled(id)
  PROVE  id \in 1 .. next_id - 1
BY Zenon DEF TcpInv, IdsUnique, Settled, Used

\* The properties of Sockets follow from who owns what (OneOwner, OwnedConnExists, WaitingIsUnowned).
LEMMA OwnGives ==
  ASSUME SockInv
  PROVE  OneOwner /\ OwnedConnExists /\ WaitingIsUnowned
<1>1. /\ \A f \in Fds : SocketOwns[f] = SocketConn(f)
      /\ \A k \in Callers : Carries(k) => CallOwns[k] = call[k].id /\ call[k].id > 0
  BY Zenon DEF SockInv, CarriesOne, SocketOwns, CallOwns
<1>2. OneOwner
  BY <1>1 DEF SockInv, Owned, OneOwner
<1>3. /\ \A f \in Fds : SocketConn(f) > 0 => Settled(SocketConn(f))
      /\ \A k \in Callers : Carries(k) => Settled(call[k].id)
  BY <1>1, Zenon DEF SockInv, Owned, SettledIds
<1>4. OwnedConnExists
  BY <1>3, Zenon DEF OwnedConnExists, Settled, ById
<1>5. \A c \in Used : conns[c].state = "SYN_RECV" => conns[c].id > 0 /\ ~Settled(conns[c].id)
  BY DEF SockInv, TcpInv, IdsUnique, Settled, Used
<1>6. WaitingIsUnowned
  BY <1>3, <1>5, Zenon DEF WaitingIsUnowned
<1> QED BY <1>2, <1>4, <1>6, Zenon

-----------------------------------------------------------------------------
\* tcp_listen gives out one id, of a connection that does not wait.
LEMMA ListenSettles ==
  ASSUME TcpInv, NEW port \in Nat, TcpListen(port)
  PROVE  \A id \in Int : id = next_id \/ Settled(id) => Settled(id)'
<1>1. PICK c \in NextFree(0) : conns' = [conns EXCEPT ![c] = Fresh(c, NewId(0), "LISTEN", port, None)]
  BY Zenon DEF TcpListen
<1>2. c \in Conns /\ ~conns[c].used BY Zenon DEF NextFree, IsFree
<1>3. DOMAIN conns = Conns /\ next_id \in Nat BY Zenon DEF TcpInv, TcpTypeOK
<1>4. conns'[c].used /\ conns'[c].id = next_id /\ conns'[c].state = "LISTEN"
  BY <1>1, <1>2, <1>3 DEF Fresh, NewId
<1>5. \A d \in Conns : d # c => conns'[d] = conns[d]
  BY <1>1, <1>2, <1>3, Zenon
<1> QED BY <1>2, <1>4, <1>5, Zenon DEF Settled

\* tcp_connect gives out two ids, the first of a connection that does not wait.
LEMMA ConnectSettles ==
  ASSUME TcpInv, NEW dst \in Nat, NEW src \in Nat, TcpConnect(dst, src)
  PROVE  \A id \in Int : id = next_id \/ Settled(id) => Settled(id)'
<1>1. PICK cli \in NextFree(0) : \E srv \in NextFree(cli + 1) :
        conns' = [conns EXCEPT ![cli] = Fresh(cli, NewId(0), "ESTABLISHED", src, NewId(1)),
                               ![srv] = Fresh(srv, NewId(1), "SYN_RECV", dst, NewId(0))]
  BY Zenon DEF TcpConnect
<1>2. PICK srv \in NextFree(cli + 1) :
        conns' = [conns EXCEPT ![cli] = Fresh(cli, NewId(0), "ESTABLISHED", src, NewId(1)),
                               ![srv] = Fresh(srv, NewId(1), "SYN_RECV", dst, NewId(0))]
  BY <1>1, Zenon
<1>3. cli \in Conns /\ srv \in Conns /\ cli # srv /\ ~conns[cli].used /\ ~conns[srv].used
  <2>1. cli \in Conns /\ srv \in Conns /\ srv >= cli + 1 /\ ~conns[cli].used /\ ~conns[srv].used
    BY Zenon DEF NextFree, IsFree
  <2> QED BY <2>1 DEF Conns
<1>4. DOMAIN conns = Conns /\ next_id \in Nat BY Zenon DEF TcpInv, TcpTypeOK
<1>5. /\ conns'[cli] = Fresh(cli, NewId(0), "ESTABLISHED", src, NewId(1))
      /\ \A d \in Conns : d # cli /\ d # srv => conns'[d] = conns[d]
  BY <1>2, <1>3, <1>4, Zenon
<1>6. conns'[cli].used /\ conns'[cli].id = next_id /\ conns'[cli].state = "ESTABLISHED"
  BY <1>4, <1>5 DEF Fresh, NewId
<1> QED BY <1>3, <1>5, <1>6, ZenonT(60) DEF Settled

\* A tcp_connect that fails touches an unused entry only.
LEMMA ConnectFailsSettles ==
  ASSUME TcpInv, NEW dst \in Nat, TcpConnectFails(dst)
  PROVE  \A id \in Int : Settled(id) => Settled(id)'
<1>1. PICK cli \in NextFree(0) :
        conns' = [conns EXCEPT ![cli] = [used |-> FALSE, id |-> NewId(0), state |-> "CLOSED",
                                         port |-> conns[cli].port, peer |-> None, rx |-> Nothing]]
  BY Zenon DEF TcpConnectFails
<1>2. cli \in Conns /\ ~conns[cli].used BY Zenon DEF NextFree, IsFree
<1>3. \A d \in Conns : d # cli => conns'[d] = conns[d]
  BY <1>1, <1>2, Zenon DEF TcpInv, TcpTypeOK
<1> QED BY <1>2, <1>3, Zenon DEF Settled

\* tcp_accept settles the connection it returns, which was not settled before.
LEMMA AcceptSettles ==
  ASSUME TcpInv, NEW port \in Nat, TcpAccept(port), NEW a \in Accepted(port)
  PROVE  /\ \A id \in Int : id = conns[a].id \/ Settled(id) => Settled(id)'
         /\ conns[a].id \in 1 .. next_id - 1 /\ ~Settled(conns[a].id)
<1>1. PICK c \in Accepted(port) : conns' = [conns EXCEPT ![c].state = "ESTABLISHED"]
  BY Zenon DEF TcpAccept
<1>2. a \in Conns /\ c \in Conns /\ a <= c /\ c <= a /\ conns[a].used /\ conns[a].state = "SYN_RECV"
  BY Zenon DEF Accepted, Waiting
<1>3. a = c BY <1>2 DEF Conns
<1>4. /\ conns'[c].state = "ESTABLISHED"
      /\ \A d \in Conns : /\ conns'[d].used = conns[d].used /\ conns'[d].id = conns[d].id
                          /\ conns'[d].state \in {conns[d].state, "ESTABLISHED"}
  BY <1>1, <1>2, ZenonT(60) DEF TcpInv, TcpTypeOK
<1>5. \A id \in Int : id = conns[a].id \/ Settled(id) => Settled(id)'
  BY <1>2, <1>3, <1>4 DEF Settled
<1>6. conns[a].id \in 1 .. next_id - 1 /\ ~Settled(conns[a].id)
  BY <1>2, Zenon DEF TcpInv, IdsUnique, Settled, Used
<1> QED BY <1>5, <1>6, Zenon

\* tcp_send and tcp_recv move no connection.
LEMMA BufferSettles ==
  ASSUME TcpInv, NEW id \in Int, TcpSend(id) \/ TcpRecv(id)
  PROVE  \A j \in Int : Settled(j) => Settled(j)'
<1>1. PICK d \in Conns : \E r : conns' = [conns EXCEPT ![d].rx = r]
  <2>1. CASE TcpSend(id)
    BY <2>1, Zenon DEF TcpSend, Receiving
  <2>2. CASE TcpRecv(id)
    BY <2>2, Zenon DEF TcpRecv, Filled, Open, ById
  <2> QED BY <2>1, <2>2, Zenon
<1>2. PICK r : conns' = [conns EXCEPT ![d].rx = r] BY <1>1, Zenon
<1>3. \A e \in Conns : /\ conns'[e].used = conns[e].used /\ conns'[e].id = conns[e].id
                       /\ conns'[e].state = conns[e].state
  BY <1>2, Zenon DEF TcpInv, TcpTypeOK
<1> QED BY <1>3, Zenon DEF Settled

\* tcp_close takes the connection with this id out of the table and no other.
LEMMA CloseSettles ==
  ASSUME TcpInv, NEW id \in Int, TcpClose(id)
  PROVE  \A j \in Int : j # id /\ Settled(j) => Settled(j)'
<1>1. PICK c \in ById(id) : conns' = [conns EXCEPT ![c].used = FALSE]
  BY Zenon DEF TcpClose
<1>2. c \in Conns /\ conns[c].id = id BY Zenon DEF ById
<1>3. \A d \in Conns : d # c => conns'[d] = conns[d]
  BY <1>1, <1>2, Zenon DEF TcpInv, TcpTypeOK
<1> QED BY <1>2, <1>3, Zenon DEF Settled

-----------------------------------------------------------------------------
\* A call comes to carry a connection that nobody owned (tcp_listen, tcp_accept, tcp_connect).
LEMMA CallTakes ==
  ASSUME NEW so, NEW co, NEW settled, NEW settled2, NEW k \in Callers, NEW id \in Int,
         Owned(so, co, settled), settled \subseteq settled2, id \in settled2, id \notin settled
  PROVE  Owned(so, [co EXCEPT ![k] = id], settled2)
BY ZenonT(60) DEF Owned

\* A call leaves the connection it carries, if it carries one, and that may leave the table (tcp_close).
LEMMA CallLeaves ==
  ASSUME NEW so, NEW co, NEW settled, NEW settled2, NEW k \in Callers,
         Owned(so, co, settled), settled \ {co[k]} \subseteq settled2
  PROVE  Owned(so, [co EXCEPT ![k] = None], settled2)
<1>1. None \in Int /\ ~(None > 0) BY DEF None
<1> QED BY <1>1, Zenon DEF Owned

\* A call stores the connection it carries in a socket, whatever that had before.
LEMMA SocketGets ==
  ASSUME NEW so, NEW co, NEW settled, NEW k \in Callers, NEW f \in Fds,
         Owned(so, co, settled), co[k] > 0
  PROVE  Owned([so EXCEPT ![f] = co[k]], [co EXCEPT ![k] = None], settled)
<1>1. None \in Int /\ ~(None > 0) BY DEF None
<1> QED BY <1>1, ZenonT(60) DEF Owned

\* A socket is closed, and the call that closes it carries its connection.
LEMMA SocketGives ==
  ASSUME NEW so, NEW co, NEW settled, NEW k \in Callers, NEW f \in Fds,
         Owned(so, co, settled), so[f] > 0
  PROVE  Owned([so EXCEPT ![f] = None], [co EXCEPT ![k] = so[f]], settled)
<1>1. None \in Int /\ ~(None > 0) BY DEF None
<1> QED BY <1>1, ZenonT(60) DEF Owned

\* A socket that has no connection is opened or closed.
LEMMA SocketEmpty ==
  ASSUME NEW so, NEW co, NEW settled, NEW f \in Fds, Owned(so, co, settled)
  PROVE  Owned([so EXCEPT ![f] = None], co, settled)
<1>1. None \in Int /\ ~(None > 0) BY DEF None
<1> QED BY <1>1, Zenon DEF Owned

\* The sections in which a call carries a connection.
Carrying == {"listen_set", "accept_set", "connect_set", "close"}

CallType(n) == [at : {"idle"} \cup Sections, fd : Fds, port : 0 .. PortSpace - 1,
                dst : Ports \cup {0}, auto : BOOLEAN, id : 0 .. n - 1]
EntryType(n) == [used : BOOLEAN, port : 0 .. PortSpace - 1, conn : None .. n - 1, listening : BOOLEAN]

\* What a step of one call does to the calls.
LEMMA CallStep ==
  ASSUME TypeOK, CarriesOne, NEW k \in Callers, NEW rec \in CallType(next_id'), GoesTo(k, rec),
         next_id' \in Nat, next_id <= next_id', rec.at \in Carrying => rec.id > 0
  PROVE  /\ call' \in [Callers -> CallType(next_id')]
         /\ CarriesOne'
         /\ CallOwns' = [CallOwns EXCEPT ![k] = IF rec.at \in Carrying THEN rec.id ELSE None]
<1>1. call \in [Callers -> CallType(next_id)] /\ next_id \in Nat
  BY Zenon DEF TypeOK, TcpTypeOK, CallType
<1>2. call' = [call EXCEPT ![k] = rec] BY Zenon DEF GoesTo
<1>3. call'[k] = rec /\ \A l \in Callers : l # k => call'[l] = call[l]
  BY <1>1, <1>2, Zenon
<1>4. \A l \in Callers : call[l] \in CallType(next_id')
  BY <1>1 DEF CallType
<1>5. call' \in [Callers -> CallType(next_id')] BY <1>1, <1>2, <1>4, Zenon
<1>6. \A l \in Callers : Carries(l)' <=> call'[l].at \in Carrying
  BY Zenon DEF Carries, Carrying
<1>7. \A l \in Callers : l # k => (Carries(l)' <=> Carries(l))
  BY <1>3, Zenon DEF Carries
<1>8. CarriesOne' BY <1>3, <1>6, <1>7, Zenon DEF CarriesOne
<1>9. CallOwns' = [CallOwns EXCEPT ![k] = IF rec.at \in Carrying THEN rec.id ELSE None]
  BY <1>3, <1>6, <1>7, Zenon DEF CallOwns
<1> QED BY <1>5, <1>8, <1>9, Zenon

\* What filling in one entry does to the sockets.
LEMMA SocketStep ==
  ASSUME TypeOK, NEW f \in Fds, NEW e \in EntryType(next_id), socks' = [socks EXCEPT ![f] = e]
  PROVE  /\ socks' \in [Fds -> EntryType(next_id)]
         /\ SocketOwns' = [SocketOwns EXCEPT ![f] = IF e.used THEN e.conn ELSE None]
<1>1. socks \in [Fds -> EntryType(next_id)] BY Zenon DEF TypeOK, EntryType
<1>2. socks' \in [Fds -> EntryType(next_id)] BY <1>1, Zenon
<1>3. socks'[f] = e /\ \A g \in Fds : g # f => socks'[g] = socks[g] BY <1>1, Zenon
<1>4. \A g \in Fds : SocketConn(g)' = IF g = f THEN (IF e.used THEN e.conn ELSE None) ELSE SocketConn(g)
  BY <1>3 DEF SocketConn
<1> QED BY <1>2, <1>4, Zenon DEF SocketOwns

-----------------------------------------------------------------------------
\* The local variables of a call that has not begun.
LEMMA IdleTyped ==
  ASSUME NEW n \in Nat \ {0}
  PROVE  Idle \in CallType(n) /\ Idle.at \notin Carrying
BY SocketsAssumption DEF Idle, CallType, Fds, Carrying

\* The parts of the state before a step.
LEMMA Parts ==
  ASSUME SockInv
  PROVE  /\ next_id \in Nat \ {0}
         /\ socks \in [Fds -> EntryType(next_id)]
         /\ call \in [Callers -> CallType(next_id)]
         /\ eph_port \in 0 .. PortSpace - 1
         /\ Ports \subseteq Nat /\ PortSpace \in Nat \ {0} /\ Ports \subseteq 0 .. PortSpace - 1
BY TcpAssumption, SocketsAssumption, Zenon DEF SockInv, TypeOK, TcpTypeOK, EntryType, CallType

\* When tcp.c is not called, its table stays.
LEMMA TcpStays ==
  ASSUME SockInv, UNCHANGED tcpVars
  PROVE  TcpInv' /\ next_id' = next_id /\ next_id <= next_id' /\ SettledIds' = SettledIds
<1>1. next_id' = next_id /\ conns' = conns BY Zenon DEF tcpVars
<1>2. TcpInv' BY TcpUnchanged, Zenon DEF SockInv
<1>3. \A id : Settled(id)' <=> Settled(id) BY <1>1, Zenon DEF Settled
<1>4. next_id <= next_id' BY <1>1, Parts
<1>5. SettledIds' = SettledIds BY <1>3, Zenon DEF SettledIds
<1> QED BY <1>1, <1>2, <1>4, <1>5, Zenon

\* When the sockets stay, so does what they own.
LEMMA SocketsStay ==
  ASSUME SockInv, UNCHANGED socks, next_id' \in Nat, next_id <= next_id'
  PROVE  socks' \in [Fds -> EntryType(next_id')] /\ SocketOwns' = SocketOwns
<1>1. EntryType(next_id) \subseteq EntryType(next_id')
  BY Parts DEF EntryType, None
<1>2. socks' \in [Fds -> EntryType(next_id')] BY <1>1, Parts, Zenon
<1>3. SocketOwns' = SocketOwns BY Zenon DEF SocketOwns, SocketConn
<1> QED BY <1>2, <1>3, Zenon

\* A new port in a socket changes nothing that is owned (nm_bind, nm_connect).
LEMMA PortStep ==
  ASSUME SockInv, NEW f \in Fds, NEW port \in 0 .. PortSpace - 1, socks' = [socks EXCEPT ![f].port = port]
  PROVE  socks' \in [Fds -> EntryType(next_id)] /\ SocketOwns' = SocketOwns
<1>1. socks \in [Fds -> EntryType(next_id)] BY Parts, Zenon
<1>2. socks' \in [Fds -> EntryType(next_id)] BY <1>1, ZenonT(60) DEF EntryType
<1>3. \A g \in Fds : socks'[g].used = socks[g].used /\ socks'[g].conn = socks[g].conn
  BY <1>1, Zenon DEF EntryType
<1>4. \A g \in Fds : SocketConn(g)' = SocketConn(g) BY <1>3, Zenon DEF SocketConn
<1> QED BY <1>2, <1>4, Zenon DEF SocketOwns

\* A step after which its call carries nothing.
LEMMA Leaves ==
  ASSUME SockInv, TcpInv', next_id <= next_id', NEW k \in Callers, NEW rec \in CallType(next_id'),
         GoesTo(k, rec), rec.at \notin Carrying,
         socks' \in [Fds -> EntryType(next_id')], SocketOwns' = SocketOwns, eph_port' \in 0 .. PortSpace - 1,
         SettledIds \ {CallOwns[k]} \subseteq SettledIds'
  PROVE  SockInv'
<1>1. next_id' \in Nat BY Zenon DEF TcpInv, TcpTypeOK
<1>2. /\ call' \in [Callers -> CallType(next_id')] /\ CarriesOne'
      /\ CallOwns' = [CallOwns EXCEPT ![k] = None]
  BY <1>1, CallStep, Zenon DEF SockInv
<1>3. Owned(SocketOwns, [CallOwns EXCEPT ![k] = None], SettledIds')
  BY CallLeaves, Zenon DEF SockInv
<1>4. TypeOK' BY <1>2, Zenon DEF TcpInv, TypeOK, EntryType, CallType
<1>5. Owned(SocketOwns, CallOwns, SettledIds)' BY <1>2, <1>3, Zenon
<1> QED BY <1>2, <1>4, <1>5, Zenon DEF SockInv

\* A step after which its call carries a connection that nobody owned.
LEMMA Takes ==
  ASSUME SockInv, TcpInv', next_id <= next_id', NEW k \in Callers, NEW rec \in CallType(next_id'),
         GoesTo(k, rec), rec.at \in Carrying, rec.id > 0, UNCHANGED <<socks, eph_port>>,
         rec.id \in SettledIds', rec.id \notin SettledIds, SettledIds \subseteq SettledIds'
  PROVE  SockInv'
<1>1. next_id' \in Nat /\ rec.id \in Int BY DEF TcpInv, TcpTypeOK, CallType
<1>2. /\ call' \in [Callers -> CallType(next_id')] /\ CarriesOne'
      /\ CallOwns' = [CallOwns EXCEPT ![k] = rec.id]
  BY <1>1, CallStep, Zenon DEF SockInv
<1>3. Owned(SocketOwns, [CallOwns EXCEPT ![k] = rec.id], SettledIds')
  BY <1>1, CallTakes, Zenon DEF SockInv
<1>4. socks' \in [Fds -> EntryType(next_id')] /\ SocketOwns' = SocketOwns
  BY <1>1, SocketsStay, Zenon
<1>5. TypeOK' BY <1>2, <1>4, Parts, Zenon DEF TcpInv, TypeOK, EntryType, CallType
<1>6. Owned(SocketOwns, CallOwns, SettledIds)' BY <1>2, <1>3, <1>4, Zenon
<1> QED BY <1>2, <1>5, <1>6, Zenon DEF SockInv

\* A call that cannot store its connection goes on to close it.
LEMMA GoesOnToClose ==
  ASSUME SockInv, NEW k \in Callers, Carries(k), GoesTo(k, Closing(call[k].id)),
         UNCHANGED <<socks, eph_port, tcpVars>>
  PROVE  SockInv'
<1> DEFINE rec == Closing(call[k].id)
<1>1. rec \in CallType(next_id) /\ rec.at = "close" /\ rec.id = call[k].id
  BY Parts, IdleTyped, Zenon DEF Closing, Idle, CallType, Sections
<1>2. rec.id > 0 /\ CallOwns[k] = rec.id BY <1>1, Zenon DEF SockInv, CarriesOne, CallOwns
<1>3. TcpInv' /\ next_id' = next_id /\ next_id <= next_id' /\ SettledIds' = SettledIds BY TcpStays, Zenon
<1> HIDE DEF rec
<1>4. rec \in CallType(next_id') BY <1>1, <1>3, Zenon
<1>5. /\ call' \in [Callers -> CallType(next_id')] /\ CarriesOne'
      /\ CallOwns' = [CallOwns EXCEPT ![k] = rec.id]
  BY <1>1, <1>2, <1>3, <1>4, CallStep, Parts, Zenon DEF SockInv, Carrying, rec
<1>6. CallOwns' = CallOwns BY <1>2, <1>5, Zenon DEF CallOwns
<1>7. socks' \in [Fds -> EntryType(next_id')] /\ SocketOwns' = SocketOwns
  BY <1>3, SocketsStay, Parts, Zenon
<1>8. TypeOK' BY <1>3, <1>5, <1>7, Parts, Zenon DEF TcpInv, TypeOK, EntryType, CallType
<1>9. Owned(SocketOwns, CallOwns, SettledIds)' BY <1>3, <1>6, <1>7, Zenon DEF SockInv
<1> QED BY <1>3, <1>5, <1>8, <1>9, Zenon DEF SockInv

-----------------------------------------------------------------------------
\* A call begins, or ends without having changed a table.
LEMMA PlainStep ==
  ASSUME SockInv, NEW k \in Callers, NEW rec \in CallType(next_id), GoesTo(k, rec), rec.at \notin Carrying,
         UNCHANGED tcpVars, socks' \in [Fds -> EntryType(next_id)], SocketOwns' = SocketOwns,
         eph_port' \in 0 .. PortSpace - 1
  PROVE  SockInv'
<1>1. TcpInv' /\ next_id' = next_id /\ next_id <= next_id' /\ SettledIds' = SettledIds BY TcpStays, Zenon
<1>2. rec \in CallType(next_id') /\ socks' \in [Fds -> EntryType(next_id')] BY <1>1, Zenon
<1>3. SettledIds \ {CallOwns[k]} \subseteq SettledIds' BY <1>1, Zenon
<1> QED BY <1>1, <1>2, <1>3, Leaves, Zenon

\* The sections that begin nm_listen, nm_accept, nm_sendto and nm_recvfrom.
LEMMA BeginInv ==
  ASSUME SockInv, NEW k \in Callers, NEW fd \in Fds,
         ListenBegin(k, fd) \/ AcceptBegin(k, fd) \/ IoBegin(k, fd, "send") \/ IoBegin(k, fd, "recv")
  PROVE  SockInv'
<1>1. socks[fd] \in EntryType(next_id) /\ next_id \in Nat \ {0} BY Parts, Zenon
<1>2. socks' = socks /\ eph_port' = eph_port /\ UNCHANGED tcpVars
  BY Zenon DEF ListenBegin, AcceptBegin, IoBegin
<1>3. PICK rec \in CallType(next_id) : GoesTo(k, rec) /\ rec.at \notin Carrying
  <2>1. CASE ListenBegin(k, fd)
    <3> DEFINE rec == [Idle EXCEPT !.at = "listen", !.fd = fd, !.port = socks[fd].port]
    <3>1. rec \in CallType(next_id) /\ rec.at \notin Carrying
      BY <1>1, IdleTyped, Zenon DEF Idle, CallType, EntryType, Carrying, Sections
    <3> QED BY <2>1, <3>1, Zenon DEF ListenBegin
  <2>2. CASE AcceptBegin(k, fd)
    <3> DEFINE rec == [Idle EXCEPT !.at = "accept", !.port = socks[fd].port]
    <3>1. rec \in CallType(next_id) /\ rec.at \notin Carrying
      BY <1>1, IdleTyped, Zenon DEF Idle, CallType, EntryType, Carrying, Sections
    <3> QED BY <2>2, <3>1, Zenon DEF AcceptBegin
  <2>3. CASE IoBegin(k, fd, "send") \/ IoBegin(k, fd, "recv")
    <3> DEFINE rec(section) == [Idle EXCEPT !.at = section, !.id = socks[fd].conn]
    <3>1. socks[fd].conn \in 0 .. next_id - 1 BY <1>1, <2>3 DEF IoBegin, EntryType, None
    <3>2. \A s \in {"send", "recv"} : rec(s) \in CallType(next_id) /\ rec(s).at \notin Carrying
      <4>1. rec("send") \in CallType(next_id) /\ rec("send").at \notin Carrying
        BY <3>1, <1>1, IdleTyped, Zenon DEF Idle, CallType, Carrying, Sections
      <4>2. rec("recv") \in CallType(next_id) /\ rec("recv").at \notin Carrying
        BY <3>1, <1>1, IdleTyped, Zenon DEF Idle, CallType, Carrying, Sections
      <4> QED BY <4>1, <4>2, Zenon
    <3>3. PICK s \in {"send", "recv"} : GoesTo(k, rec(s)) BY <2>3, Zenon DEF IoBegin
    <3> QED BY <3>2, <3>3, Zenon
  <2> QED BY <2>1, <2>2, <2>3, Zenon
<1>4. socks' \in [Fds -> EntryType(next_id)] /\ SocketOwns' = SocketOwns /\ eph_port' \in 0 .. PortSpace - 1
  BY <1>2, Parts, Zenon DEF SocketOwns, SocketConn
<1> QED BY <1>2, <1>3, <1>4, PlainStep, Zenon

\* A call that stays where it is, outside or inside.
LEMMA SameCall ==
  ASSUME SockInv, UNCHANGED call, NEW k \in Callers
  PROVE  GoesTo(k, call[k])
BY Parts, Zenon DEF GoesTo

\* nm_socket opens an entry that has no connection.
LEMMA SocketInv ==
  ASSUME SockInv, NEW k \in Callers, Socket(k)
  PROVE  SockInv'
<1>1. PICK f \in FreeFds : socks' = [socks EXCEPT ![f] = NewSocket] BY Zenon DEF Socket
<1>2. f \in Fds /\ ~socks[f].used BY Zenon DEF FreeFds
<1>3. UNCHANGED <<eph_port, call, tcpVars>> BY Zenon DEF Socket
<1>4. NewSocket \in EntryType(next_id) /\ NewSocket.used /\ NewSocket.conn = None
  BY Parts DEF NewSocket, EntryType, None
<1>5. /\ socks' \in [Fds -> EntryType(next_id)]
      /\ SocketOwns' = [SocketOwns EXCEPT ![f] = None]
  BY <1>1, <1>2, <1>4, SocketStep, Zenon DEF SockInv
<1>6. SocketOwns[f] = None BY <1>2, Zenon DEF SocketOwns, SocketConn
<1>7. SocketOwns' = SocketOwns BY <1>2, <1>5, <1>6, Zenon DEF SocketOwns
<1>8. GoesTo(k, call[k]) /\ call[k] \in CallType(next_id) /\ call[k].at \notin Carrying
  BY <1>3, SameCall, Parts, Zenon DEF Socket, Enters, Carrying
<1> QED BY <1>3, <1>5, <1>7, <1>8, PlainStep, Parts, Zenon

\* nm_bind of a stream socket moves no connection.
LEMMA BindInv ==
  ASSUME SockInv, NEW k \in Callers, NEW fd \in Fds, NEW port \in Ports, Bind(k, fd, port)
  PROVE  SockInv'
<1>1. port \in 0 .. PortSpace - 1 BY Parts, Zenon
<1>2. socks' = [socks EXCEPT ![fd].port = port] /\ UNCHANGED <<eph_port, call, tcpVars>> BY Zenon DEF Bind
<1>3. socks' \in [Fds -> EntryType(next_id)] /\ SocketOwns' = SocketOwns BY <1>1, <1>2, PortStep, Zenon
<1>4. GoesTo(k, call[k]) /\ call[k] \in CallType(next_id) /\ call[k].at \notin Carrying
  BY <1>2, SameCall, Parts, Zenon DEF Bind, Enters, Carrying
<1> QED BY <1>2, <1>3, <1>4, PlainStep, Parts, Zenon

\* nm_connect takes a port before it calls tcp.c.
LEMMA ConnectBeginInv ==
  ASSUME SockInv, NEW k \in Callers, NEW fd \in Fds, NEW dst \in Ports, ConnectBegin(k, fd, dst)
  PROVE  SockInv'
<1> DEFINE auto == socks[fd].port = 0
           port == IF auto THEN eph_port ELSE socks[fd].port
           rec == [Idle EXCEPT !.at = "connect", !.fd = fd, !.port = port, !.dst = dst, !.auto = auto]
<1>1. socks[fd].port \in 0 .. PortSpace - 1 /\ eph_port \in 0 .. PortSpace - 1 /\ PortSpace \in Nat \ {0}
  BY Parts, Zenon DEF EntryType
<1>2. port \in 0 .. PortSpace - 1 /\ auto \in BOOLEAN BY <1>1, Zenon
<1>3. /\ socks' = [socks EXCEPT ![fd].port = port]
      /\ eph_port' = IF auto THEN NextEph(eph_port) ELSE eph_port
      /\ GoesTo(k, rec) /\ UNCHANGED tcpVars
  BY Zenon DEF ConnectBegin
<1>4. eph_port' \in 0 .. PortSpace - 1 BY <1>1, <1>3 DEF NextEph
<1> HIDE DEF auto, port
<1>5. rec \in CallType(next_id) /\ rec.at \notin Carrying
  BY <1>2, IdleTyped, Parts, Zenon DEF Idle, CallType, Carrying, Sections
<1>6. socks' \in [Fds -> EntryType(next_id)] /\ SocketOwns' = SocketOwns BY <1>2, <1>3, PortStep, Zenon
<1> HIDE DEF rec
<1> QED BY <1>3, <1>4, <1>5, <1>6, PlainStep, Zenon

\* The ephemeral port of an nm_connect that failed is taken back.
LEMMA ConnectUndoInv ==
  ASSUME SockInv, NEW k \in Callers, ConnectUndo(k)
  PROVE  SockInv'
<1>1. call[k].fd \in Fds /\ 0 \in 0 .. PortSpace - 1 BY Parts DEF CallType
<1>2. GoesTo(k, Idle) /\ UNCHANGED <<eph_port, tcpVars>> BY Zenon DEF ConnectUndo, Returns
<1>3. socks' = [socks EXCEPT ![call[k].fd].port = 0] \/ socks' = socks BY Zenon DEF ConnectUndo
<1>4. socks' \in [Fds -> EntryType(next_id)] /\ SocketOwns' = SocketOwns
  <2>1. CASE socks' = [socks EXCEPT ![call[k].fd].port = 0] BY <2>1, <1>1, PortStep, Zenon
  <2>2. CASE socks' = socks BY <2>2, Parts, Zenon DEF SocketOwns, SocketConn
  <2> QED BY <1>3, <2>1, <2>2, Zenon
<1> QED BY <1>2, <1>4, IdleTyped, PlainStep, Parts, Zenon

\* A call returns from tcp.c empty-handed.
LEMMA ReturnsInv ==
  ASSUME SockInv, NEW k \in Callers, NEW rec \in CallType(next_id), GoesTo(k, rec), rec.at \notin Carrying,
         UNCHANGED <<socks, eph_port, tcpVars>>
  PROVE  SockInv'
<1>1. socks' \in [Fds -> EntryType(next_id)] /\ SocketOwns' = SocketOwns BY Parts, Zenon DEF SocketOwns, SocketConn
<1> QED BY <1>1, PlainStep, Parts, Zenon

\* tcp_listen and the first id of tcp_connect: the call carries what nobody had.
LEMMA NewConnInv ==
  ASSUME SockInv, NEW k \in Callers, NEW s \in {"listen_set", "connect_set"},
         TcpInv', next_id < next_id', \A id \in Int : id = next_id \/ Settled(id) => Settled(id)',
         GoesTo(k, [call[k] EXCEPT !.at = s, !.id = next_id]), UNCHANGED <<socks, eph_port>>
  PROVE  SockInv'
<1> DEFINE rec == [call[k] EXCEPT !.at = s, !.id = next_id]
<1>1. call[k] \in CallType(next_id) /\ next_id \in Nat \ {0} /\ next_id' \in Nat
  BY Parts, Zenon DEF TcpInv, TcpTypeOK
<1>2. rec \in CallType(next_id') /\ rec.at \in Carrying /\ rec.id = next_id
  <2>1. s \in Sections /\ s \in Carrying BY Zenon DEF Sections, Carrying
  <2>2. next_id \in 0 .. next_id' - 1 /\ 0 .. next_id - 1 \subseteq 0 .. next_id' - 1 BY <1>1
  <2>3. rec.at = s /\ rec.id = next_id BY <1>1, Zenon DEF CallType
  <2> QED BY <1>1, <2>1, <2>2, <2>3, Zenon DEF CallType
<1>3. SettledIds \subseteq SettledIds' /\ next_id \in SettledIds' BY <1>1 DEF SettledIds
<1>4. next_id \notin SettledIds BY <1>1, SettledKnown DEF SettledIds, SockInv
<1>5. next_id > 0 /\ next_id <= next_id' BY <1>1
<1> HIDE DEF rec
<1>6. GoesTo(k, rec) BY Zenon DEF rec
<1> QED BY <1>2, <1>3, <1>4, <1>5, <1>6, Takes, Zenon

\* The section of nm_listen that calls tcp_listen.
LEMMA ListenTcpInv ==
  ASSUME SockInv, NEW k \in Callers, ListenTcp(k)
  PROVE  SockInv'
<1>1. call[k].port \in Nat /\ next_id \in Nat BY Parts DEF CallType
<1>2. UNCHANGED <<socks, eph_port>> BY Zenon DEF ListenTcp
<1>3. CASE TcpListen(call[k].port) /\ GoesTo(k, [call[k] EXCEPT !.at = "listen_set", !.id = next_id])
  <2>1. TcpInv' BY <1>1, <1>3, ListenInv, Zenon DEF SockInv
  <2>2. \A id \in Int : id = next_id \/ Settled(id) => Settled(id)' BY <1>1, <1>3, ListenSettles, Zenon DEF SockInv
  <2>3. next_id < next_id' BY <1>1, <1>3 DEF TcpListen
  <2> QED BY <1>2, <1>3, <2>1, <2>2, <2>3, NewConnInv, Zenon
<1>4. CASE Returns(k) /\ UNCHANGED tcpVars
  BY <1>2, <1>4, IdleTyped, ReturnsInv, Parts, Zenon DEF Returns
<1> QED BY <1>3, <1>4, Zenon DEF ListenTcp

\* A call stores the connection it carries in a socket and returns.
LEMMA StoresInv ==
  ASSUME SockInv, NEW k \in Callers, Carries(k), GoesTo(k, Idle), UNCHANGED <<eph_port, tcpVars>>,
         NEW f \in Fds, NEW e \in EntryType(next_id), e.used, e.conn = call[k].id,
         socks' = [socks EXCEPT ![f] = e]
  PROVE  SockInv'
<1>1. TcpInv' /\ next_id' = next_id /\ next_id <= next_id' /\ SettledIds' = SettledIds BY TcpStays, Zenon
<1>2. next_id \in Nat \ {0} /\ Idle \in CallType(next_id) /\ Idle.at \notin Carrying BY Parts, IdleTyped, Zenon
<1>3. call[k].id > 0 /\ CallOwns[k] = call[k].id BY SMTT(60) DEF SockInv, CarriesOne, CallOwns
<1>4. /\ call' \in [Callers -> CallType(next_id')] /\ CarriesOne'
      /\ CallOwns' = [CallOwns EXCEPT ![k] = None]
  BY <1>1, <1>2, CallStep, Zenon DEF SockInv
<1>5. socks' \in [Fds -> EntryType(next_id')] /\ SocketOwns' = [SocketOwns EXCEPT ![f] = CallOwns[k]]
  BY <1>1, <1>3, SocketStep, Zenon DEF SockInv
<1>6. Owned([SocketOwns EXCEPT ![f] = CallOwns[k]], [CallOwns EXCEPT ![k] = None], SettledIds)
  BY <1>3, SocketGets, SMTT(60) DEF SockInv
<1>7. Owned(SocketOwns, CallOwns, SettledIds)' BY <1>1, <1>4, <1>5, <1>6, Zenon
<1>8. TypeOK' BY <1>1, <1>4, <1>5, Parts, Zenon DEF TcpInv, TypeOK, EntryType, CallType
<1> QED BY <1>1, <1>4, <1>7, <1>8, Zenon DEF SockInv

\* The last section of nm_listen and nm_connect.
LEMMA AttachInv ==
  ASSUME SockInv, NEW k \in Callers, Carries(k), NEW listening \in BOOLEAN, Attach(k, listening)
  PROVE  SockInv'
<1> DEFINE f == call[k].fd
           e == [socks[f] EXCEPT !.conn = call[k].id, !.listening = listening \/ socks[f].listening]
<1>1. f \in Fds /\ call[k].id \in 0 .. next_id - 1 /\ next_id \in Nat /\ socks[f] \in EntryType(next_id)
  BY Parts, Zenon DEF CallType
<1>2. UNCHANGED <<eph_port, tcpVars>> BY Zenon DEF Attach
<1>3. CASE socks[f].used
  <2>1. socks' = [socks EXCEPT ![f] = e] /\ GoesTo(k, Idle) BY <1>3, Zenon DEF Attach, Returns
  <2>2. e \in EntryType(next_id)
    <3> DEFINE b == listening \/ socks[f].listening
    <3>1. b \in BOOLEAN BY Zenon
    <3>2. call[k].id \in None .. next_id - 1 BY <1>1 DEF None
    <3> HIDE DEF b, f
    <3> QED BY <1>1, <3>1, <3>2, Zenon DEF EntryType
  <2>3. e.used /\ e.conn = call[k].id BY <1>1, <1>3, Zenon DEF EntryType
  <2> HIDE DEF f, e
  <2> QED BY <1>1, <1>2, <2>1, <2>2, <2>3, StoresInv, Zenon
<1>4. CASE ~socks[f].used
  BY <1>2, <1>4, GoesOnToClose, Zenon DEF Attach
<1> QED BY <1>3, <1>4, Zenon

\* The last section of nm_accept.
LEMMA AcceptSetInv ==
  ASSUME SockInv, NEW k \in Callers, AcceptSet(k)
  PROVE  SockInv'
<1> DEFINE e == [NewSocket EXCEPT !.port = call[k].port, !.conn = call[k].id]
<1>1. /\ call[k].id \in 0 .. next_id - 1 /\ call[k].port \in 0 .. PortSpace - 1 /\ next_id \in Nat
  BY Parts, Zenon DEF CallType
<1>2. UNCHANGED <<eph_port, tcpVars>> /\ Carries(k) BY Zenon DEF AcceptSet, Carries
<1>3. ASSUME NEW f \in FreeFds, socks' = [socks EXCEPT ![f] = e], GoesTo(k, Idle)
      PROVE  SockInv'
  <2>1. f \in Fds BY Zenon DEF FreeFds
  <2>2. call[k].id \in None .. next_id - 1 BY <1>1 DEF None
  <2>3. NewSocket \in EntryType(next_id) /\ NewSocket.used
    BY Parts DEF NewSocket, EntryType, None
  <2>4. e \in EntryType(next_id) /\ e.used /\ e.conn = call[k].id BY <1>1, <2>2, <2>3, Zenon DEF EntryType
  <2> HIDE DEF e
  <2> QED BY <1>2, <1>3, <2>1, <2>4, StoresInv, Zenon
<1>4. CASE GoesTo(k, Closing(call[k].id)) /\ UNCHANGED socks
  BY <1>2, <1>4, GoesOnToClose, Zenon
<1> QED BY <1>3, <1>4, Zenon DEF AcceptSet, Returns

\* tcp_accept hands the call a connection that belonged to nobody.
LEMMA AcceptTcpInv ==
  ASSUME SockInv, NEW k \in Callers, AcceptTcp(k)
  PROVE  SockInv'
<1>1. call[k] \in CallType(next_id) /\ call[k].port \in Nat /\ next_id \in Nat \ {0} BY Parts DEF CallType
<1>2. UNCHANGED <<socks, eph_port>> BY Zenon DEF AcceptTcp
<1>3. ASSUME TcpAccept(call[k].port), NEW c \in Accepted(call[k].port),
             GoesTo(k, [call[k] EXCEPT !.at = "accept_set", !.id = conns[c].id])
      PROVE  SockInv'
  <2> DEFINE rec == [call[k] EXCEPT !.at = "accept_set", !.id = conns[c].id]
  <2>1. TcpInv' /\ next_id' = next_id
    BY <1>1, <1>3, AcceptInv, Zenon DEF SockInv, TcpAccept
  <2>2. /\ \A id \in Int : id = conns[c].id \/ Settled(id) => Settled(id)'
        /\ conns[c].id \in 1 .. next_id - 1 /\ ~Settled(conns[c].id)
    BY <1>1, <1>3, AcceptSettles, Zenon DEF SockInv
  <2>3. /\ conns[c].id \in SettledIds' /\ conns[c].id \notin SettledIds /\ SettledIds \subseteq SettledIds'
        /\ next_id <= next_id'
    BY <1>1, <2>1, <2>2 DEF SettledIds
  <2>4. rec \in CallType(next_id') /\ rec.at \in Carrying /\ rec.id = conns[c].id /\ rec.id > 0
    <3>1. "accept_set" \in Sections /\ "accept_set" \in Carrying BY Zenon DEF Sections, Carrying
    <3>2. conns[c].id \in 0 .. next_id' - 1 /\ conns[c].id > 0 BY <1>1, <2>1, <2>2
    <3>3. rec.at = "accept_set" /\ rec.id = conns[c].id BY <1>1, Zenon DEF CallType
    <3> QED BY <1>1, <2>1, <3>1, <3>2, <3>3, Zenon DEF CallType
  <2>5. GoesTo(k, rec) BY <1>3, Zenon
  <2> HIDE DEF rec
  <2> QED BY <1>2, <2>1, <2>3, <2>4, <2>5, Takes, Zenon
<1>4. CASE Returns(k) /\ UNCHANGED tcpVars
  BY <1>1, <1>2, <1>4, IdleTyped, ReturnsInv, Zenon DEF Returns
<1> QED BY <1>3, <1>4, Zenon DEF AcceptTcp

\* tcp_connect gives the call its client's end, or nothing.
LEMMA ConnectTcpInv ==
  ASSUME SockInv, NEW k \in Callers, ConnectTcp(k)
  PROVE  SockInv'
<1> DEFINE undo == [call[k] EXCEPT !.at = "undo"]
<1>1. /\ call[k] \in CallType(next_id) /\ call[k].port \in Nat /\ call[k].dst \in Nat /\ next_id \in Nat \ {0}
      /\ next_id + 1 \in Nat \ {0}
  BY Parts DEF CallType
<1>2. UNCHANGED <<socks, eph_port>> BY Zenon DEF ConnectTcp
<1>3. CASE /\ TcpConnect(call[k].dst, call[k].port)
           /\ GoesTo(k, [call[k] EXCEPT !.at = "connect_set", !.id = next_id])
  <2>1. TcpInv' BY <1>1, <1>3, ConnectInv, Zenon DEF SockInv
  <2>2. \A id \in Int : id = next_id \/ Settled(id) => Settled(id)' BY <1>1, <1>3, ConnectSettles, Zenon DEF SockInv
  <2>3. next_id < next_id' BY <1>1, <1>3 DEF TcpConnect
  <2> QED BY <1>2, <1>3, <2>1, <2>2, <2>3, NewConnInv, Zenon
<1>4. \A n \in {next_id, next_id + 1} : undo \in CallType(n) /\ undo.at \notin Carrying
  <2>1. "undo" \in Sections /\ "undo" \notin Carrying BY Zenon DEF Sections, Carrying
  <2>2. undo.at = "undo" BY <1>1, Zenon DEF CallType
  <2> QED BY <1>1, <2>1, <2>2 DEF CallType
<1> HIDE DEF undo
<1>5. ConnectRefused(k) => \E rec \in {undo, Idle} : GoesTo(k, rec)
  BY Zenon DEF ConnectRefused, Returns, undo
<1>6. CASE TcpConnectFails(call[k].dst) /\ ConnectRefused(k)
  <2>1. TcpInv' /\ next_id' = next_id + 1
    BY <1>1, <1>6, ConnectFailsInv, Zenon DEF SockInv, TcpConnectFails
  <2>2. \A id \in Int : Settled(id) => Settled(id)' BY <1>1, <1>6, ConnectFailsSettles, Zenon DEF SockInv
  <2>3. SettledIds \ {CallOwns[k]} \subseteq SettledIds' BY <2>2, Zenon DEF SettledIds
  <2>4. PICK rec \in {undo, Idle} : GoesTo(k, rec) BY <1>5, <1>6, Zenon
  <2>5. rec \in CallType(next_id') /\ rec.at \notin Carrying
    BY <1>1, <1>4, <2>1, IdleTyped, Zenon
  <2>6. socks' \in [Fds -> EntryType(next_id')] /\ SocketOwns' = SocketOwns /\ next_id <= next_id'
    BY <1>1, <1>2, <2>1, SocketsStay
  <2>7. eph_port' \in 0 .. PortSpace - 1 BY <1>2, Parts, Zenon
  <2> QED BY <2>1, <2>3, <2>4, <2>5, <2>6, <2>7, Leaves, Zenon
<1>7. CASE ConnectRefused(k) /\ UNCHANGED tcpVars
  <2>1. PICK rec \in {undo, Idle} : GoesTo(k, rec) BY <1>5, <1>7, Zenon
  <2>2. rec \in CallType(next_id) /\ rec.at \notin Carrying BY <1>1, <1>4, IdleTyped, Zenon
  <2> QED BY <1>2, <1>7, <2>1, <2>2, ReturnsInv, Zenon
<1> QED BY <1>3, <1>6, <1>7, Zenon DEF ConnectTcp

\* nm_close_socket hands the socket's connection to the call that closes it.
LEMMA CloseBeginInv ==
  ASSUME SockInv, NEW k \in Callers, NEW fd \in Fds, CloseBegin(k, fd)
  PROVE  SockInv'
<1> DEFINE e == [socks[fd] EXCEPT !.used = FALSE]
<1>1. socks \in [Fds -> EntryType(next_id)] /\ socks[fd] \in EntryType(next_id) /\ next_id \in Nat \ {0}
  BY Parts, Zenon
<1>2. socks' = [socks EXCEPT ![fd] = e] /\ UNCHANGED <<eph_port, tcpVars>> /\ socks[fd].used
  BY Zenon DEF CloseBegin
<1>3. e \in EntryType(next_id) /\ ~e.used BY <1>1, Zenon DEF EntryType
<1>4. TcpInv' /\ next_id' = next_id /\ next_id <= next_id' /\ SettledIds' = SettledIds BY TcpStays, <1>2, Zenon
<1> HIDE DEF e
<1>5. socks' \in [Fds -> EntryType(next_id)] /\ SocketOwns' = [SocketOwns EXCEPT ![fd] = None]
  BY <1>2, <1>3, SocketStep, Zenon DEF SockInv
<1>6. SocketOwns[fd] = socks[fd].conn /\ socks[fd].conn \in None .. next_id - 1
  BY <1>1, <1>2, Zenon DEF SocketOwns, SocketConn, EntryType
<1>7. CASE socks[fd].conn > 0
  <2> DEFINE rec == Closing(socks[fd].conn)
  <2>1. rec \in CallType(next_id) /\ rec.at = "close" /\ rec.id = socks[fd].conn
    <3>1. socks[fd].conn \in 0 .. next_id - 1 BY <1>6, <1>7 DEF None
    <3> QED BY <1>1, <3>1, IdleTyped, Zenon DEF Closing, Idle, CallType, Sections
  <2>2. GoesTo(k, rec) BY <1>7, Zenon DEF CloseBegin
  <2> HIDE DEF rec
  <2>3. /\ call' \in [Callers -> CallType(next_id')] /\ CarriesOne'
        /\ CallOwns' = [CallOwns EXCEPT ![k] = SocketOwns[fd]]
    BY <1>1, <1>4, <1>6, <1>7, <2>1, <2>2, CallStep, Zenon DEF SockInv, Carrying
  <2>4. Owned([SocketOwns EXCEPT ![fd] = None], [CallOwns EXCEPT ![k] = SocketOwns[fd]], SettledIds)
    BY <1>6, <1>7, SocketGives, Zenon DEF SockInv
  <2>5. Owned(SocketOwns, CallOwns, SettledIds)' BY <1>4, <1>5, <2>3, <2>4, Zenon
  <2>6. TypeOK' BY <1>2, <1>4, <1>5, <2>3, Parts, Zenon DEF TcpInv, TypeOK, EntryType, CallType
  <2> QED BY <1>4, <2>3, <2>5, <2>6, Zenon DEF SockInv
<1>8. CASE ~(socks[fd].conn > 0)
  <2>1. call' = call BY <1>8, Zenon DEF CloseBegin
  <2>2. CarriesOne' /\ CallOwns' = CallOwns BY <2>1, Zenon DEF SockInv, CarriesOne, CallOwns, Carries
  <2>3. Owned(SocketOwns, CallOwns, SettledIds)' BY <1>4, <1>5, <2>2, SocketEmpty, Zenon DEF SockInv
  <2>4. TypeOK' BY <1>2, <1>4, <1>5, <2>1, Parts, Zenon DEF TcpInv, TypeOK, EntryType, CallType
  <2> QED BY <1>4, <2>2, <2>3, <2>4, Zenon DEF SockInv
<1> QED BY <1>7, <1>8, Zenon

\* A call that ends in tcp.c after no more than its own connection has left the table.
LEMMA EndsInv ==
  ASSUME SockInv, NEW k \in Callers, TcpInv', next_id' = next_id, GoesTo(k, Idle),
         UNCHANGED <<socks, eph_port>>, \A id \in Int : id # CallOwns[k] /\ Settled(id) => Settled(id)'
  PROVE  SockInv'
<1>1. next_id \in Nat \ {0} /\ next_id' \in Nat /\ next_id <= next_id' BY Parts
<1>2. Idle \in CallType(next_id') /\ Idle.at \notin Carrying BY <1>1, IdleTyped, Zenon
<1>3. SettledIds \ {CallOwns[k]} \subseteq SettledIds' BY Zenon DEF SettledIds
<1>4. socks' \in [Fds -> EntryType(next_id')] /\ SocketOwns' = SocketOwns BY <1>1, SocketsStay, Zenon
<1>5. eph_port' \in 0 .. PortSpace - 1 BY Parts, Zenon
<1> QED BY <1>1, <1>2, <1>3, <1>4, <1>5, Leaves, Zenon

\* tcp_close takes the connection that the call carries out of the table.
LEMMA CloseTcpInv ==
  ASSUME SockInv, NEW k \in Callers, CloseTcp(k)
  PROVE  SockInv'
<1>1. call[k].id \in Int /\ next_id \in Nat \ {0} BY Parts DEF CallType
<1>2. UNCHANGED <<socks, eph_port>> /\ GoesTo(k, Idle) BY Zenon DEF CloseTcp, Returns
<1>3. CallOwns[k] = call[k].id BY Zenon DEF CloseTcp, CallOwns, Carries
<1>4. CASE TcpClose(call[k].id)
  <2>1. TcpInv' /\ next_id' = next_id BY <1>1, <1>4, CloseInv, Zenon DEF SockInv, TcpClose
  <2>2. \A id \in Int : id # CallOwns[k] /\ Settled(id) => Settled(id)'
    BY <1>1, <1>3, <1>4, CloseSettles, Zenon DEF SockInv
  <2> QED BY <1>2, <2>1, <2>2, EndsInv, Zenon
<1>5. CASE UNCHANGED tcpVars
  BY <1>1, <1>2, <1>5, IdleTyped, ReturnsInv, Zenon
<1> QED BY <1>4, <1>5, Zenon DEF CloseTcp

\* The sections of nm_sendto and nm_recvfrom that call tcp.c.
LEMMA IoTcpInv ==
  ASSUME SockInv, NEW k \in Callers, SendTcp(k) \/ RecvTcp(k)
  PROVE  SockInv'
<1>1. call[k].id \in Int /\ next_id \in Nat \ {0} BY Parts DEF CallType
<1>2. UNCHANGED <<socks, eph_port>> /\ GoesTo(k, Idle) BY Zenon DEF SendTcp, RecvTcp, Returns
<1>3. CASE TcpSend(call[k].id) \/ TcpRecv(call[k].id)
  <2>1. TcpInv' /\ next_id' = next_id BY <1>1, <1>3, BufferInv, Zenon DEF SockInv, TcpSend, TcpRecv
  <2>2. \A id \in Int : id # CallOwns[k] /\ Settled(id) => Settled(id)'
    BY <1>1, <1>3, BufferSettles, Zenon DEF SockInv
  <2> QED BY <1>2, <2>1, <2>2, EndsInv, Zenon
<1>4. CASE UNCHANGED tcpVars
  BY <1>1, <1>2, <1>4, IdleTyped, ReturnsInv, Zenon
<1> QED BY <1>3, <1>4, Zenon DEF SendTcp, RecvTcp

-----------------------------------------------------------------------------
\* No socket is open and no call is in progress when the kernel starts.
LEMMA SockInitInv == Init => SockInv
<1> SUFFICES ASSUME Init PROVE SockInv BY Zenon
<1>1. TcpInv BY TcpInitInv, Zenon DEF Init
<1>2. next_id = 1 /\ 0 \in 0 .. PortSpace - 1 /\ FirstEph \in 0 .. PortSpace - 1
  BY SocketsAssumption, SMTT(60) DEF Init, TcpInit
<1>3. socks \in [Fds -> EntryType(next_id)] /\ \A f \in Fds : ~socks[f].used
  BY <1>2 DEF Init, EntryType, None
<1>4. call = [k \in Callers |-> Idle] /\ Idle \in CallType(next_id) /\ Idle.at \notin Carrying
  BY <1>2, IdleTyped DEF Init
<1>5. TypeOK
  <2>1. call \in [Callers -> CallType(next_id)] BY <1>4, Zenon
  <2> QED BY <1>1, <1>2, <1>3, <2>1, Zenon DEF Init, TcpInv, TypeOK, EntryType, CallType
<1>6. \A k \in Callers : ~Carries(k) BY <1>4, Zenon DEF Carries, Carrying
<1>7. (\A f \in Fds : SocketOwns[f] = None) /\ \A k \in Callers : CallOwns[k] = None
  BY <1>3, <1>6, Zenon DEF SocketOwns, SocketConn, CallOwns
<1>8. SocketOwns \in [Fds -> Int] /\ CallOwns \in [Callers -> Int]
  BY <1>3, <1>6, SMTT(60) DEF SocketOwns, SocketConn, CallOwns, None
<1>9. Owned(SocketOwns, CallOwns, SettledIds) BY <1>7, <1>8 DEF Owned, None
<1> QED BY <1>1, <1>5, <1>6, <1>9, Zenon DEF SockInv, CarriesOne

\* Every section of every call of socket.c keeps the invariant.
LEMMA SockNextInv ==
  ASSUME SockInv, [Next]_vars
  PROVE  SockInv'
<1>1. CASE UNCHANGED vars
  <2>1. UNCHANGED <<socks, eph_port, call, conns, next_id>> BY <1>1, Zenon DEF vars, sockVars, tcpVars
  <2>2. TcpInv' BY <2>1, TcpUnchanged, Zenon DEF SockInv, tcpVars
  <2>3. TypeOK' /\ CarriesOne' BY <2>1, Zenon DEF SockInv, TypeOK, TcpTypeOK, CarriesOne, Carries
  <2>4. SocketOwns' = SocketOwns /\ CallOwns' = CallOwns /\ SettledIds' = SettledIds
    BY <2>1, Zenon DEF SocketOwns, SocketConn, CallOwns, Carries, SettledIds, Settled
  <2> QED BY <2>2, <2>3, <2>4, Zenon DEF SockInv
<1>2. ASSUME NEW k \in Callers,
             \/ Socket(k) \/ ListenTcp(k) \/ ListenSet(k) \/ AcceptTcp(k) \/ AcceptSet(k)
             \/ ConnectTcp(k) \/ ConnectSet(k) \/ ConnectUndo(k) \/ CloseTcp(k) \/ SendTcp(k) \/ RecvTcp(k)
      PROVE  SockInv'
  <2>1. CASE Socket(k) BY <2>1, SocketInv, Zenon
  <2>2. CASE ListenTcp(k) BY <2>2, ListenTcpInv, Zenon
  <2>3. CASE ListenSet(k) BY <2>3, AttachInv, Zenon DEF ListenSet, Carries
  <2>4. CASE AcceptTcp(k) BY <2>4, AcceptTcpInv, Zenon
  <2>5. CASE AcceptSet(k) BY <2>5, AcceptSetInv, Zenon
  <2>6. CASE ConnectTcp(k) BY <2>6, ConnectTcpInv, Zenon
  <2>7. CASE ConnectSet(k) BY <2>7, AttachInv, Zenon DEF ConnectSet, Carries
  <2>8. CASE ConnectUndo(k) BY <2>8, ConnectUndoInv, Zenon
  <2>9. CASE CloseTcp(k) BY <2>9, CloseTcpInv, Zenon
  <2>10. CASE SendTcp(k) \/ RecvTcp(k) BY <2>10, IoTcpInv, Zenon
  <2> QED BY <1>2, <2>1, <2>2, <2>3, <2>4, <2>5, <2>6, <2>7, <2>8, <2>9, <2>10, Zenon
<1>3. ASSUME NEW k \in Callers, NEW fd \in Fds,
             \/ ListenBegin(k, fd) \/ AcceptBegin(k, fd) \/ CloseBegin(k, fd)
             \/ \E section \in {"send", "recv"} : IoBegin(k, fd, section)
             \/ \E port \in Ports : Bind(k, fd, port) \/ ConnectBegin(k, fd, port)
      PROVE  SockInv'
  <2>1. CASE \/ ListenBegin(k, fd) \/ AcceptBegin(k, fd)
             \/ \E section \in {"send", "recv"} : IoBegin(k, fd, section)
    BY <2>1, BeginInv, Zenon
  <2>2. CASE CloseBegin(k, fd) BY <2>2, CloseBeginInv, Zenon
  <2>3. ASSUME NEW port \in Ports, Bind(k, fd, port) PROVE SockInv' BY <2>3, BindInv, Zenon
  <2>4. ASSUME NEW port \in Ports, ConnectBegin(k, fd, port) PROVE SockInv' BY <2>4, ConnectBeginInv, Zenon
  <2> QED BY <1>3, <2>1, <2>2, <2>3, <2>4, Zenon
<1> QED BY <1>1, <1>2, <1>3, Zenon DEF Next

\* Nothing that callers of socket.c do, in any interleaving, breaks the invariant.
THEOREM SockInvariant == Spec => []SockInv
<1>1. SockInv /\ [Next]_vars => SockInv' BY SockNextInv, Zenon
<1> QED BY SockInitInv, <1>1, PTL DEF Spec

\* Only ids that were given out are stored in the tables and in the calls (conns, socks).
THEOREM SocketsTypeCorrect == Spec => []TypeOK
<1>1. SockInv => TypeOK BY Zenon DEF SockInv
<1> QED BY <1>1, SockInvariant, PTL

\* A connection id names one entry of the table (find_by_id).
THEOREM ConnIdsUnique == Spec => []IdsUnique
<1>1. SockInv => IdsUnique BY Zenon DEF SockInv, TcpInv
<1> QED BY <1>1, SockInvariant, PTL

\* The two ends of a connection name each other (tcp_connect's peer_id).
THEOREM PeersStayMutual == Spec => []PeersMutual
<1>1. SockInv => PeersMutual BY Zenon DEF SockInv, TcpInv
<1> QED BY <1>1, SockInvariant, PTL

\* What tcp_recv returns was sent by the connection's own peer (tcp_send).
THEOREM BytesComeFromPeer == Spec => []RxFromPeer
<1>1. SockInv => RxFromPeer BY Zenon DEF SockInv, TcpInv
<1> QED BY <1>1, SockInvariant, PTL

\* No connection has two owners, in whatever windows sockets are closed and their numbers reused
\* (nm_listen, nm_accept, nm_connect, nm_close_socket).
THEOREM ConnsHaveOneOwner == Spec => []OneOwner
<1>1. SockInv => OneOwner BY OwnGives, Zenon
<1> QED BY <1>1, SockInvariant, PTL

\* An owner's connection is in the table until the owner closes it (nm_close_socket).
THEOREM OwnedConnsStay == Spec => []OwnedConnExists
<1>1. SockInv => OwnedConnExists BY OwnGives, Zenon
<1> QED BY <1>1, SockInvariant, PTL

\* tcp_accept returns connections that belong to nobody (nm_accept).
THEOREM WaitingConnsUnowned == Spec => []WaitingIsUnowned
<1>1. SockInv => WaitingIsUnowned BY OwnGives, Zenon
<1> QED BY <1>1, SockInvariant, PTL
=============================================================================
