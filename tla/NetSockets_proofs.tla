--------------------------- MODULE NetSockets_proofs ---------------------------
(* The safety properties of NetSockets, for any number of descriptors.        *)
EXTENDS NetSockets, TLAPS

-----------------------------------------------------------------------------
(* The inductive invariant: at each place the thread knows which contexts are *)
(* in the list, and only between a connection and its close one may live.     *)

Alive(d) == fd[d] \in {"connected", "fin"}

UserOfPlace ==
  /\ pc \in {"boot", "halted"} => user = "time"
  /\ pc \in {"idle", "ended", "wild"} => user = "mqtt"

TlsContext ==
  list["tls"] = IF user = "time" /\ pc \notin {"boot", "halted"} THEN 1 ELSE 0

\* The orphan of a failed set-up ends in the error handler, for rc is false.
TcpContext ==
  /\ pc \in {"open", "handshake", "use", "close"} => list["tcp"] = 1
  /\ pc \in {"boot", "create", "idle", "ended", "wild"} => list["tcp"] = 0
  /\ pc = "destroy" /\ (user = "mqtt" \/ rc) => list["tcp"] = 0

Connection ==
  \A d \in Fds : Alive(d) =>
    under = d /\ pc \in {"handshake", "use", "close"}

IInv == TypeOK /\ UserOfPlace /\ TlsContext /\ TcpContext /\ Connection

-----------------------------------------------------------------------------
\* A close ends the connection of its context, and only that.
LEMMA ShutdownEnds ==
  ASSUME fd \in [Fds -> {"free", "fresh", "connected", "fin", "dead"}],
         Shutdown(under), Connection
  PROVE  /\ fd' \in [Fds -> {"free", "fresh", "connected", "fin", "dead"}]
         /\ \A d \in Fds : fd'[d] \notin {"connected", "fin"}
  BY DEF Shutdown, Connection, Alive

LEMMA InitIInv == Init => IInv
<1>1. Init => TypeOK
  <2>1. Init => rc \in BOOLEAN /\ clock \in BOOLEAN
    BY Zenon DEF Init
  <2>2. QED BY <2>1, BoundsAssumption DEF Init, TypeOK, Contexts
<1>2. Init => UserOfPlace /\ TlsContext /\ TcpContext /\ Connection
  BY DEF Init, UserOfPlace, TlsContext, TcpContext, Connection, Alive, Contexts
<1>3. QED BY <1>1, <1>2 DEF IInv

LEMMA TimeKeeps == IInv /\ Time => IInv'
<1> SUFFICES ASSUME IInv, Time PROVE IInv'
  OBVIOUS
<1> USE DEF IInv, TypeOK, UserOfPlace, TlsContext, TcpContext, Connection, Alive,
            Contexts, Go, Insert, Drop, platform
<1>1. CASE PlatformFails BY <1>1 DEF PlatformFails
<1>2. CASE CreateTls BY <1>2 DEF CreateTls
<1>3. CASE OpenTlsFails BY <1>3 DEF OpenTlsFails
<1>4. CASE SetupTlsFails
  <2>0. rc' \in BOOLEAN BY <1>4, Zenon DEF SetupTlsFails
  <2>1. TypeOK' BY <2>0, <1>4 DEF SetupTlsFails
  <2>2. UserOfPlace' /\ TlsContext' /\ TcpContext' BY <1>4 DEF SetupTlsFails
  <2>3. Connection' BY <1>4 DEF SetupTlsFails
  <2>4. QED BY <2>1, <2>2, <2>3
<1>5. CASE OpenTcpFails
  <2>0. rc' \in BOOLEAN BY <1>5, Zenon DEF OpenTcpFails
  <2>1. TypeOK' BY <2>0, <1>5 DEF OpenTcpFails
  <2>2. UserOfPlace' /\ TlsContext' /\ TcpContext' BY <1>5 DEF OpenTcpFails
  <2>3. Connection' BY <1>5 DEF OpenTcpFails
  <2>4. QED BY <2>1, <2>2, <2>3
<1>6. CASE SendFails BY <1>6 DEF SendFails
<1>7. CASE DateRead BY <1>7 DEF DateRead
<1>8. CASE NoDate BY <1>8 DEF NoDate
<1>9. CASE DestroyTls BY <1>9 DEF DestroyTls
<1>10. QED
  BY <1>1, <1>2, <1>3, <1>4, <1>5, <1>6, <1>7, <1>8, <1>9 DEF Time

LEMMA TcpKeeps == IInv /\ Tcp => IInv'
<1> SUFFICES ASSUME IInv, Tcp PROVE IInv'
  OBVIOUS
<1> USE DEF IInv, TypeOK, UserOfPlace, TlsContext, TcpContext, Connection, Alive,
            Contexts, Go, Insert, Drop, platform
<1>1. CASE CreateTcp
  BY <1>1, BoundsAssumption DEF CreateTcp, Fds
<1>2. CASE Connects
  BY <1>2 DEF Connects
<1>3. CASE ConnectFails
  BY <1>3, BoundsAssumption DEF ConnectFails
<1>4. CASE NoSocket BY <1>4 DEF NoSocket
<1>5. CASE HandshakeOk BY <1>5 DEF HandshakeOk
<1>6. CASE HandshakeFails BY <1>6 DEF HandshakeFails
<1>7. CASE Close
  BY <1>7, ShutdownEnds DEF Close
<1>8. QED
  BY <1>1, <1>2, <1>3, <1>4, <1>5, <1>6, <1>7 DEF Tcp

LEMMA ClientKeeps == IInv /\ Client => IInv'
<1> SUFFICES ASSUME IInv, Client PROVE IInv'
  OBVIOUS
<1> USE DEF IInv, TypeOK, UserOfPlace, TlsContext, TcpContext, Connection, Alive,
            Contexts, Go, platform
<1>1. CASE Connect BY <1>1 DEF Connect
<1>2. CASE GiveUp BY <1>2 DEF GiveUp
<1>3. CASE SetupFails BY <1>3 DEF SetupFails
<1>4. CASE NotFound BY <1>4 DEF NotFound
<1>5. CASE Leave BY <1>5 DEF Leave
<1>6. CASE DestroyStack BY <1>6 DEF DestroyStack
<1>7. QED BY <1>1, <1>2, <1>3, <1>4, <1>5, <1>6 DEF Client

LEMMA NetworkKeeps ==
  ASSUME IInv, NEW d \in Fds, Dies(d) \/ PeerCloses(d) PROVE IInv'
<1> USE DEF IInv, TypeOK, UserOfPlace, TlsContext, TcpContext, Connection, Alive,
            Contexts, platform
<1>1. CASE Dies(d) BY <1>1, BoundsAssumption DEF Dies
<1>2. CASE PeerCloses(d) BY <1>2 DEF PeerCloses
<1>3. QED BY <1>1, <1>2

LEMMA NextKeeps == IInv /\ [Next]_vars => IInv'
<1> SUFFICES ASSUME IInv, [Next]_vars PROVE IInv'
  OBVIOUS
<1>1. CASE Next
  BY <1>1, TimeKeeps, TcpKeeps, ClientKeeps, NetworkKeeps DEF Next
<1>2. CASE UNCHANGED vars
  BY <1>2 DEF vars, IInv, TypeOK, UserOfPlace, TlsContext, TcpContext, Connection, Alive
<1>3. QED BY <1>1, <1>2

LEMMA Inductive == Spec => []IInv
  BY InitIInv, NextKeeps, PTL DEF Spec

-----------------------------------------------------------------------------
\* Every variable keeps its type; no context is in hnet's list twice.
THEOREM TypeCorrect == Spec => []TypeOK
  BY Inductive, PTL DEF IInv

\* No path leaves a context behind when the next connection begins: the one that
\* does, a TLS set-up that fails half-way, makes platform_init fail.
THEOREM ListIsEmptyAtRest == Spec => []NothingLeftBehind
<1>1. IInv => NothingLeftBehind
  BY DEF IInv, UserOfPlace, TlsContext, TcpContext, NothingLeftBehind, Contexts
<1>2. QED BY <1>1, Inductive, PTL

\* A live connection is always the one its holder can close, for any number of
\* descriptors and of losses, though net_sock_open may hand out descriptor 0.
THEOREM NoLiveConnectionIsLost == Spec => []ConnectionsAreHeld
<1>1. IInv => ConnectionsAreHeld
  BY DEF IInv, TcpContext, Connection, Alive, ConnectionsAreHeld
<1>2. QED BY <1>1, Inductive, PTL
=============================================================================
