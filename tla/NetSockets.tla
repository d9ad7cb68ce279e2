------------------------------ MODULE NetSockets ------------------------------
(***************************************************************************)
(* The sockets: what net_tcp_lwip.c, net_tls_mbedtls.c and the wrapper of   *)
(* the MQTT client do with contexts and lwIP descriptors, on every path.    *)
(*                                                                         *)
(* One thread at a time uses them: gsmPPP_Tsk, which fetches the time over  *)
(* TLS in platform_init, then the publisher, whose client connects again    *)
(* after every failure. A descriptor outlives its TCP connection: lwIP drops *)
(* the control block when the peer resets, TCP gives up or PPP goes down,   *)
(* and then refuses shutdown, without which nothing is closed here.         *)
(***************************************************************************)
EXTENDS Integers

CONSTANTS
  Sockets,    \* NUM_SOCKETS: how many descriptors lwIP has
  MaxLosses   \* bound: how many connections fail or die

ASSUME BoundsAssumption == Sockets \in Nat \ {0} /\ MaxLosses \in Nat

Fds == 0..Sockets-1
Contexts == {"tls", "tcp"}

VARIABLES
  pc,      \* where the thread is
  user,    \* what it is doing: the time, or mqtt
  fd,      \* each descriptor: free, fresh (never connected), connected,
           \* fin (the peer has closed it) or dead (no control block)
  list,    \* hnet->sock_list: how many contexts of each kind
  under,   \* underlying_sock_ctxt of the context "tcp", 0 from memset
  rc,      \* setRTCTimeDateFromNetwork returns TD_OK
  clock,   \* history: the RTC was set
  losses   \* history: how many connections failed or died

vars == <<pc, user, fd, list, under, rc, clock, losses>>
platform == <<user, rc, clock>>

Init ==
  /\ pc = "boot" /\ user = "time"
  /\ fd = [d \in Fds |-> "free"]
  /\ list = [c \in Contexts |-> 0] /\ under = -1
  /\ rc = TRUE /\ clock = FALSE /\ losses = 0

Go(from, to) == pc = from /\ pc' = to
Insert(c) == list' = [list EXCEPT ![c] = @ + 1]
Drop(c) == list' = [list EXCEPT ![c] = @ - 1]
Free == {d \in Fds : fd[d] = "free"}
Lowest(d) == d \in Free /\ \A e \in Free : d <= e
Peer == IF under \in Fds THEN fd[under] ELSE "free"

-----------------------------------------------------------------------------
(* The time: platform_init, setRTCTimeDateFromNetwork, net_sock_open_mbedtls *)

\* The error handler loops for ever; gsmPPP_Tsk is in it.
PlatformFails ==
  /\ pc = "boot"
  /\ pc' = "halted"
  /\ UNCHANGED <<fd, list, under, losses, platform>>

CreateTls ==
  /\ Go("boot", "create")
  /\ Insert("tls")
  /\ UNCHANGED <<fd, under, losses, platform>>

\* Entropy or a certificate fails, or the TCP context cannot be allocated.
OpenTlsFails ==
  /\ Go("create", "destroy") /\ user = "time"
  /\ rc' = FALSE
  /\ UNCHANGED <<user, clock, fd, list, under, losses>>

\* The TLS context is set up before the connection is opened; only the failure
\* of mbedtls_ssl_setup destroys the TCP context.
SetupTlsFails ==
  /\ Go("open", "destroy") /\ user = "time"
  /\ rc' = FALSE
  /\ \/ Drop("tcp") /\ under' = -1
     \/ UNCHANGED <<list, under>>
  /\ UNCHANGED <<user, clock, fd, losses>>

\* net_sock_open fails only when the name is not resolved: no descriptor then.
OpenTcpFails ==
  /\ Go("open", "destroy") /\ user = "time"
  /\ rc' = FALSE /\ under' = -1
  /\ Drop("tcp")
  /\ UNCHANGED <<user, clock, fd, losses>>

-----------------------------------------------------------------------------
(* What both users do: a TCP context, a descriptor, a handshake, an end.    *)

CreateTcp ==
  /\ Go("create", "open")
  /\ Insert("tcp") /\ under' = 0
  /\ UNCHANGED <<fd, losses, platform>>

Connects ==
  /\ Go("open", "handshake")
  /\ \E d \in Fds : Lowest(d) /\ under' = d /\ fd' = [fd EXCEPT ![d] = "connected"]
  /\ UNCHANGED <<list, losses, platform>>

\* connect() fails, with its control block or without; net_sock_open returns
\* NET_OK all the same and forgets the descriptor.
ConnectFails ==
  /\ Go("open", "handshake")
  /\ losses < MaxLosses
  /\ \E d \in Fds, how \in {"fresh", "dead"} :
       Lowest(d) /\ fd' = [fd EXCEPT ![d] = how]
  /\ losses' = losses + 1
  /\ UNCHANGED <<under, list, platform>>

\* No descriptor is left: the loop over the addresses ends with NET_OK as well.
NoSocket ==
  /\ Go("open", "handshake")
  /\ Free = {}
  /\ UNCHANGED <<fd, under, list, losses, platform>>

HandshakeOk ==
  /\ pc = "handshake" /\ Peer = "connected"
  /\ pc' = "use"
  /\ UNCHANGED <<fd, under, list, losses, platform>>

\* After the peer's FIN the reads return nothing and no error, for ever.
HandshakeFails ==
  /\ pc = "handshake" /\ Peer # "fin"
  /\ pc' = "close"
  /\ rc' = (rc /\ user # "time")
  /\ UNCHANGED <<user, clock, fd, under, list, losses>>

\* Seeded fault: a connection the peer has closed is taken for closed.
ShutdownOfConnected(d) ==
  IF d \in Fds /\ fd[d] \in {"fresh", "connected"}
  THEN fd' = [fd EXCEPT ![d] = "free"]
  ELSE UNCHANGED fd

\* A failure to shut down leaves the descriptor as it is.
Shutdown(d) ==
  IF d \in Fds /\ fd[d] \in {"fresh", "connected", "fin"}
  THEN fd' = [fd EXCEPT ![d] = "free"]
  ELSE UNCHANGED fd

\* Seeded fault: the context is destroyed and the connection is not closed.
CloseForgotten ==
  /\ Go("close", "destroy")
  /\ under' = -1 /\ Drop("tcp")
  /\ UNCHANGED <<fd, losses, platform>>

\* Seeded fault: the connection is closed and the context is not destroyed.
CloseKeepsContext ==
  /\ Go("close", "destroy")
  /\ Shutdown(under) /\ under' = -1
  /\ UNCHANGED <<list, losses, platform>>

\* close_notify, net_sock_close and net_sock_destroy of the TCP context, in
\* net_sock_close_mbedtls, after a failed handshake and in iot_tls_disconnect.
Close ==
  /\ Go("close", "destroy")
  /\ Shutdown(under) /\ under' = -1 /\ Drop("tcp")
  /\ UNCHANGED <<losses, platform>>

-----------------------------------------------------------------------------
(* The time again: the request, and what platform_init makes of the result. *)

\* A request that cannot be sent, or not in time, leaves rc as it was: TD_OK.
SendFails ==
  /\ Go("use", "close") /\ user = "time"
  /\ UNCHANGED <<fd, under, list, losses, platform>>

\* The answer may come before the FIN or the reset; a read that times out is
\* repeated, and with a FIN it never ends.
DateRead ==
  /\ Go("use", "close") /\ user = "time"
  /\ clock' = TRUE
  /\ UNCHANGED <<user, rc, fd, under, list, losses>>

NoDate ==
  /\ Go("use", "close") /\ user = "time"
  /\ Peer # "fin"
  /\ rc' = FALSE
  /\ UNCHANGED <<user, clock, fd, under, list, losses>>

\* Seeded fault: the TLS context is not destroyed.
DestroyTlsForgotten ==
  /\ pc = "destroy" /\ user = "time"
  /\ pc' = IF rc THEN "idle" ELSE "halted"
  /\ user' = IF rc THEN "mqtt" ELSE "time"
  /\ UNCHANGED <<rc, clock, fd, list, under, losses>>

DestroyTls ==
  /\ pc = "destroy" /\ user = "time"
  /\ Drop("tls")
  /\ pc' = IF rc THEN "idle" ELSE "halted"
  /\ user' = IF rc THEN "mqtt" ELSE "time"
  /\ UNCHANGED <<rc, clock, fd, under, losses>>

-----------------------------------------------------------------------------
(* The publisher's client: iot_tls_connect, iot_tls_disconnect and _destroy. *)

Connect ==
  /\ Go("idle", "create")
  /\ UNCHANGED <<fd, under, list, losses, platform>>

\* The publisher ends.
GiveUp ==
  /\ Go("idle", "ended")
  /\ UNCHANGED <<fd, under, list, losses, platform>>

\* The random generator or a certificate fails, or the context cannot be
\* allocated: server_fd.fd is no context, and iot_tls_disconnect calls through it.
SetupFails ==
  /\ Go("create", "wild") /\ user = "mqtt"
  /\ UNCHANGED <<fd, under, list, losses, platform>>

\* Every later failure, a name that is not resolved too, ends in a disconnect.
NotFound ==
  /\ Go("open", "close") /\ user = "mqtt"
  /\ UNCHANGED <<fd, under, list, losses, platform>>

\* The session ends: an error, a ping without an answer.
Leave ==
  /\ Go("use", "close") /\ user = "mqtt"
  /\ UNCHANGED <<fd, under, list, losses, platform>>

\* iot_tls_destroy frees what belongs to mbedTLS.
DestroyStack ==
  /\ Go("destroy", "idle") /\ user = "mqtt"
  /\ UNCHANGED <<fd, under, list, losses, platform>>

-----------------------------------------------------------------------------
(* lwIP and the network.                                                    *)

\* Reset, retransmissions given up, PPP closed: the control block is gone.
Dies(d) ==
  /\ fd[d] \in {"connected", "fin"} /\ losses < MaxLosses
  /\ fd' = [fd EXCEPT ![d] = "dead"]
  /\ losses' = losses + 1
  /\ UNCHANGED <<pc, list, under, platform>>

PeerCloses(d) ==
  /\ fd[d] = "connected"
  /\ fd' = [fd EXCEPT ![d] = "fin"]
  /\ UNCHANGED <<pc, list, under, losses, platform>>

-----------------------------------------------------------------------------
Time ==
  \/ PlatformFails \/ CreateTls \/ OpenTlsFails \/ SetupTlsFails \/ OpenTcpFails
  \/ SendFails \/ DateRead \/ NoDate \/ DestroyTls
Tcp == CreateTcp \/ Connects \/ ConnectFails \/ NoSocket \/ HandshakeOk
       \/ HandshakeFails \/ Close
Client == Connect \/ GiveUp \/ SetupFails \/ NotFound \/ Leave \/ DestroyStack

Next == Time \/ Tcp \/ Client \/ \E d \in Fds : Dies(d) \/ PeerCloses(d)

Spec == Init /\ [][Next]_vars

\* The publisher runs, and the network works again and again: names are resolved,
\* the broker accepts, and the heap suffices. It does not have to stay connected.
FairSpec ==
  /\ Spec
  /\ WF_vars(user = "mqtt" /\ (Tcp \/ Client))
  /\ SF_vars(user = "mqtt" /\ CreateTcp)
  /\ SF_vars(user = "mqtt" /\ Connects)
  /\ SF_vars(user = "mqtt" /\ HandshakeOk)

-----------------------------------------------------------------------------
\* The types. No more than one context of a kind is ever in the list.
TypeOK ==
  /\ pc \in {"boot", "create", "open", "handshake", "use", "close", "destroy",
             "idle", "ended", "halted", "wild"}
  /\ user \in {"time", "mqtt"}
  /\ fd \in [Fds -> {"free", "fresh", "connected", "fin", "dead"}]
  /\ list \in [Contexts -> 0..1]
  /\ under \in Fds \cup {-1}
  /\ rc \in BOOLEAN /\ clock \in BOOLEAN /\ losses \in 0..MaxLosses

\* No path of either user leaves a context behind in hnet's list when the next
\* connection begins; the paths that do leave one end in the error handler.
NothingLeftBehind == pc \in {"idle", "ended"} => \A c \in Contexts : list[c] = 0

\* A connection that lives can be reached: through the only TCP context in the
\* list, whose descriptor it is. Descriptors that nobody can close any more, and
\* descriptor 0 that a context without a connection takes for its own, are dead.
ConnectionsAreHeld ==
  \A d \in Fds : fd[d] \in {"connected", "fin"} => (under = d /\ list["tcp"] = 1)

\* Every lost descriptor is paid for: while fewer connections have failed or died
\* than there are descriptors, a client that goes on gets connected again, unless
\* the peer closes in the middle of a handshake, which then never ends.
Spins == pc = "handshake" /\ Peer = "fin"
NetworkReturns ==
  pc = "idle" ~> (pc \in {"use", "ended", "wild"} \/ Spins \/ losses >= Sockets)

-----------------------------------------------------------------------------
(* What the comments say.                                                  *)

\* timedate.c: setRTCTimeDateFromNetwork sets the RTC, or returns an error; the
\* publisher, whose certificates are checked against the clock, starts only after
\* TD_OK.
ClockIsSet == user = "mqtt" => clock
=============================================================================
