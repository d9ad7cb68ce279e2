-------------------------------- MODULE TlsIo --------------------------------
(***************************************************************************)
(* Reading in time: read_packet of the MQTT client over iot_tls_read over   *)
(* mbedtls_ssl_read, on a counter that wraps; and net_sock_recv_mbedtls,    *)
(* which counts its time in another way.                                    *)
(*                                                                         *)
(* The broker's bytes are numbered. A packet is a type, a length and a body; *)
(* one mbedtls_ssl_read takes bytes of one TLS record only. A length read    *)
(* out of step may be any length.                                           *)
(***************************************************************************)
EXTENDS Sequences, Ticks

CONSTANTS
  Start,          \* the tick counter at the beginning
  MaxTime,        \* bound: how long the clock runs
  Poll,           \* how long a step of a loop takes at most
  Timeout,        \* the time of the caller of read_packet
  PacketTimeout,  \* packetTimeoutMs
  RecvTimeout,    \* sock_read_timeout
  TcpTimeout,     \* SO_RCVTIMEO of the TCP socket underneath
  First,          \* the number of the first byte of each packet that the broker
                  \* sends, and of the one behind the last packet
  BufSize         \* readBufSize

Packets == 1..Len(First)-1
Bodies == [i \in Packets |-> First[i+1] - First[i] - 2]
Boundaries == {First[i] : i \in 1..Len(First)}
Total == First[Len(First)] - 1
Lengths == {Bodies[i] : i \in Packets}

ASSUME PacketsAssumption ==
  /\ First \in Seq(Nat) /\ Len(First) >= 1 /\ First[1] = 1
  /\ \A i, j \in 1..Len(First) : i < j => First[i] + 2 <= First[j]

\* No read of a packet lasts for half the counter's range, however long the packet
\* that is dropped.
ASSUME TimesAssumption ==
  /\ Start \in Tick /\ MaxTime \in Nat /\ Poll \in Nat \ {0}
  /\ {Timeout, PacketTimeout, RecvTimeout} \subseteq 0..Half-1
  /\ TcpTimeout \in Nat \ {0} /\ BufSize \in Nat \ {0}
  /\ \A n \in Lengths \cup {0} : Timeout + 2 * Poll * (n + 3) <= Half

VARIABLES
  now,      \* uwTick, what HAL_GetTick returns
  clock,    \* history: the time since the beginning
  waited,   \* history: how much of it since the last step
  pc,       \* idle, or what is read
  step,     \* of iot_tls_read: in its loop, or behind it; of recv alike
  timer,    \* end_time of pTimer; of recv: start_time
  packet,   \* end_time of packetTimer
  due,      \* history: when the time of the running read is over
  packetDue, \* history: when packetTimer is
  begun,    \* history: when the running read began
  early,    \* history: a read was told too soon that its time was over
  want,     \* len of iot_tls_read
  got,      \* rxLen
  buf,      \* what pMsg holds: the number of each byte
  error,    \* isErrorFlag
  rest,     \* rem_len - total_bytes_read
  records,  \* how many bytes of each TLS record are here
  arrived,  \* history: how many bytes have come
  taken,    \* history: how many were taken
  split,    \* history: a packet was spread over two records
  broken    \* the TLS session has failed

time    == <<now, clock>>
ends    == <<timer, packet, due, packetDue>>
timers  == <<ends, begun, early>>
data    == <<want, got, buf, error, rest>>
network == <<records, arrived, taken, split, broken>>
vars    == <<time, waited, pc, step, timers, data, network>>

Later(a, b) == IF a > b THEN a ELSE b
Least(a, b) == IF a < b THEN a ELSE b

Init ==
  /\ now = Start /\ clock = 0 /\ waited = 0 /\ pc = "idle" /\ step = "loop"
  /\ timer = 0 /\ packet = 0 /\ due = 0 /\ packetDue = 0 /\ begun = 0 /\ early = FALSE
  /\ want = 0 /\ got = 0 /\ buf = <<>> /\ error = FALSE /\ rest = 0
  /\ records = <<>> /\ arrived = 0 /\ taken = 0 /\ split = FALSE /\ broken = FALSE

-----------------------------------------------------------------------------
(* The clock and the network.                                               *)

\* lwIP's recv() waits for SO_RCVTIMEO on the blocking socket; on the publisher's,
\* which is not blocking, nothing waits.
Patience == IF pc = "recv" /\ step = "wait" THEN TcpTimeout ELSE Poll

ClockTicks ==
  /\ clock < MaxTime
  /\ pc = "idle" \/ waited < Patience
  /\ now' = Wrap(now + 1) /\ clock' = clock + 1
  /\ waited' = IF pc = "idle" THEN 0 ELSE waited + 1
  /\ UNCHANGED <<pc, step, timers, data, network>>

RecordArrives ==
  /\ ~broken
  /\ \E n \in 1..Total - arrived :
       /\ arrived' = arrived + n
       /\ records' = Append(records, n)
       /\ split' = (split \/ arrived + n + 1 \notin Boundaries)
  /\ UNCHANGED <<time, waited, pc, step, timers, data, taken, broken>>

SessionBreaks ==
  /\ ~broken /\ broken' = TRUE
  /\ UNCHANGED <<time, waited, pc, step, timers, data, records, arrived, taken, split>>

-----------------------------------------------------------------------------
(* iot_tls_read: each turn of its loop calls mbedtls_ssl_read, then left_ms. *)

Begin(what, len) ==
  /\ pc' = what /\ step' = "loop" /\ waited' = 0
  /\ begun' = clock
  /\ want' = len /\ got' = 0 /\ buf' = <<>> /\ error' = FALSE

InRead == pc \in {"header", "length", "body", "drop"}
InLoop == InRead /\ step = "loop"

LoopOrReturn(done) ==
  /\ step' = IF done \/ LeftMs(timer, now) = 0 THEN "return" ELSE "loop"
  /\ waited' = 0

\* Seeded fault: one byte too many is read.
ReadSomeMore ==
  /\ InLoop /\ ~broken /\ records # <<>>
  /\ LET n == Least(want + 1, Head(records)) IN
       /\ taken' = taken + n
       /\ records' = IF n = Head(records) THEN Tail(records)
                     ELSE [records EXCEPT ![1] = @ - n]
       /\ buf' = [i \in 1..Later(n, Len(buf)) |-> IF i <= n THEN taken + i ELSE buf[i]]
       /\ got' = got + n
       /\ LoopOrReturn(got + n >= want)
  /\ UNCHANGED <<time, pc, timers, want, error, rest, arrived, split, broken>>

\* Each time up to len bytes are put at the beginning of pMsg.
ReadSome ==
  /\ InLoop /\ ~broken /\ records # <<>>
  /\ LET n == Least(want, Head(records)) IN
       /\ taken' = taken + n
       /\ records' = IF n = Head(records) THEN Tail(records)
                     ELSE [records EXCEPT ![1] = @ - n]
       /\ buf' = [i \in 1..Later(n, Len(buf)) |-> IF i <= n THEN taken + i ELSE buf[i]]
       /\ got' = got + n
       /\ LoopOrReturn(got + n >= want)
  /\ UNCHANGED <<time, pc, timers, want, error, rest, arrived, split, broken>>

ReadNothing ==
  /\ InLoop /\ ~broken /\ records = <<>>
  /\ LoopOrReturn(FALSE)
  /\ UNCHANGED <<time, pc, timers, data, network>>

ReadError ==
  /\ InLoop /\ broken
  /\ error' = TRUE /\ LoopOrReturn(TRUE)
  /\ UNCHANGED <<time, pc, timers, want, got, buf, rest, network>>

\* What iot_tls_read returns: an error is no success only when it is late, and a
\* read that ends at the very tick of its timer is a success, however short.
NothingToRead == got = 0 /\ ~error
ReadTimeout == ~NothingToRead /\ HasTimerExpired(timer, now) /\ got < want
Success == ~NothingToRead /\ ~ReadTimeout

Returns == InRead /\ step = "return"

\* The timers and the counts of a read are local variables.
Done ==
  /\ pc' = "idle" /\ step' = "loop" /\ waited' = 0
  /\ timer' = 0 /\ packet' = 0 /\ due' = 0 /\ packetDue' = 0 /\ begun' = 0
  /\ want' = 0 /\ got' = 0 /\ buf' = <<>> /\ error' = FALSE /\ rest' = 0

-----------------------------------------------------------------------------
(* read_packet.                                                             *)

\* packetTimer begins with the packet, but is used only behind the header.
ReadPacket ==
  /\ pc = "idle"
  /\ timer' = CountdownMs(now, Timeout) /\ due' = clock + Timeout
  /\ packet' = CountdownMs(now, PacketTimeout) /\ packetDue' = clock + PacketTimeout
  /\ Begin("header", 1)
  /\ UNCHANGED <<time, early, rest, network>>

ReadFails ==
  /\ Returns /\ ~Success
  /\ Done
  /\ early' = (early \/ (ReadTimeout /\ clock < due))
  /\ UNCHANGED <<time, network>>

HeaderRead ==
  /\ Returns /\ Success /\ pc = "header"
  /\ timer' = packet /\ due' = packetDue
  /\ Begin("length", 1)
  /\ UNCHANGED <<time, packet, packetDue, early, rest, network>>

RemLen ==
  IF buf # <<>> /\ buf[1]-1 \in Boundaries \ {Total+1}
  THEN {Bodies[CHOOSE i \in Packets : First[i] = buf[1]-1]}
  ELSE Lengths \cup {0}

\* Seeded fault: a packet as long as the buffer is taken for a fitting one.
LengthReadFits ==
  /\ Returns /\ Success /\ pc = "length"
  /\ \E len \in RemLen :
       \/ len = 0 /\ Done
       \/ len # 0 /\ Begin("body", Least(len, BufSize)) /\ UNCHANGED <<ends, rest>>
  /\ UNCHANGED <<time, early, network>>

\* A body that does not fit is read into the buffer piece by piece and dropped.
LengthRead ==
  /\ Returns /\ Success /\ pc = "length"
  /\ \E len \in RemLen :
       \/ len = 0 /\ Done
       \/ len \in 1..BufSize-1 /\ Begin("body", len) /\ UNCHANGED <<ends, rest>>
       \/ len >= BufSize /\ Begin("drop", BufSize) /\ rest' = len /\ UNCHANGED ends
  /\ UNCHANGED <<time, early, network>>

\* The packet is taken if got = want, else read_packet fails.
BodyRead ==
  /\ Returns /\ Success /\ pc = "body"
  /\ Done
  /\ UNCHANGED <<time, early, network>>

DropRead ==
  /\ Returns /\ Success /\ pc = "drop"
  /\ \/ /\ got < rest
        /\ Begin("drop", Least(rest - got, BufSize)) /\ rest' = rest - got
        /\ UNCHANGED ends
     \/ got >= rest /\ Done
  /\ UNCHANGED <<time, early, network>>

-----------------------------------------------------------------------------
(* net_sock_recv_mbedtls of a blocking socket: the time is looked at before  *)
(* each mbedtls_ssl_read, which waits in net_sock_recv_tcp_lwip.             *)

Recv ==
  /\ pc = "idle"
  /\ timer' = now /\ due' = clock + RecvTimeout
  /\ Begin("recv", 0)
  /\ UNCHANGED <<time, packet, packetDue, early, rest, network>>

RecvOver == NetTimeoutLeftMs(timer, now, RecvTimeout) <= 0

RecvTurn ==
  /\ pc = "recv" /\ step = "loop"
  /\ ~RecvOver
  /\ step' = "wait" /\ waited' = 0
  /\ UNCHANGED <<time, pc, timers, data, network>>

\* recv() is called again when its time is over, for which lwIP's errno is EWOULDBLOCK
\* and not ERR_TIMEOUT, and when it returns 0 because the peer has closed.
RecvRetries ==
  /\ pc = "recv" /\ step = "wait"
  /\ waited' = 0
  /\ UNCHANGED <<time, pc, step, timers, data, network>>

\* A record that carries nothing for the caller: the loop goes on.
RecvWantsRead ==
  /\ pc = "recv" /\ step = "wait"
  /\ step' = "loop" /\ waited' = 0
  /\ UNCHANGED <<time, pc, timers, data, network>>

\* Bytes, or an error of TCP or TLS.
RecvReturns ==
  /\ pc = "recv" /\ step = "wait"
  /\ Done
  /\ UNCHANGED <<time, early, network>>

RecvTimesOut ==
  /\ pc = "recv" /\ step = "loop"
  /\ RecvOver
  /\ Done
  /\ early' = (early \/ clock < due)
  /\ UNCHANGED <<time, network>>

-----------------------------------------------------------------------------
TlsRead == ReadSome \/ ReadNothing \/ ReadError
PacketRead == ReadPacket \/ ReadFails \/ HeaderRead \/ LengthRead \/ BodyRead \/ DropRead
SockRecv == Recv \/ RecvTurn \/ RecvRetries \/ RecvWantsRead \/ RecvReturns \/ RecvTimesOut

Next == ClockTicks \/ RecordArrives \/ SessionBreaks \/ TlsRead \/ PacketRead \/ SockRecv

Spec == Init /\ [][Next]_vars

-----------------------------------------------------------------------------
\* The types. No byte is taken that did not come, and pMsg, which has want bytes,
\* is not overrun.
TypeOK ==
  /\ now \in Tick /\ clock \in 0..MaxTime /\ waited \in 0..Later(Poll, TcpTimeout)
  /\ pc \in {"idle", "header", "length", "body", "drop", "recv"}
  /\ step \in {"loop", "return", "wait"}
  /\ timer \in Tick /\ packet \in Tick
  /\ due \in Nat /\ packetDue \in Nat /\ begun \in 0..clock /\ early \in BOOLEAN
  /\ want \in 0..Later(BufSize, 1) /\ got \in 0..2*BufSize
  /\ buf \in Seq(1..Total) /\ Len(buf) <= want
  /\ error \in BOOLEAN /\ rest \in Nat
  /\ records \in Seq(1..Total) /\ arrived \in 0..Total /\ taken \in 0..arrived
  /\ split \in BOOLEAN /\ broken \in BOOLEAN

\* Over the wrap of the counter, a read or a receive that says its time is over says
\* so when it is; and a read ends two steps behind its time, or behind its begin if
\* the time of its packet was over then. (A receive has no such bound.)
TimeoutsAreKept ==
  /\ ~early
  /\ InRead => clock <= Later(due, begun) + 2 * Poll

\* As long as the broker puts packets into records whole and the session lives,
\* read_packet begins at the first byte of a packet, whatever timed out before and
\* however long the packet was.
InStep == pc = "idle" /\ ~split /\ ~broken => taken + 1 \in Boundaries

-----------------------------------------------------------------------------
(* What the comments say.                                                  *)

\* network_interface.h: pMsg is "where read bytes should be copied", len of them:
\* when as many bytes were read as wanted, pMsg holds them, in their order.
BytesAreCopied ==
  step = "return" /\ got >= want =>
    \A i \in 1..want : buf[i] = taken - got + i

\* net.h: a blocking read "will not return until the requested length is received,
\* or the "sock_read_timeout" is reached", and returns NET_TIMEOUT when "the read
\* timeout was reached": it does not go on for as long again.
RecvEndsInTime == pc = "recv" => clock <= due + RecvTimeout + 2 * Poll
=============================================================================
