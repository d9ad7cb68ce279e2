# Verification of the AWS IoT client on the STM32F429 with a PPP modem

The program is firmware for an STM32F429 board. It brings up a GSM modem with
AT commands, runs PPP (lwIP) over the modem's serial line, opens a TLS
connection to AWS IoT, and publishes over MQTT whatever an FPGA sends on a
second serial line. It listens on the device shadow for commands to an LED.
FreeRTOS schedules a handful of tasks with two priorities; they share globals,
flags and queues, and use no mutex of their own.

This directory holds TLA+ models of that core, TLC configurations that check
them, and TLAPS proofs about eight of them. Paths below are relative to the
repository; `PROJECT.json` maps each definition of the models to source lines.

## 1. Components

`vGsmTask` and lwIP's core thread run at priority idle+1, everything else at
idle priority, where tasks are time-sliced.

| component | state it keeps | operations | talks to | what is hard |
|---|---|---|---|---|
| **GSM bring-up**, `gsm.c`, `gsmLLR.c` (`vGsmTask`) | `gsmState.init`, `.notRespond`; `pppModeEnable`; `receiveState` | power key, probe, reset, a script of 13 AT commands, dial, poll every 3 s | `gsmPPP_Tsk` through unlocked flags, modem | flags written by another task; failures that do not reach the caller |
| **PPP supervisor**, `gsmPPP.c` (`gsmPPP_Tsk`, `status_cb`) | `pppState`, the PPP control block | connect, close, ask for a new bring-up, start the publisher once | `vGsmTask`, `gsmPPP_rawInput`, lwIP thread | `pppState` has three writers; a callback's writes may come between any two steps |
| **PPP bytes**, `gsmPPP.c` (`gsmPPP_rawInput`, `gsmPPP_rawOutput`, `output_cb`) | a transmit queue of 12 buffers | feed received bytes to lwIP, send buffers | UART3, lwIP | buffer freed under the transmitter; full queue blocks lwIP |
| **AT dialog**, `gsmLLR.c` (`runAtCommand`), `gsmLLR2.c` | `rxQueue`, `pRxBuffer`, `receiveCount`, `receiveState` | send one command, collect bytes until OK or one second of silence | UART3 interrupt, HAL, modem | late replies; the HAL's lock met by the interrupt |
| **FPGA receiver**, `fpga_commander.c`, `fpga_buf.c` | `fpga_temp_buff`, its counter, `isActiveUart`, `fpgaDataQueue` | store a byte (interrupt), detect silence, make a record | UART2 interrupt, publisher | buffer and counter shared with the interrupt without a lock |
| **Publisher**, `aws_subscribe_publish_sensor_values.c` | `rc`, `loop_is_normal`, the record in hand | connect, subscribe, loop of yield / take record / publish | `fpgaDataQueue`, MQTT client | what each return code leads to; retries |
| **MQTT client**, `aws_iot_mqtt_client*.c` | client state, ping flag, back-off interval, handlers, read buffer | connect, subscribe, publish (QoS 1), yield, keep-alive, reconnect, disconnect | publisher, network wrapper, broker | nested calls; state restored on every failure path; stale read buffer |
| **Network wrapper**, `aws_network_st_wrapper.c` | `hnet`, the socket | read, write, connect, disconnect, destroy | MQTT client, sockets | errors reported as success; a read that comes in parts |
| **Sockets and TLS**, `net*.c`, `mbedtls_net.c`, `lwip_net.c` | a list of contexts, lwIP's four descriptors | create, open, send, receive, close, destroy | lwIP, mbedTLS | what each failure path releases; loops without a limit |
| **Timers**, `aws_timer.c`, `net.c` | a 32-bit tick and an end time | set, left, expired | MQTT client, sockets | wrap-around |
| **Platform start**, `cloud.c`, `timedate.c` | network handle, clock | `platform_init`, set the clock from an HTTP date | publisher, sockets | error handlers that never return; errors that are none |

Left aside: settings (`iot_flash_config.c`, constants and a console dialogue),
HTTP and sensor helpers, console, entropy (sequential formatting and parsing),
the firewall and the Wi-Fi and cellular sockets (compiled out), the shadow and
JSON parts of the AWS SDK (linked, never called), and third-party code: lwIP,
mbedTLS, FreeRTOS, the HAL. Of the latter only what the firmware sees of the
PPP control block and of the UART handle is modelled.

What makes each component correct:

- *bring-up and supervisor*: one owner of the serial line at a time; nobody
  waits for an event that cannot come; a failed link leads to a new attempt;
- *AT dialog*: a reply is credited to the command it belongs to, or at least
  replies are used in order and once; reception never stays off; a command ends;
- *FPGA receiver*: records keep bytes in order, without repetition, inside the
  buffer; what was received is picked up;
- *publisher and client*: what counts as sent has reached the broker; the state
  machine never locks itself out; a lost link is restored or given up; after a
  reconnection the subscription exists;
- *PPP bytes*: what lwIP writes goes out whole, once and in order, and nobody
  waits for ever for a full queue;
- *sockets*: what was opened can be closed, what was created is destroyed, on
  every path; a failed connection does not use up the means for the next;
- *reading in time*: a read ends in its time although the counter wraps, and the
  next packet is looked for where one begins.

## 2. Modules

| module | models | lines it stands beside |
|---|---|---|
| `GsmPpp` | bring-up, PPP supervisor, `status_cb` in either of its threads, lwIP's PPP phases, modem | `gsm.c`, `gsmLLR.c`, `gsmPPP.c`, `ppp.c` |
| `LineOwner` | abstract: who has the serial line, and how it changes hands | implemented by `GsmPpp` |
| `AtDialog` | `runAtCommand`, reply parser, receive interrupt, HAL lock, modem | `gsmLLR.c`, `gsmLLR2.c` |
| `FpgaRecords` | interrupt, `fpgaTask`, record queue, publisher with an abstract client | `fpga_commander.c`, `fpga_buf.c`, publisher |
| `MqttClient` | publisher and MQTT client as one sequential task, broker, link | publisher, `aws_iot_mqtt_client*.c`, wrapper |
| `AnswerOrder` | abstract: what a dialogue without identifiers promises | implemented by `AtDialog` and by `MqttClient` |
| `PppBytes` | the two tasks that move bytes, the four writers of frames, the queue, UART3 | `gsmPPP.c`, `pppos.c`, `tcpip.c`, `gsmLLR2.c`, HAL |
| `NetSockets` | contexts and descriptors, from the platform start to the last reconnection | `net_tcp_lwip.c`, `net_tls_mbedtls.c`, wrapper, `timedate.c`, `cloud.c` |
| `Ticks` | arithmetic on the tick counter, no state | `aws_timer.c`, `net.c` |
| `TlsIo` (extends `Ticks`) | `read_packet` over `iot_tls_read` over TLS records, and a receive with a timeout, on a counter that wraps | `..._common_internal.c`, wrapper, `net_tls_mbedtls.c` |
| `MCTlsIo` | the packets of the run | |
| `GsmPpp_proofs`, `AtDialog_proofs`, `AnswerOrder_proofs`, `FpgaRecords_proofs`, `MqttClient_proofs`, `PppBytes_proofs`, `NetSockets_proofs`, `TlsIo_proofs` | theorems | |

Operators marked *Seeded fault* above an action are variants of it with a
plausible bug. No specification uses them; exchanging one for the action shows
that a property would notice.

### GsmPpp

Actors and their program counters: `gsmPc` says where `vGsmTask` is blocked,
`pppPc` where `gsmPPP_Tsk` is, `inPc` where `gsmPPP_rawInput` is in `status_cb`;
`phase`/`errCode` are lwIP's `pcb->phase` and `pcb->err_code`. `cmd` is the AT
command of the script, 0 being the probe of `gsmLLR_PowerUp` and 13 the dial
command. `vGsmTask` and the lwIP thread have the higher priority and share no flag
with each other, so whatever they do between two blocking calls is one action.
`gsmPPP_Tsk` may be preempted anywhere, so each read or write of a shared flag is its
own action (`MarkNotInited`, `MarkModeOff`, `MarkInitOff`, `MarkNotRespond` are the
four writes after a failed `ppp_connect`).

`status_cb` runs in three places. What the peer's packets bring about happens in
`gsmPPP_rawInput`, which calls `pppos_input` in its own thread
(`PPP_INPROC_IRQ_SAFE` is 0): IPCP comes up (`IpcpUp`), or the last packet of a link
ends it (`InputEndsLink`). That task has the priority of `gsmPPP_Tsk`, so the
callback goes write by write there: `CbReset` (`not_inited`, line 231), then
`CbReady` and `CbReadyAgain` (`ready`, 239 and 256, with the prints between them;
the phase becomes running after the second, in `np_up`), or `CbConnect`
(`ppp_connect` with a hold-off of 30 seconds). When a timer of lwIP's thread ends the link
(`LinkEnd`), and when `ppp_close` calls it in `gsmPPP_Tsk` itself, the callback is
part of that step (`StatusCb`).

The split callback has a consequence that the code does not guard against: when
`gsmPPP_Tsk` looks at `pppState` between two of its writes, it takes a link that has
just come up for one that is not there, gets `ERR_ALREADY`, closes PPP and gives
the line back, and the callback then writes `ready` or calls `ppp_connect` all the
same. The history variable `undercut` marks exactly this: `ppp_close` was called
while `gsmPPP_rawInput` was in `status_cb`. It ends when the link that was closed
ends without a hold-off, unless the publisher was started meanwhile, which never stops. What the
program guarantees without such a close, and what may happen with one, are both
stated below.

`ppp_connect` and `ppp_close` are called by `gsmPPP_Tsk` without lwIP's lock;
each is a single step here. `healthy` is an environment switch: once it
stays true, the modem answers, memory is available and links come up. It can
change at any time.

`LineOwner` says what all this is for in three variables: the line is the dialogue's,
PPP's, nobody's or contested; PPP has a session or not; the publisher was started or
not. In `GsmPpp` the line is contested while `undercut`; else PPP's while `init` is
true (`vGsmTask` looks at nothing else before it goes near the line), else the
dialogue's while `gsmPc` is in it. A session that lwIP brings back by itself, after
its hold-off, counts as one (`Session`). Sessions and the publisher begin on PPP's
line or on a contested one; a line becomes contested only while it is PPP's and
before the publisher runs, and it is settled only with the session ended.

Abstracted: the text of replies (a reply is OK or not: `AtDialog` looks inside
the dialogue), delays (any time), addresses.

### AtDialog

One command after the other. Bytes are abstracted to the two halves of a reply
and to other text; a reply is found when its halves lie side by side in the
buffer, which keeps what matters about `strstr` on a buffer that is overwritten
in a circle. `LockHandle`/`StartTransmit` split `HAL_UART_Transmit_IT` around
its lock: a receive interrupt between the two finds the handle locked and its
`HAL_UART_Receive_IT` returns `HAL_BUSY`, so reception stays off (`armed`).
`Overrun` is the other way for reception to end. `CloseCommand` erases the
command text, maybe under the transmitter (`tx = "erased"`).

Time: the reply timeout is one second without a byte. A transmission takes
milliseconds, so `ReceiveTimeout` and `Prepare` require an idle transmitter.

The number of a command (`of`) is history. It is not in the bytes and guards
nothing.

### FpgaRecords

Bytes are numbered, 0 is the zero of `memset`. `RxByte` stores where the HAL
was last told to (`rxPtr`), then counts or not, then arms the address of the
new count: exactly the order of `fpgaRxUartHandler`. `fpgaTask` is split at
each access to what it shares with the interrupt; `memset` is split anywhere.
The buffer array has one cell more than the buffer, because the code writes
there (see the findings). The publisher is in the model because its speed and
its end decide what happens to the queue. The client is reduced to its return
codes; a publish that returns success may or may not have brought the record to
the broker (`MqttClient` shows when).

The FPGA and `fpgaTask` may go on after the publisher has ended. On the device
the end of the publisher stops everything (see below), so this adds
behaviours and takes none away.

### MqttClient

The client is single-threaded, but its calls nest: waiting for a PUBACK reads
any packet; an LED command calls the handler, which publishes and waits itself.
`stack` holds the open calls, innermost first, each with the client state it
saved. `clientState`, `ping`, `interval`, `lastType` (what `readBuf` still
holds) are fields of the client. `rc`, `attempt`, `left`, `pubPc` belong to the
publisher. External: the link (`up`, `reset`: errors are reported, `silent`:
writes succeed and nothing arrives), packets in both directions, whether the
broker knows the subscription.

Each action is the code between two points where the environment matters:
a packet read and dispatched, a packet sent, the return of a call with all its
assignments. Timers are choices: a wait may time out at any moment, a ping may
be due at any moment.

`StalePacket` deserves a word. `iot_tls_read` returns success for a socket
error that comes before its timer expires; `read_packet` decodes a remaining
length from bytes it did not receive, and, when that length happens to be zero,
the packet left in the buffer is dispatched again. The model allows this whenever
the link was reset and nothing is left to read, and limits the choice to the
packet types for which it makes a difference.

Packet types that an acknowledged session cannot bring (PUBREC, QoS 2) are
not there, and the handler is one LED command with one reply publish.

When `subscribe_publish_sensor_values` returns, the FreeRTOS port calls
`prvTaskExitError`, which disables interrupts and loops: the device stops.
That is why the environment is frozen at `pubPc = "ended"`.

### AnswerOrder

An abstract specification with four counters: commands issued, waiting, the
last one answered, given up. An answer names a command that was issued and is
newer than the last. It promises order and no repetition, and that the answer
taken lags by no more than the number of commands given up (`LagBounded`). It
does not promise that a command receives its own answer: the code cannot keep
that promise, in either dialogue.

`AtDialog` implements it with `Depth = 1`, `issued` being the number of
commands sent and `waiting` one while a command is open. `MqttClient`
implements it with `Depth = 1 + Leds` (nested publishes), `waiting` being the
number of publish frames on the stack.

### PppBytes

Four threads write frames. lwIP's own writes what its timers send (`TcpipFrame`).
The application's is next (`AppFrame`): `LWIP_TCPIP_CORE_LOCKING` is 1 by default and
`lwipopts.h` leaves it so, hence `tcpip_send_msg_wait_sem` runs a send in the thread
that calls it, at idle priority, under the core lock. `gsmPPP_rawInput` calls
`pppos_input` itself and so answers LCP, IP and TCP in its own thread (`InPass`), and
`gsmPPP_Tsk` writes LCP's requests in `ppp_connect` and `ppp_close` (`TaskFrame`);
neither takes the lock. The application is `gsmPPP_Tsk` itself in `platform_init` and
then the publisher that it starts, and it never comes back to its loop: after the
first frame of the application there is none of `gsmPPP_Tsk`, and PPP mode is no more
switched off. Before it, `ppp_connect` has sent its request. The inheritance of
priority by the holder of the lock is left out, which only adds behaviours.

`pppos` cuts a frame into chunks of one pbuf and hands
each to `output_cb`, which allocates a copy (`OutputCb`) and queues it, waiting
for ever if it must (`QueueSend`). `gsmPPP_rawOutput` takes a chunk, calls the
HAL until it accepts it (`OutTransmit`), and frees the copy at once (`OutFree`).
`OutStart` stands apart because the receive interrupt may come while the HAL holds
the handle's lock; the reception then stays off (`armed`), as in `AtDialog`.

Scheduling is part of the model: lwIP's thread outranks all others here, so these
run only when it cannot (`TasksRun`); they are time-sliced among themselves.
`FramesCutOnlyUnlocked` rests on the priority for the frames of lwIP's thread and on
the core lock for those of the application. Against `gsmPPP_rawInput` the lock does
not help: its answers do cut frames of the application (`AppFramesWhole` states the
contrary, and fails).
The frames of `gsmPPP_rawInput` and of `gsmPPP_Tsk`, which hold no lock, may be cut by
anybody, and nothing is claimed of them.

While the line is not in PPP mode the AT dialogue arms the reception, takes from
the same queue and uses the same transmitter (`AtPrepares`, `AtReceives`,
`AtTransmits`), and the mode may change whenever `gsmPPP_Tsk` is in no frame and not
yet the application (`GsmPpp` says when it really does). Chunk and byte numbers are history. Contents are abstracted; `spoilt` says
that the memory the UART sends from was given out again.

### NetSockets

One thread at a time uses the sockets: `gsmPPP_Tsk` in `platform_init`, then the
publisher (`user`). `list` counts the contexts in `hnet->sock_list`, `fd` holds
the state of each of lwIP's descriptors, `under` is `underlying_sock_ctxt` of the
TCP context: 0 from `memset`, which is a valid descriptor, or -1 after a close.
Each action is one function up to its next point of failure; the failures of
mbedTLS, of allocation, of name resolution and of `connect` are separate actions
that release exactly what the code releases on that path. `Dies` and `PeerCloses`
are what happens to a connection behind the descriptor: lwIP refuses `shutdown` on
a connection without a control block, and then nothing is closed.

`pc = "halted"` is the endless loop of `CLOUD_Error_Handler`, `pc = "wild"` a
disconnect through a context that was never created. Nothing is modelled behind
either.

### Ticks and TlsIo

`Ticks` holds the arithmetic: `countdown_ms`, `left_ms` and `has_timer_expired`
take a signed difference of two counters; `net_timeout_left_ms` adds the wrap a
second time. The width is a constant, so TLC can look at a counter of 64 ticks and
the proofs speak of every width.

`TlsIo` uses both on a clock that advances while code runs or waits, at most
`Poll` ticks within one step of a loop. `now` is `uwTick`, which wraps; `clock`,
`due` and `begun` are histories that do not, so that a property can compare what the
counter said with what was true (`early`). `read_packet` reads a type byte, a length
and a body, each with one `iot_tls_read`, and drops a body that is longer than its
buffer in pieces; `iot_tls_read` loops over `mbedtls_ssl_read`, which returns bytes of
one TLS record. The broker's bytes are numbered, `First` says where its packets
begin, and they come in records cut anywhere; a length read out of step may be any. The two timers are kept apart as in the
code: the caller's for the first byte, `packetTimer` from then on. `Recv` and its
companions are `net_sock_recv_mbedtls` of the blocking socket that fetches the
time. It looks at its time before each `mbedtls_ssl_read` (`RecvTurn`), and that one
waits in `net_sock_recv_tcp_lwip`, whose `recv()` gives up after `TcpTimeout`, the
`SO_RCVTIMEO` of the TCP socket. lwIP reports this as `EWOULDBLOCK` (`err.c:52`), for
which the loop at `net_tcp_lwip.c:278-303` calls `recv()` again (`RecvRetries`), as
often as the server is silent: `case ERR_TIMEOUT` is never reached, and only bytes
or an error lead back to the outer loop. So a receive has no upper bound, and
the model has none. The remaining length is one byte (127 at most, the code allows four), and
what a body holds is left to `MqttClient`.

## 3. Runs

Passing runs check deadlock unless noted. Sizes are what TLC 2 finds on two
workers.

| run | bounds | states | asks |
|---|---|---|---|
| `GsmPpp` | 13 commands, dial script from 10, 3 power attempts: the values of the code | 166 k | Is there always one owner of the line, through any number of failures, resets and redials, unless PPP is closed under a callback? Does bring-up end and does the supervisor handle a failed link? |
| `AtDialog` | 3 commands, queue of 2, buffer of 3 halves | 272 k | Does the dialogue implement `AnswerOrder`, is the lag bounded, does reception resume, do commands end? |
| `FpgaRecords` | buffer of 5, queue of 2, 6 bytes | 622 k | Do records and what the broker gets keep the order of the bytes, whatever the interrupt hits? |
| `MqttClient` | 1 record, 1 LED command, 2 broken links, 1 timeout on a live link, 2 attempts, back-off 1..2 | 223 k | Is the client state always that of the innermost call, the stack open exactly when it should be, the subscription alive, acknowledgements used in order, and every loss of the link repaired or given up? |
| `PppBytes` | one frame of 1 or 2 chunks for each writer (of 1 for `gsmPPP_Tsk`), transmit queue of 1, 2 received bytes, receive queue and `tbuf` of 1 | 722 k | Does what is written go out once and in order, who can cut whose frames, does a full queue drain, is every copy freed? |
| `NetSockets` | 4 descriptors (the value of the code), 4 connections that fail or die | 885 | Does any path leave a context or a live connection behind, and does the client get connected again? |
| `TlsIo` | counter of 64 ticks starting at 58, 12 ticks long; timeouts 3, 2 and 3; packets with bodies of 1 and 4 and a buffer of 3 | 2.6 million | Is no read or receive over early, does a read end in its time over the wrap, does it stay inside its buffer, and does the next packet start where one starts? |

Properties of the passing runs:

- `GsmPpp`: `LineIsHandedOver` (the refinement of `LineOwner`: it implies that the
  dialogue is alone on a line that is not contested), `ParserNeverSeesPppMode`,
  `DialFindsPppIdle` (no stale `pppState`, unless PPP was closed under a callback),
  `WaitHasCallback` (no wait for a callback that cannot come),
  `ResetNotForgotten` (a reset request survives a concurrent clearing),
  `PublisherKeepsLine` (the publisher starts on a line that
  is PPP's and that is listened to, for good, with the same exception), and
  live: `BringUpEnds`, `DialledLineConnects`, `FirstFailureIsHandled`. The latter two leave
  the mix-up out by name: `gsmPPP_Tsk` serving a line that it closed under a callback,
  which is for ever, and `ppp_connect` called again and again just while a packet of
  the peer ends the link.
- `AtDialog`: `AnswersInOrder` (the refinement), `LagBounded`,
  `TextErasedOnlyAfterTimeout`, live: `ReceptionResumes`, `CommandReturns`.
- `FpgaRecords`: `BytesInOrder`, `CloudInOrder`, live: `BufferIsTaken`.
- `MqttClient`: `StateMatchesCall`, `OpenWhileConnected`, `StaysSubscribed`,
  `RecordIsDelivered` (success means delivery as long as nothing was given up),
  `PubacksInOrder` (the refinement), live: `ReconnectionEnds`,
  `BrokenLinkIsLeft`.
- `PppBytes`: `SentInOrder`, `FramesCutOnlyUnlocked`, `BytesInOrder`, live:
  `LinkDrains`. Its `TypeOK` bounds the number of copies allocated at once, which
  matters because `output_cb` does not check its `malloc`.
- `NetSockets`: `NothingLeftBehind` (contexts), `ConnectionsAreHeld` (a live
  connection is the one the listed context points to), live: `NetworkReturns`.
- `TlsIo`: `TimeoutsAreKept` (no read is told too soon that its time is over; a read
  of a packet ends two steps behind its time), `InStep` (framing survives timeouts and dropped packets).

Why the bounds are enough. `GsmPpp` has no bound: its constants are those of the
code and its only counter is reset. For the others: two commands are the least
for a late reply, three for a lag that goes on after it; a queue of two and a
buffer of three halves both overflow and wrap with a reply split around the end;
five cells hold one record of one byte (two hex digits and the line end must fit)
and six bytes fill the buffer to its end while a first record is still on its
way; a record is sent again after a timeout, so that one record and one LED
command give three publishes or more, nested, late and repeated; two breaks give
a break during the recovery of the first; the back-off doubles once below its
maximum and once past it. In `PppBytes` a queue of one is full
in the middle of every frame of two chunks, and the four writers meet in every order
that scheduling and the lock leave them; two bytes overflow a receive queue of one, and
have an order. The counter of `TlsIo` wraps
six ticks after the start and runs six more: before, during or after a wait, and
across the end of a receive's time. The range is wide enough that no read
lasts for half of it, which the proofs assume too. One packet fits
the buffer while the other is dropped in two pieces. `NetSockets` has the four
descriptors of lwIP (`MEMP_NUM_NETCONN`), and its bound is the point of
`NetworkReturns`: each connection that fails or dies may cost a descriptor, so the
client returns as long as fewer than four have, and with the fourth no descriptor
is left and it may never come back. Larger instances of
`MqttClient` were run once with the same result: two records (711 k states, three
minutes), two records and two LED commands with one break (1.5 million), and three
records with two timeouts for the safety properties.

Deadlock. `CHECK_DEADLOCK FALSE` in the `FpgaRecords` runs because the FPGA sends
a finite number of bytes and the publisher may return; in the `MqttClient` runs
because the publisher may return, after which the device stands still; in
`PppBytes` because its frames and bytes are finite; in `NetSockets` because of the
error handler and the end of the publisher; in `TlsIo` because its clock ends.
`GsmPpp` never stops; in `AtDialog` text may still arrive after the last command.

### Runs that find a violation

Each states what a comment of the repository says.

| run | says | finds |
|---|---|---|
| `GsmPppLostModemIsReinitialisedEarly` | `gsm.c:53-55`: a modem that is not ready is initialised | after one recovery `err_code` stays `PPPERR_USER` and the next failure is taken for a close of our own; `gsmPPP_Tsk` reconnects for ever on a modem that is no longer in data mode |
| `MqttClientSuccessIsDelivered` | `publish.c:185-186`: success after *the* PUBACK | identifiers are not compared: after a timeout a late PUBACK credits a record that is lost |
| `GsmPppServedModuleIsInitialised` | `gsmPPP.c:119`, 222-223: the module is initialised when the publisher starts; the callback comes from lwIP's core thread | `gsmPPP_Tsk` polls between the callback's `not_inited` (231) and its `ready` (239) in `gsmPPP_rawInput`, closes PPP, clears PPP mode and `init`, and then sees `ready` and serves for ever, while `vGsmTask` begins to dial |
| `PppBytesSentAsWritten` | `gsmPPP.c:189-196`: the buffer is written to the serial port | the copy is freed while the transmit interrupt reads it; another writer may be given the same memory |
| `TlsIoBytesAreCopied` | `network_interface.h:127-128`: the bytes read are copied to the buffer | the second part of a read overwrites the first |

Three more statements of comments stand at the end of their modules, in the same
way. No configuration here checks them; TLC refutes each within seconds when it is
put in place of the properties of its module's configuration (with one received byte
in `PppBytes`):

- `AppFramesWhole` of `PppBytes`: lwIP's `doc/ppp.txt:392-393` names `pppos_input_tcpip`
  as the thread-safe way, and `gsmPPP_rawInput` calls `pppos_input`, without the core
  lock (`gsmPPP.c:157`). One of its answers comes into the transmit queue between two
  chunks of a frame that the application sends under the lock.
- `RecvEndsInTime` of `TlsIo`: `net.h:265-266` and 273 say that a blocking receive
  returns NET_TIMEOUT when `sock_read_timeout` is reached. The timeout of the TCP
  socket is EWOULDBLOCK, for which `net_tcp_lwip.c:278-303` reads again, without end:
  with a silent server the receive goes on behind twice its time, and behind any.
- `ClockIsSet` of `NetSockets`: `timedate.c:82-94` says that the RTC is set or an error
  returned. A request that cannot be sent leaves TD_OK (146-149), and the publisher
  starts with a clock that was never set.

Other disagreements met while modelling, which the models contain and no property
states:

- `gsm.c:59-60` says that an error in any stage starts everything again, but the
  results of AT+CBATRANG (`gsmLLR.c:177`) and of the four dial commands
  (`gsmLLR.c:203-214`) are dropped, so the modem is declared ready after refusals
  (`ResultIgnored`, `EnterPppMode` of `GsmPpp`).
- `gsmLLR2.c:93` speaks of the end of *the* reply, but `rxQueue` is not emptied
  between commands, so a late OK ends the next one (`AtDialog`; `LagBounded` says how
  far this goes).
- `fpga_commander.c:71-75` guards the buffer, but a full one arms the byte behind it;
  and the byte that was armed before the count returned to 0 is stored behind the old
  record, so that the next record begins with a zero (`RxByte`, `RestartCount` and
  `Wipe` of `FpgaRecords`; the array of the model has the cell behind the buffer).
- The publisher's comment at 350-351 says that its cycle ends only after the flag was
  reset, but any other return code ends it too (`Again` of `FpgaRecords`).
- `aws_network_st_wrapper.c:448-449` leaves errors to the ping, but a PINGRESP left in
  the buffer and read again restarts the ping timer each time (`StalePacket` of
  `MqttClient`; `BrokenLinkIsLeft` excludes that packet, and fails without doing so).
- `net.c:641` calls `net_timeout_left_ms` robust to overflows; after a wrap it is late
  (`TlsIo_proofs`).

## 4. Fairness

- `GsmPpp`: weak fairness of `vGsmTask` and of the two tasks of `gsmPPP.c`: they
  block only with time limits, and those at idle priority run, in turn, because those
  above them block; so a callback that has begun ends. `IpcpUp` is fair only while
  `healthy`; `LinkEnd` and `HoldoffExpires` are lwIP timers with finite retry counts,
  so a negotiation ends, up or not (`IpcpUp \/ LinkEnd`). Nothing is assumed of the modem:
  what needs a working modem says so in its premise (`<>[]healthy`). One assumption
  is about time and stands in a guard: `LinkEnd` waits for `inPc = "loop"`, as LCP's
  retransmissions take seconds and `status_cb` waits for nothing.
- `AtDialog`: weak fairness of `runAtCommand` (highest priority, waits with a
  limit) and of the end of a transmission (an interrupt). `CommandReturns` has
  the premise that unsolicited text ends at last: the limit is per byte, and the
  run without the premise would rightly fail.
- `FpgaRecords`: weak fairness of `fpgaTask`, whose waits are all limited.
- `MqttClient`: weak fairness of the client as a whole (its waits have timers)
  and of a reachable broker. Strong fairness of the ping, in the form "the ping
  fails or is sent when due again and again, unless a PINGRESP restarts the timer
  for ever": the timer runs on between yields, so a ping cannot be put off for
  ever by anything but a restart, and a restart is exactly what the disjunct
  leaves open.
- `PppBytes`: weak fairness of each writer and of the steps of `gsmPPP_rawOutput`
  (FreeRTOS runs a task when none above it can run, and lwIP's thread waits in the
  end) and of the end of a transmission. Strong fairness of `OutTransmit` alone: the
  AT dialogue may hold the transmitter again and again while the mode changes, and
  the loop at `gsmPPP.c:175-177` polls without a pause, so it finds it idle at last.
- `NetSockets`: weak fairness of the publisher's thread; strong fairness of the
  successful outcomes (a context can be allocated, the name is resolved and the
  broker accepts, the handshake succeeds), that is, a network that works again and
  again without having to stay up. `NetworkReturns` is about such a network, and
  the publisher may still give up. The assumption includes that a peer which is silent
  in a handshake answers or fails at last: with one that is silent for ever the loop at
  `net_tcp_lwip.c:278-303` goes on for ever (`RecvEndsInTime` of `TlsIo` states it for
  the blocking receive). A peer that has closed is in the model (`Spins`).
- `TlsIo`: safety only; its time bounds are part of the state, and there is none for
  the tries of a receive.

## 5. Proofs

`GsmPpp_proofs` proves the six safety invariants of `GsmPpp` (`TypeCorrect`,
`ParserIsAlone`, `DialFindsIdle`, `WaitIsAnswered`, `ResetIsKept`,
`LineIsPublishers`) and that it implements `LineOwner` (`LineImplementsOwner`), for any length of the script, any position of
the dialling commands in it and any number of power attempts. The only
assumption is `ScriptAssumption` in `GsmPpp`.

The argument. Half of the properties hold without an exception, the other half
unless `undercut`; the invariant is `Protocol == Flags /\ (~undercut => ClosedInOrder)`
with the types. None of the properties is inductive. `ParserNeverSeesPppMode`, for
instance, needs to know that when `gsmPPP_Tsk` writes `init = FALSE` PPP mode is
already off. What carries the invariant is the order of the four writes in
`gsmPPP_Tsk`: first `ppp_close`, then `pppState`, then `pppModeEnable`, then
`init`. `IInv` says which of these facts hold at which program point. In `Flags`, always:

- `DialogMeansDown`: `vGsmTask` talks only while `init` is false; `ModeMeansUp`: PPP
  mode is on only while `init` is true;
- `FailurePathInMode`: until `gsmPPP_Tsk` switches PPP mode off itself nobody does, so
  what it read before stands, and `vGsmTask` keeps away until it clears `init`;
- `GivenUpWaitsNot`, `PppModeReceives` and `ResetPaysTheDebt`, which relates the
  reset of `vGsmTask` to the request.

In `ClosedInOrder`, unless `undercut`:

- `LineIsFree`: whenever `init` is false, PPP is closed (or closing at our own
  request, so that it does not come back by itself) and `pppState` is `not_inited`;
- `FailureOrder`: after each write, what it and those before it established, and that
  `gsmPPP_rawInput` is not in a callback that still changes something
  (`InputIsQuiet`: after a close by request the callback writes `not_inited` only);
- `SessionInPppMode`: a session that is there, or may come by itself, and the way to
  one need PPP mode. So no callback of a session that `gsmPPP_Tsk` has given up can
  start the publisher, and `ServingOnLine` holds when it starts and for ever after.

`Close` is the step where `undercut` is decided: with `gsmPPP_rawInput` in its loop
it establishes `FailureOrder`, else it makes the exception. `LinkEnd` is the one
that ends the exception, and has to establish `ClosedInOrder` anew: no callback is
under way, the control block is dead, `pppState` is `not_inited`.

The other properties follow: the dialogue implies `init = FALSE`, which implies
that PPP mode is off and, unless `undercut`, a free line. So does the refinement, with little work, because `IInv` holds before
and after each step: `vGsmTask` may do anything to a line it has; a step that leaves
owner and publisher alone begins or ends a session, and where one lives afterwards
`SessionInPppMode` says whose line it is (`SessionStep`, which covers lwIP, the modem
and most of `gsmPPP_Tsk`); what is left are the steps that take the line
(`CheckInit`), give it up (`MarkInitOff`, where `FailureOrder` says that PPP is
closed), start the publisher (`CheckReady`), or make and end the exception
(`CloseImplements`, `LinkEndImplements`). `DialogueHasLine` is what the dialogue
needs of it. Types are proved in two lemmas, one for Boolean variables and one for
the ranges, because the two call for different provers.

`AnswerOrder_proofs` proves `LagBounded` for the abstract dialogue, for any
depth and without bounds, from an invariant that adds `last <= issued`.
Together with the two implementations, both proved (`AnswersAreInOrder`,
`AnswersAreOrdered`), it says how far the two dialogues may be behind.

`AtDialog_proofs` proves the three invariants of `AtDialog`, and that it implements
`AnswerOrder` (`AnswersAreInOrder`), for any number of commands and any length of the
queue and of the buffer. The invariant says where the second halves of replies may be
(on the line, in the queue, in the buffer) and that along these three places their
numbers never fall; the buffer holds only what came after the reply taken last. No
reply of a command is under way before its text is out, so a command that ends with an
answer while its text is still being sent took an older one, and then some command
was given up: `TextErasedOnlyAfterTimeout`.

`FpgaRecords_proofs` proves types, `BytesInOrder` and `CloudInOrder` for any size of
the buffer, of the queue and of a record. Along the way of a byte (cells of the
buffer, record in the making, queue, publisher, broker) everything that is nearer to
the broker is older. The address that the HAL writes to differs from the count only
while the count is 0, and then the first cell is zero or about to be (`StaleAddress`).

`MqttClient_proofs` proves the four invariants of `MqttClient`, that it implements
`AnswerOrder`, and the action property `RecordIsDelivered`, for any number of records, LED commands, broken links, timeouts and attempts and any limits of the
back-off; the only assumption is `BoundsAssumption`. It is the only proof about a
stack of unbounded depth, and the invariant consists of parts for each difficulty:

- `Nested`: the bottom of the stack is a call of the publisher, every other frame is
  one that can be open on the one below it (`On`), and its saved state is the state
  of that call. The lemmas `Nested...` say what pushing and popping keep, so that the proof of an
  action never looks below the two topmost frames;
- `CallOfPlace`: which calls the publisher makes at its program counter (`BottomOf`)
  and which states it finds between two calls (`RestOf`). This makes
  `StateMatchesCall` inductive: a return restores the saved state, which is that of
  the frame below;
- `Publishes`: twice the number of open publishes, computed from the ends of the
  stack only, as each nested one comes with one delivery. It bounds `givenUp` by
  `issued`;
- `SubscribedFirst`, `Answered` and `Subscribing`: before the first PUBLISH of a
  connection goes a SUBSCRIBE, and an answer to either means that the broker has it.
  `StaysSubscribed` follows when the second call returns.

The other two properties need a second invariant, `Order`, on top of the first:

- `InOrder`: the numbers rise along the way to the broker and along the way back, all
  under way are newer than the PUBACK taken last, and what has not reached the broker
  is newer than what comes from it;
- `Reached`: the broker has what it acknowledged and, as long as no publish was given
  up, all before it, too. `Lag` says how far the last PUBACK may be behind: by one for
  each open publish and each one given up. With none of either, the PUBACK that ends
  a record's publish is that of the newest publish, and the record is with the broker;
- `Room`: LED commands on their way and a handler about to publish are publishes to
  come, so that no more than `1 + Leds` are ever open: the `Depth` of `AnswerOrder`.

`Kept` names what is shown of every step: it keeps `Order`, it is a step of
`AnswerOrder` or none, and it satisfies `RecordIsDelivered`. Steps that publish,
answer or give up nothing are proved together (`QuietKeeps`).

`PppBytes_proofs` proves the types, `SentInOrder`, `FramesCutOnlyUnlocked` and
`BytesInOrder` for any queue, any number of frames, chunks and bytes. Four
invariants carry it:

- `Apart`: while the application is in a frame, neither lwIP's thread (core lock) nor
  `gsmPPP_Tsk` (which has become the application) is. With that, a chunk that comes
  into a frame of the application is its own or `gsmPPP_rawInput`'s. And one that comes
  while lwIP's thread is in a frame is its own: either that thread is able to run, and
  no other is, or it waits for the queue, and the queue is full for all
  (`QueueSendCuts`);
- `Typed`: beside the types, that every allocated buffer has its place
  (`HeapCounted`), from which the bound on the heap follows, and that a writer hands
  over at most `MaxChunks` chunks per frame (`Quota`);
- `ChunksInLine`: the chunks of one writer in the queue are those between the one
  taken last and the one queued last, in order and without a gap;
- `BytesRise`: on the way from the receive queue through `tbuf` to `pppos_input`
  what is further is older, and nothing is newer than what arrived last.

`NetSockets_proofs` proves the three invariants of `NetSockets` for any number of
descriptors and losses. `IInv` adds who is where (`UserOfPlace`), which contexts
exist at which place (`TlsContext`, `TcpContext`) and that a live connection exists
only between a connect and a close (`Connection`): a set-up that fails and leaves
the TCP context in the list is harmless only because `rc` is then false and the
platform stops.

`TlsIo_proofs` first says what the timers tell on a counter of any width. `left_ms`
and `has_timer_expired` are exact from the start of a wait to half the counter's
range behind its end (`LeftIsExact`, `ExpiresWhenOver`). `net_timeout_left_ms` is
exact without a wrap, and after one it behaves as if the wait had begun at the wrap:
it is never early, and it is over below twice its time if the counter wraps before
the time is (`NetTimeoutNeverEarly`, `NetTimeoutBelowTwice`). Then it proves the
invariants of `TlsIo`, for every stream of packets, every timeout and every buffer:

- `TypeCorrect`. The inductive `Typed` adds that a turn of `iot_tls_read`'s loop
  begins with less than `want` bytes (`Counts`), and that the records hold exactly
  the bytes from `taken` to `arrived` (`InStream`). The latter is stated with a
  function that gives the position of each record's end (`Stream`), because a sum
  over a queue would need induction; `StreamGrows` and `StreamTaken` say that such a
  function exists after a record has come and after bytes were taken.
- `TimeoutsKept`. `Reading`: the timer tells exactly what is left, and a step of the
  loop begins no later than the time, or the read, allows; for this a packet that is
  dropped piece by piece must be over before the counter has run half its range,
  which bounds how late each piece begins (`BegunInTime`, `Delay`). `Receiving`: as
  long as a receive is younger than half the range, the counter tells its age, so
  `net_timeout_left_ms` cannot end it early; it says nothing of how long a receive
  lasts, because nothing is known of it.
- `ReadsStayInStep`. `Standing`: how many bytes of its packet lie ahead of the reader
  at each place of `read_packet`. A record that ends with a packet holds all that is
  left of it (`HeadHoldsPacket`), so that a read inside a packet neither finds
  nothing nor stops short; only the read of a header may time out.
  `WholePacketsAreCopied` follows: the comment on `pMsg` is right of such packets.

They rest on `PacketsAssumption` (packets of at least two bytes, one behind the
other) and `TimesAssumption`: timeouts and the time to drop the longest packet are
shorter than half the counter's range, 24 days on the device, where they are
seconds (20 seconds at most in the publisher's parameters).

Only model-checked: liveness and everything that needs ENABLED, which is out of reach
of TLAPS with these provers. Every safety property of every passing run is proved.

## 6. Not modelled, and known abstractions

- UART2 overrun: the FPGA model has a line without overruns. One ends the reception
  for good, which for `fpgaTask` is an FPGA that stops sending.
- UDP sockets, socket options, `net_deinit`, `platform_deinit` (never reached), and the
  timer functions from `TimerCountdownMS` on (never called).
- What follows a disconnect through a context that was never created.
- The inside of lwIP, mbedTLS, FreeRTOS and the HAL, by far the largest part of the
  repository: third-party code, modelled as far as this firmware depends on it. The
  same holds for generated headers and drivers, which have no behaviour of their own.
- Packets so slow that a read of one packet times out on a live link; a message
  flood that never lets a yield end; QoS 0 publishing and unsubscribe, which the
  publisher never uses.
- The interleavings inside lwIP when `ppp_connect` and `ppp_close` are called
  outside its thread.
- The getters that parse a reply after its buffer was freed: the text is only
  printed.
- Failed allocations, except where the code tests for them.

`PROJECT.json` lists the hazards with the properties that cover them, and why
some are not covered yet.

## 7. Plan

The order is that of importance. Items 1 to 7 are done.

1. `GsmPpp` (core: ownership of the serial line) with proofs.
2. `AtDialog` and `AnswerOrder`, with proofs and the implementation of one by the other.
3. `FpgaRecords` with proofs.
4. `MqttClient` with proofs of its invariants and of the order of its answers.
5. `PppBytes` with proofs.
6. `NetSockets`, which includes the platform start and the clock, with proofs.
7. `Ticks` and `TlsIo`, with proofs of the arithmetic and of the invariants.
8. `Device`: bring-up, link and publisher composed through abstract specifications
   (line owner, link up, publisher alive): what becomes of a link that is lost after
   the publisher was started.

`Device` can use `LineOwner` for the bring-up and the supervisor.
