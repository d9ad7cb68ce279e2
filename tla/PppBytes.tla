------------------------------- MODULE PppBytes -------------------------------
(***************************************************************************)
(* The bytes of PPP on UART3: the two tasks of gsmPPP.c that move them, the *)
(* queue between lwIP and the transmitter, and the interrupts.             *)
(*                                                                         *)
(* PPP frames are written by four threads:                                 *)
(*   - lwIP's own (timers), above the others in priority;                  *)
(*   - the application's: with LWIP_TCPIP_CORE_LOCKING its sends run in    *)
(*     its own thread. These two hold lwIP's core lock over a frame;       *)
(*   - gsmPPP_rawInput, which calls pppos_input itself and so answers, and *)
(*     runs IP and TCP, in its own thread;                                 *)
(*   - gsmPPP_Tsk, in ppp_connect and ppp_close, until it turns into the   *)
(*     application for good. These two take no lock.                       *)
(* A frame leaves pppos in chunks of one pbuf, each handed to output_cb.   *)
(* The chunks of a writer are numbered as they are written, received bytes *)
(* as they arrive; the code sees no number.                                *)
(***************************************************************************)
EXTENDS Integers, Sequences, FiniteSets

CONSTANTS
  Frames,         \* how many frames each thread writes
  MaxChunks,      \* how many chunks of PBUF_POOL_BUFSIZE a frame may have
  QueueLength,    \* the length of gsmPppUartTranmitQueue
  RxBytes,        \* how many bytes arrive
  RxQueueLength,  \* QUEUE_LENGTH
  TbufLength      \* how many bytes tbuf takes: TRANSMIT_QUEUE_BUFF_LEN - 1

ASSUME BoundsAssumption ==
  /\ Frames \in Nat /\ RxBytes \in Nat
  /\ MaxChunks \in Nat \ {0} /\ QueueLength \in Nat \ {0}
  /\ RxQueueLength \in Nat \ {0} /\ TbufLength \in Nat \ {0}

VARIABLES
  mode,       \* uartParcerStruct.ppp.pppModeEnable
  inPc,       \* where gsmPPP_rawInput is
  tbuf,       \* tbuf up to tbuf_len
  rxQueue,    \* uartParcerStruct.uart.rxQueue
  armed,      \* the HAL receives
  wrPc,       \* where each writer is in pppos
  left,       \* the chunks its frame still has
  queue,      \* gsmPppUartTranmitQueue
  outPc,      \* where gsmPPP_rawOutput is
  outChunk,   \* what its p points to
  uart,       \* the transmitter: idle, at, or the chunk it was given
  spoilt,     \* the memory it sends from was allocated again
  heap,       \* how many buffers of output_cb are allocated
  frames,     \* history: the frames each writer began
  written,    \* history: the chunks each writer gave to output_cb
  sent,       \* history: the last chunk of each writer given to the UART
  lastQueued, \* history: the last chunk put into the queue
  arrived,    \* history: the bytes that arrived
  passed      \* history: the last byte given to pppos_input

input  == <<inPc, tbuf>>
rx     == <<rxQueue, armed, arrived, passed>>
writer == <<wrPc, left, frames, written, lastQueued>>
output == <<outPc, outChunk, sent>>
line   == <<uart, spoilt>>
vars   == <<mode, input, rx, writer, queue, output, line, heap>>

Writers == {"tcpip", "app", "input", "task"}
Chunk(w, n, more) == [by |-> w, n |-> n, more |-> more]
None == Chunk("none", 0, FALSE)
Busy == uart # None

Init ==
  /\ mode = FALSE
  /\ inPc = "poll" /\ tbuf = <<>> /\ rxQueue = <<>> /\ armed = TRUE
  /\ wrPc = [w \in Writers |-> "idle"] /\ left = [w \in Writers |-> 0]
  /\ queue = <<>> /\ outPc = "poll" /\ outChunk = None
  /\ uart = None /\ spoilt = FALSE /\ heap = 0
  /\ frames = [w \in Writers |-> 0] /\ written = [w \in Writers |-> 0]
  /\ sent = [w \in Writers |-> 0] /\ lastQueued = None
  /\ arrived = 0 /\ passed = 0

-----------------------------------------------------------------------------
(* Scheduling: the tasks of gsmPPP.c and the application's share the idle   *)
(* priority, lwIP's thread is above them and runs until it waits: for a     *)
(* message or a timer, for the core lock, or for the queue.                 *)

CanStep(w) == wrPc[w] = "write" \/ (wrPc[w] = "send" /\ Len(queue) < QueueLength)

\* Seeded fault: lwIP's thread has no priority over the tasks.
TasksRunAnyway == TRUE

TasksRun == ~CanStep("tcpip")

Scheduled(w) == w = "tcpip" \/ TasksRun

-----------------------------------------------------------------------------
(* Writing: pppos_output_append and pppos_output_last call output_cb.       *)

\* gsmPPP_Tsk writes nothing but LCP's requests.
FrameSize(w) == IF w = "task" THEN 1 ELSE MaxChunks

BeginFrame(w) ==
  /\ wrPc[w] = "idle" /\ frames[w] < Frames
  /\ frames' = [frames EXCEPT ![w] = @ + 1]
  /\ \E n \in 1..FrameSize(w) : left' = [left EXCEPT ![w] = n]
  /\ wrPc' = [wrPc EXCEPT ![w] = "write"]

\* A timer of lwIP's thread, which holds the core lock when it does not wait for a
\* message. LCP may still be terminating when PPP mode is off.
TcpipFrame ==
  /\ wrPc["app"] = "idle"
  /\ BeginFrame("tcpip")
  /\ UNCHANGED <<mode, input, rx, written, lastQueued, queue, output, line, heap>>

\* ppp_connect and ppp_close of gsmPPP_Tsk, under no lock. Once it has called
\* platform_init it never comes back to them.
TaskFrame ==
  /\ mode /\ TasksRun
  /\ frames["app"] = 0
  /\ BeginFrame("task")
  /\ UNCHANGED <<mode, input, rx, written, lastQueued, queue, output, line, heap>>

\* Seeded fault: the application does not take the core lock.
AppFrameUnlocked ==
  /\ TasksRun
  /\ frames["task"] > 0 /\ wrPc["task"] = "idle"
  /\ BeginFrame("app")
  /\ UNCHANGED <<mode, input, rx, written, lastQueued, queue, output, line, heap>>

\* A call of the socket API, in platform_init of gsmPPP_Tsk or in the publisher that
\* it starts, runs in the thread that calls it, under the core lock. Before that
\* ppp_connect has sent its request.
AppFrame ==
  /\ TasksRun
  /\ frames["task"] > 0 /\ wrPc["task"] = "idle"
  /\ wrPc["tcpip"] = "idle"
  /\ BeginFrame("app")
  /\ UNCHANGED <<mode, input, rx, written, lastQueued, queue, output, line, heap>>

\* output_cb copies the chunk into a new buffer, which may be the very one that
\* was freed while the UART still sends from it.
OutputCb(w) ==
  /\ wrPc[w] = "write" /\ Scheduled(w)
  /\ heap' = heap + 1
  /\ written' = [written EXCEPT ![w] = @ + 1]
  /\ \/ Busy /\ uart.by \in Writers /\ outPc # "free" /\ spoilt' = TRUE
     \/ UNCHANGED spoilt
  /\ wrPc' = [wrPc EXCEPT ![w] = "send"]
  /\ UNCHANGED <<mode, input, rx, left, frames, lastQueued, queue, output, uart>>

\* xQueueSend waits for ever; then the frame goes on or ends.
QueueSend(w) ==
  /\ wrPc[w] = "send" /\ Scheduled(w)
  /\ Len(queue) < QueueLength
  /\ lastQueued' = Chunk(w, written[w], left[w] > 1)
  /\ queue' = Append(queue, lastQueued')
  /\ left' = [left EXCEPT ![w] = @ - 1]
  /\ wrPc' = [wrPc EXCEPT ![w] = IF left[w] > 1 THEN "write" ELSE "idle"]
  /\ UNCHANGED <<mode, input, rx, frames, written, output, line, heap>>

-----------------------------------------------------------------------------
(* gsmPPP_rawOutput.                                                        *)

OutPoll ==
  /\ outPc = "poll" /\ TasksRun
  /\ mode
  /\ outPc' = "receive"
  /\ UNCHANGED <<mode, input, rx, writer, queue, outChunk, sent, line, heap>>

\* Seeded fault: the inner loop ends when PPP mode is left.
OutReceiveInMode ==
  /\ outPc = "receive" /\ TasksRun
  /\ \/ /\ mode /\ queue # <<>>
        /\ outChunk' = Head(queue) /\ queue' = Tail(queue)
        /\ outPc' = "transmit"
     \/ ~mode /\ outPc' = "poll" /\ UNCHANGED <<outChunk, queue>>
  /\ UNCHANGED <<mode, input, rx, writer, sent, line, heap>>

\* The inner loop has no end: the mode is not looked at again.
OutReceive ==
  /\ outPc = "receive" /\ TasksRun
  /\ queue # <<>>
  /\ outChunk' = Head(queue) /\ queue' = Tail(queue)
  /\ outPc' = "transmit"
  /\ UNCHANGED <<mode, input, rx, writer, sent, line, heap>>

\* Seeded fault: the result of HAL_UART_Transmit_IT is not looked at.
OutTransmitOnce ==
  /\ outPc = "transmit" /\ TasksRun
  /\ outPc' = IF Busy THEN "free" ELSE "locked"
  /\ UNCHANGED <<mode, input, rx, writer, queue, outChunk, sent, line, heap>>

\* HAL_UART_Transmit_IT is called until the transmitter is free; then it holds
\* the handle's lock while it stores the buffer's address.
OutTransmit ==
  /\ outPc = "transmit" /\ TasksRun
  /\ ~Busy
  /\ outPc' = "locked"
  /\ UNCHANGED <<mode, input, rx, writer, queue, outChunk, sent, line, heap>>

OutStart ==
  /\ outPc = "locked" /\ TasksRun
  /\ uart' = outChunk /\ spoilt' = FALSE
  /\ sent' = [sent EXCEPT ![outChunk.by] = outChunk.n]
  /\ outPc' = "free"
  /\ UNCHANGED <<mode, input, rx, writer, queue, outChunk, heap>>

\* Seeded fault: the buffer is not freed.
OutFreeForgotten ==
  /\ outPc = "free" /\ TasksRun
  /\ outChunk' = None
  /\ outPc' = "receive"
  /\ UNCHANGED <<mode, input, rx, writer, queue, sent, line, heap>>

\* The buffer is freed at once, sent or not.
OutFree ==
  /\ outPc = "free" /\ TasksRun
  /\ heap' = heap - 1
  /\ outChunk' = None
  /\ outPc' = "receive"
  /\ UNCHANGED <<mode, input, rx, writer, queue, sent, line>>

-----------------------------------------------------------------------------
(* gsmPPP_rawInput: its thread is also the writer "input".                  *)

InPoll ==
  /\ inPc = "poll" /\ TasksRun
  /\ mode
  /\ inPc' = "drain"
  /\ UNCHANGED <<mode, tbuf, rx, writer, queue, output, line, heap>>

InDrain ==
  /\ inPc = "drain" /\ TasksRun
  /\ \/ /\ rxQueue # <<>>
        /\ tbuf' = Append(tbuf, Head(rxQueue)) /\ rxQueue' = Tail(rxQueue)
        /\ inPc' = IF Len(tbuf') >= TbufLength THEN "pass" ELSE "drain"
     \/ /\ rxQueue = <<>>
        /\ inPc' = IF tbuf # <<>> THEN "pass" ELSE "poll"
        /\ UNCHANGED <<tbuf, rxQueue>>
  /\ UNCHANGED <<mode, armed, arrived, passed, writer, queue, output, line, heap>>

\* pppos_input takes the bytes, and its layers may answer with a frame.
InPass ==
  /\ inPc = "pass" /\ TasksRun
  /\ passed' = tbuf[Len(tbuf)]
  /\ inPc' = "answer"
  /\ \/ BeginFrame("input")
     \/ UNCHANGED <<frames, left, wrPc>>
  /\ UNCHANGED <<mode, tbuf, rxQueue, armed, arrived, written, lastQueued,
                 queue, output, line, heap>>

\* Seeded fault: tbuf_len is not reset.
InReturnsFull ==
  /\ inPc = "answer" /\ wrPc["input"] = "idle" /\ TasksRun
  /\ inPc' = "poll"
  /\ UNCHANGED <<mode, tbuf, rx, writer, queue, output, line, heap>>

InReturns ==
  /\ inPc = "answer" /\ wrPc["input"] = "idle" /\ TasksRun
  /\ tbuf' = <<>>
  /\ inPc' = "poll"
  /\ UNCHANGED <<mode, rx, writer, queue, output, line, heap>>

-----------------------------------------------------------------------------
(* Interrupts, and the tasks around.                                        *)

\* gsm_UART_RxCpltCallback: the byte is lost when the queue is full or, between two
\* AT commands, receiveState is not set; the reception is lost when
\* HAL_UART_Receive_IT meets the lock.
RxByte ==
  /\ armed /\ arrived < RxBytes
  /\ arrived' = arrived + 1
  /\ \/ Len(rxQueue) < RxQueueLength /\ rxQueue' = Append(rxQueue, arrived')
     \/ (~mode \/ Len(rxQueue) = RxQueueLength) /\ UNCHANGED rxQueue
  /\ armed' = (outPc # "locked")
  /\ UNCHANGED <<mode, input, passed, writer, queue, output, line, heap>>

\* HAL_UART_IRQHandler ends the reception after an overrun.
Overrun ==
  /\ armed /\ arrived < RxBytes
  /\ armed' = FALSE
  /\ UNCHANGED <<mode, input, rxQueue, arrived, passed, writer, queue, output, line, heap>>

TransmitEnds ==
  /\ Busy
  /\ uart' = None /\ spoilt' = FALSE
  /\ UNCHANGED <<mode, input, rx, writer, queue, output, heap>>

\* vGsmTask enters PPP mode; gsmPPP_Tsk leaves it, unless it has become the
\* application.
ModeChanges ==
  /\ mode => TasksRun /\ wrPc["task"] = "idle" /\ frames["app"] = 0
  /\ mode' = ~mode
  /\ UNCHANGED <<input, rx, writer, queue, output, line, heap>>

\* The AT dialogue of vGsmTask arms the reception, takes what is received and
\* transmits.
AtPrepares ==
  /\ ~mode /\ armed' = TRUE
  /\ UNCHANGED <<mode, input, rxQueue, arrived, passed, writer, queue, output, line, heap>>
AtReceives ==
  /\ ~mode /\ rxQueue # <<>> /\ rxQueue' = Tail(rxQueue)
  /\ UNCHANGED <<mode, input, armed, arrived, passed, writer, queue, output, line, heap>>
AtTransmits ==
  /\ ~mode /\ ~Busy /\ outPc # "locked"
  /\ uart' = Chunk("at", 0, FALSE)
  /\ UNCHANGED <<mode, input, rx, writer, queue, output, spoilt, heap>>

-----------------------------------------------------------------------------
Begin == TcpipFrame \/ AppFrame \/ TaskFrame
Write(w) == OutputCb(w) \/ QueueSend(w)
RawOutput == OutPoll \/ OutReceive \/ OutTransmit \/ OutStart \/ OutFree
RawInput == InPoll \/ InDrain \/ InPass \/ InReturns
World == RxByte \/ Overrun \/ ModeChanges \/ AtPrepares \/ AtReceives \/ AtTransmits

Next ==
  \/ Begin \/ RawOutput \/ RawInput \/ TransmitEnds \/ World
  \/ \E w \in Writers : Write(w)

Spec == Init /\ [][Next]_vars

\* Each thread gets the processor when none above it can run, and a transmission
\* ends. The transmitter is polled in a loop with no pause, so it is caught idle
\* between two AT commands.
FairSpec ==
  /\ Spec
  /\ \A w \in Writers : WF_vars(Write(w))
  /\ WF_vars(OutReceive) /\ SF_vars(OutTransmit) /\ WF_vars(OutStart) /\ WF_vars(OutFree)
  /\ WF_vars(TransmitEnds)

-----------------------------------------------------------------------------
MaxWritten == Frames * MaxChunks
Chunks == [by : Writers, n : 1..MaxWritten, more : BOOLEAN]

\* The types; and output_cb, whose malloc is never checked, needs at most one
\* buffer for each place of the queue, each writer and the transmitting task.
TypeOK ==
  /\ mode \in BOOLEAN /\ armed \in BOOLEAN /\ spoilt \in BOOLEAN
  /\ inPc \in {"poll", "drain", "pass", "answer"}
  /\ tbuf \in Seq(1..RxBytes) /\ Len(tbuf) <= TbufLength
  /\ rxQueue \in Seq(1..RxBytes) /\ Len(rxQueue) <= RxQueueLength
  /\ wrPc \in [Writers -> {"idle", "write", "send"}]
  /\ left \in [Writers -> 0..MaxChunks]
  /\ queue \in Seq(Chunks) /\ Len(queue) <= QueueLength
  /\ outPc \in {"poll", "receive", "transmit", "locked", "free"}
  /\ outChunk \in Chunks \cup {None} /\ uart \in Chunks \cup {None, Chunk("at", 0, FALSE)}
  /\ heap \in 0..QueueLength + Cardinality(Writers) + 1
  /\ frames \in [Writers -> 0..Frames] /\ lastQueued \in Chunks \cup {None}
  /\ written \in [Writers -> 0..MaxWritten] /\ sent \in [Writers -> 0..MaxWritten]
  /\ arrived \in 0..RxBytes /\ passed \in 0..RxBytes

\* Every chunk goes to the UART once and in the order its thread wrote it, over a
\* full queue, a busy transmitter and changes of the mode.
SentInOrder ==
  [][\A w \in Writers : sent'[w] # sent[w] => sent'[w] = sent[w] + 1]_vars

\* No chunk of another thread comes into a frame that lwIP's thread has begun, not
\* even when the queue is full in the middle of it; and into a frame of the
\* application none but gsmPPP_rawInput's, which takes no lock: none of lwIP's
\* thread, for all its priority.
FramesCutOnlyUnlocked ==
  [][\A w \in {"tcpip", "app"} :
       wrPc[w] # "idle" /\ lastQueued' # lastQueued
         => \/ lastQueued'.by = w
            \/ w = "app" /\ lastQueued'.by = "input"]_vars

\* gsmPPP_rawInput passes the bytes on in the order they arrived and none twice,
\* though the AT dialogue takes from the same queue.
BytesInOrder ==
  LET seen == IF inPc = "answer" THEN <<passed>> \o rxQueue
              ELSE <<passed>> \o tbuf \o rxQueue
  IN \A i \in 1..Len(seen)-1 : seen[i] < seen[i+1]

\* Once gsmPPP_rawOutput is in its loop, all that is written is sent at last: a
\* writer that waits for the queue, lwIP's thread among them, goes on.
Idle == \A w \in Writers : wrPc[w] = "idle" /\ sent[w] = written[w]
LinkDrains == outPc # "poll" ~> Idle

-----------------------------------------------------------------------------
(* What the comments say.                                                  *)

\* gsmPPP.c: output_cb is given a "buffer to write to serial port" and returns
\* "len if write succeed": what goes out is what was written.
SentAsWritten == ~spoilt

\* lwIP's doc/ppp.txt: "if NO_SYS is 0, the thread safe way outside an interrupt
\* context is to use the pppos_input_tcpip() function": pppos_input, called from a
\* thread of its own, keeps out of the frames of the others.
AppFramesWhole ==
  [][(lastQueued.by = "app" /\ lastQueued.more)
       => (lastQueued' = lastQueued \/ lastQueued'.by = "app")]_vars
=============================================================================
