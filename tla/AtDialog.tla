------------------------------ MODULE AtDialog ------------------------------
(***************************************************************************)
(* One AT command after the other over UART3: runAtCommand and the parser, *)
(* the receive interrupt, the HAL's lock and the modem at the other end.   *)
(*                                                                         *)
(* Bytes are abstracted to halves of a reply and to other text. A reply is *)
(* recognised when its two halves lie side by side in the receive buffer,  *)
(* as strstr finds a marker. Commands are numbered in the order they are   *)
(* issued; the number is not in the bytes and the code never sees it.      *)
(***************************************************************************)
EXTENDS Naturals, Sequences, FiniteSetsExt

CONSTANTS
  Commands,      \* how many commands are issued
  QueueLength,   \* QUEUE_LENGTH, in halves
  BufferLength   \* AT_BUFF_LENGTH, in halves: receiveCount wraps there

ASSUME BoundsAssumption ==
  /\ Commands \in Nat \ {0}
  /\ QueueLength \in Nat \ {0}
  /\ BufferLength \in Nat \ {0, 1}

VARIABLES
  pc,            \* where runAtCommand is
  command,       \* the number of its command
  receiveState,  \* uartParcerStruct.uart.receiveState
  rxQueue,       \* uartParcerStruct.uart.rxQueue
  pRxBuffer,     \* uartParcerStruct.uart.pRxBuffer
  receiveCount,  \* uartParcerStruct.uart.receiveCount
  armed,         \* the HAL receives: huart->RxState is BUSY_RX
  tx,            \* the transmitter: idle, or sending whole or erased text
  pending,       \* external: the commands the modem has to answer
  answer,        \* external: what it still has to send of its answer
  last,          \* history: the command whose reply was taken last; 0: none
  givenUp        \* history: the number of commands that timed out

task  == <<pc, command>>
rx    == <<receiveState, rxQueue, armed>>
buf   == <<pRxBuffer, receiveCount>>
modem == <<pending, answer>>
hist  == <<last, givenUp>>
vars  == <<task, rx, buf, tx, modem, hist>>

Kinds == {"ok", "error"}       \* "ok" stands for OK and for CONNECT
Half(n, kind, h) == [of |-> n, kind |-> kind, half |-> h]
Text  == Half(0, "text", 0)
Halves == [of : 1..Commands, kind : Kinds, half : {1, 2}]
Zero  == Half(0, "zero", 0)
Cells == 0..BufferLength-1
EmptyBuffer == [c \in Cells |-> Zero]

Init ==
  /\ pc = "delay" /\ command = 1
  /\ receiveState = FALSE /\ rxQueue = <<>> /\ armed = TRUE
  /\ pRxBuffer = EmptyBuffer /\ receiveCount = 0
  /\ tx = "idle"
  /\ pending = <<>> /\ answer = <<>>
  /\ last = 0 /\ givenUp = 0

-----------------------------------------------------------------------------
(* runAtCommand.                                                           *)

\* Seeded fault: the fresh buffer is not cleared.
PrepareDirty ==
  /\ pc = "delay" /\ tx = "idle"
  /\ receiveCount' = 0
  /\ receiveState' = TRUE
  /\ armed' = TRUE
  /\ pc' = "prepared"
  /\ UNCHANGED <<command, rxQueue, pRxBuffer, tx, modem, hist>>

\* Seeded fault: reception is taken for granted.
PrepareUnarmed ==
  /\ pc = "delay" /\ tx = "idle"
  /\ pRxBuffer' = EmptyBuffer /\ receiveCount' = 0
  /\ receiveState' = TRUE
  /\ pc' = "prepared"
  /\ UNCHANGED <<command, rxQueue, armed, tx, modem, hist>>

\* After the delay, which outlasts any transmission: a clean buffer, the rx
\* interrupt opened, reception started unless it runs. rxQueue is left alone.
Prepare ==
  /\ pc = "delay" /\ tx = "idle"
  /\ pRxBuffer' = EmptyBuffer /\ receiveCount' = 0
  /\ receiveState' = TRUE
  /\ armed' = TRUE
  /\ pc' = "prepared"
  /\ UNCHANGED <<command, rxQueue, tx, modem, hist>>

\* HAL_UART_Transmit_IT holds the handle's lock while it stores the text, and
\* then starts to send.
LockHandle ==
  /\ pc = "prepared"
  /\ pc' = "locked"
  /\ UNCHANGED <<command, rx, buf, tx, modem, hist>>

StartTransmit ==
  /\ pc = "locked"
  /\ tx' = "whole"
  /\ pc' = "reading"
  /\ UNCHANGED <<command, rx, buf, modem, hist>>

\* The commands whose complete reply of this kind is in buffer b.
Markers(b, kind) ==
  {n \in 1..Commands :
     \E c \in Cells \ {0} : /\ b[c-1] = Half(n, kind, 1)
                            /\ b[c] = Half(n, kind, 2)}

\* uartParceReceiveData looks for ERROR first, and an ERROR does not end the
\* command: while one is in the buffer no OK is seen.
OkFound(b) == Markers(b, "error") = {} /\ Markers(b, "ok") # {}

\* One turn of the loop.
ReceiveFromQueue ==
  /\ pc = "reading"
  /\ rxQueue # <<>>
  /\ pRxBuffer' = [pRxBuffer EXCEPT ![receiveCount] = Head(rxQueue)]
  /\ receiveCount' = (receiveCount + 1) % BufferLength
  /\ rxQueue' = Tail(rxQueue)
  /\ \/ /\ OkFound(pRxBuffer')
        /\ last' = Max(Markers(pRxBuffer', "ok"))
        /\ pc' = "closing"
     \/ /\ ~OkFound(pRxBuffer')
        /\ UNCHANGED <<last, pc>>
  /\ UNCHANGED <<command, receiveState, armed, tx, modem, givenUp>>

\* Seeded fault: the queue is waited for without a limit.
ReceiveTimeoutNever == FALSE /\ UNCHANGED vars

\* Nothing for one second, which outlasts any transmission.
ReceiveTimeout ==
  /\ pc = "reading"
  /\ rxQueue = <<>> /\ tx = "idle"
  /\ givenUp' = givenUp + 1
  /\ pc' = "closing"
  /\ UNCHANGED <<command, rx, buf, tx, modem, last>>

\* The rx interrupt is closed, the buffers are given back; pData is overwritten
\* with zeros first, whether its text has been sent or not.
CloseCommand ==
  /\ pc = "closing"
  /\ receiveState' = FALSE
  /\ tx' = IF tx = "whole" THEN "erased" ELSE tx
  /\ IF command < Commands
     THEN pc' = "delay" /\ command' = command + 1
     ELSE pc' = "end" /\ UNCHANGED command
  /\ UNCHANGED <<rxQueue, armed, buf, modem, hist>>

-----------------------------------------------------------------------------
(* The receive interrupt.                                                  *)

\* Seeded fault: the queue has no end.
StoreUnbounded(b) ==
  rxQueue' = IF receiveState THEN Append(rxQueue, b) ELSE rxQueue

Store(b) ==
  rxQueue' = IF receiveState /\ Len(rxQueue) < QueueLength
             THEN Append(rxQueue, b) ELSE rxQueue

\* gsm_UART_RxCpltCallback. HAL_UART_Receive_IT returns HAL_BUSY when the
\* interrupt hits the task inside HAL_UART_Transmit_IT.
RxCpltCallback(b) ==
  \/ /\ armed
     /\ Store(b)
     /\ armed' = (pc # "locked")
     /\ UNCHANGED receiveState
  \/ ~armed /\ UNCHANGED rx

\* An overrun ends the reception; the HAL's error callback is empty.
Overrun ==
  /\ armed
  /\ armed' = FALSE
  /\ UNCHANGED <<task, receiveState, rxQueue, buf, tx, modem, hist>>

-----------------------------------------------------------------------------
(* The modem.                                                              *)

\* The last byte of the command leaves. A command whose text was erased under
\* the transmitter is no command to the modem.
TransmitEnds ==
  /\ tx # "idle"
  /\ tx' = "idle"
  /\ pending' = IF tx = "whole" THEN Append(pending, command) ELSE pending
  /\ UNCHANGED <<task, rx, buf, answer, hist>>

\* It answers in order, takes its time, and may stay silent.
Reply ==
  /\ pending # <<>> /\ answer = <<>>
  /\ pending' = Tail(pending)
  /\ \/ answer' = <<>>
     \/ \E kind \in Kinds :
           answer' = <<Half(Head(pending), kind, 1), Half(Head(pending), kind, 2)>>
  /\ UNCHANGED <<task, rx, buf, tx, hist>>

ReplyArrives ==
  /\ answer # <<>>
  /\ RxCpltCallback(Head(answer))
  /\ answer' = Tail(answer)
  /\ UNCHANGED <<task, buf, tx, pending, hist>>

\* Echo, information text, unsolicited messages.
TextArrives ==
  /\ RxCpltCallback(Text)
  /\ UNCHANGED <<task, buf, tx, modem, hist>>

-----------------------------------------------------------------------------
RunAtCommand ==
  \/ Prepare \/ LockHandle \/ StartTransmit \/ ReceiveFromQueue \/ ReceiveTimeout
  \/ CloseCommand

Line == Overrun \/ TransmitEnds \/ Reply \/ ReplyArrives \/ TextArrives

Next == RunAtCommand \/ Line

Spec == Init /\ [][Next]_vars

\* vGsmTask has the highest priority in use and only blocks with a time limit;
\* the transmitter's interrupts come. Nothing is assumed of the modem.
FairSpec == Spec /\ WF_vars(RunAtCommand) /\ WF_vars(TransmitEnds)

-----------------------------------------------------------------------------
TypeOK ==
  /\ pc \in {"delay", "prepared", "locked", "reading", "closing", "end"}
  /\ command \in 1..Commands
  /\ receiveState \in BOOLEAN /\ armed \in BOOLEAN
  /\ rxQueue \in Seq(Halves \cup {Text}) /\ Len(rxQueue) <= QueueLength
  /\ pRxBuffer \in [Cells -> Halves \cup {Text, Zero}] /\ receiveCount \in Cells
  /\ tx \in {"idle", "whole", "erased"}
  /\ pending \in Seq(1..Commands) /\ answer \in Seq(Halves)
  /\ last \in 0..Commands /\ givenUp \in 0..Commands

\* rxQueue is never emptied between two commands and nothing in the bytes tells
\* whose reply they are; still every reply is taken once, in order, and only
\* when its command was issued.
Answers == INSTANCE AnswerOrder
           WITH Depth   <- 1,
                issued  <- IF pc = "delay" THEN command - 1 ELSE command,
                waiting <- IF pc \in {"prepared", "locked", "reading"} THEN 1 ELSE 0
AnswersInOrder == Answers!Spec

\* How far a command can be behind: by as many as have timed out before it.
LagBounded == Answers!LagBounded

\* The text of a command is only erased under the transmitter when a reply of an
\* earlier command ended it at once: never before the first timeout.
TextErasedOnlyAfterTimeout == tx = "erased" => givenUp > 0

\* A reception that broke off, by an overrun or because the interrupt met the
\* handle locked, is started again by the next command.
ReceptionResumes == (~armed /\ command < Commands) ~> armed

\* A command ends when the modem falls silent.
Silence == <>[][~TextArrives]_vars
CommandReturns == Silence => (pc = "reading" ~> pc = "closing")
=============================================================================
