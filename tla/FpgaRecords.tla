---------------------------- MODULE FpgaRecords ----------------------------
(***************************************************************************)
(* From the FPGA to the broker: the receive interrupt of UART2 fills       *)
(* fpga_temp_buff, fpgaTask turns what has gone quiet into a record,       *)
(* fpgaDataQueue carries the records to subscribe_publish_sensor_values,   *)
(* which publishes them.                                                   *)
(*                                                                         *)
(* Bytes are numbered in the order the FPGA sends them; 0 stands for the   *)
(* zeros of memset. fpgaTask and the publisher run at idle priority and    *)
(* are interrupted anywhere; buffer, counter and flag have no lock.        *)
(***************************************************************************)
EXTENDS Naturals, Sequences

CONSTANTS
  Size,          \* FPGA_BUFFER_RECORD_MAX_SIZE
  QueueLength,   \* the length of fpgaDataQueue
  MaxBytes       \* bound: how many bytes the FPGA sends

ASSUME SizesAssumption ==
  /\ Size \in Nat \ {0}
  /\ QueueLength \in Nat \ {0}
  /\ MaxBytes \in Nat

VARIABLES
  isActiveUart,   \* a byte arrived since fpgaTask last cleared it
  fpgaBuff,       \* fpga_temp_buff, and the byte behind it
  fpgaCount,      \* fpga_temp_buff_count
  rxPtr,          \* where the HAL will store the next byte
  sent,           \* external: the number of bytes the FPGA has sent
  pc,             \* where fpgaTask is
  record,         \* the record putFpgaRecord has allocated
  wiped,          \* how far the memset of fpga_temp_buff has come
  fpgaDataQueue,  \* the records waiting
  pubPc,          \* where subscribe_publish_sensor_values is
  rc,             \* its rc
  taken,          \* the record it publishes
  loopIsNormal,   \* loop_is_normal
  cloud           \* history: the last record the broker has got

uart      == <<isActiveUart, fpgaBuff, fpgaCount, rxPtr, sent>>
fpga      == <<pc, record, wiped>>
publisher == <<pubPc, rc, taken, loopIsNormal, cloud>>
vars      == <<uart, fpga, fpgaDataQueue, publisher>>

None == <<>>
Goes == {"success", "attempting", "reconnected"}   \* the rc that keep the loop going

Init ==
  /\ isActiveUart = FALSE
  /\ fpgaBuff = [c \in 0..Size |-> 0] /\ fpgaCount = 0 /\ rxPtr = 0
  /\ sent = 0
  /\ pc = "poll" /\ record = None /\ wiped = 0
  /\ fpgaDataQueue = <<>>
  /\ pubPc = "away" /\ rc = "success" /\ taken = None /\ loopIsNormal = FALSE
  /\ cloud = None

-----------------------------------------------------------------------------
(* fpgaRxUartHandler: the byte lies where the HAL was told to put it.       *)

RxByte(count) ==
  /\ sent < MaxBytes
  /\ sent' = sent + 1
  /\ fpgaBuff' = [fpgaBuff EXCEPT ![rxPtr] = sent + 1]
  /\ isActiveUart' = TRUE
  /\ fpgaCount' = count
  /\ rxPtr' = count
  /\ UNCHANGED <<fpga, fpgaDataQueue, publisher>>

\* Seeded fault: the end of the buffer is looked for one byte too late.
RxCountedLate ==
  RxByte(IF fpgaCount <= Size THEN fpgaCount + 1 ELSE 0)

RxCounted ==
  RxByte(IF fpgaCount < Size THEN fpgaCount + 1 ELSE 0)

\* The line went idle between the read of the byte and the test.
RxIdle == RxByte(fpgaCount)

-----------------------------------------------------------------------------
(* fpgaTask.                                                               *)

Poll ==
  /\ pc = "poll"
  /\ isActiveUart
  /\ pc' = "listen"
  /\ UNCHANGED <<uart, record, wiped, fpgaDataQueue, publisher>>

\* After the first 500 ms.
ClearActive ==
  /\ pc = "listen"
  /\ isActiveUart' = FALSE
  /\ pc' = "check"
  /\ UNCHANGED <<fpgaBuff, fpgaCount, rxPtr, sent, record, wiped, fpgaDataQueue,
                 publisher>>

\* Seeded fault: the flag is cleared again after the second 500 ms.
CheckQuietForgets ==
  /\ pc = "check"
  /\ pc' = IF ~isActiveUart /\ fpgaCount # 0 THEN "put" ELSE "poll"
  /\ isActiveUart' = FALSE
  /\ UNCHANGED <<fpgaBuff, fpgaCount, rxPtr, sent, record, wiped, fpgaDataQueue,
                 publisher>>

\* After the second.
CheckQuiet ==
  /\ pc = "check"
  /\ pc' = IF ~isActiveUart /\ fpgaCount # 0 THEN "put" ELSE "poll"
  /\ UNCHANGED <<uart, record, wiped, fpgaDataQueue, publisher>>

\* putFpgaRecord up to the queue. Two hex digits for a byte and \r\n must fit. The
\* \r\n is then printed to the address found in the record's next byte, the zero
\* of the last sprintf, and is never part of the record. malloc may fail. The copy
\* is one step: the interrupt stores at or behind fpgaCount.
Format ==
  /\ pc = "put"
  /\ \/ /\ 2 * fpgaCount + 2 < Size
        /\ record' = [i \in 1..fpgaCount |-> fpgaBuff[i-1]]
        /\ pc' = "send"
     \/ pc' = "restart" /\ UNCHANGED record
  /\ UNCHANGED <<uart, wiped, fpgaDataQueue, publisher>>

\* Seeded fault: the newest record goes to the head of the queue.
SendToFront ==
  /\ pc = "send"
  /\ Len(fpgaDataQueue) < QueueLength
  /\ fpgaDataQueue' = <<record>> \o fpgaDataQueue
  /\ record' = None
  /\ pc' = "restart"
  /\ UNCHANGED <<uart, wiped, publisher>>

Send ==
  /\ pc = "send"
  /\ Len(fpgaDataQueue) < QueueLength
  /\ fpgaDataQueue' = Append(fpgaDataQueue, record)
  /\ record' = None
  /\ pc' = "restart"
  /\ UNCHANGED <<uart, wiped, publisher>>

\* One second with a full queue: the record is dropped and not even freed.
QueueFull ==
  /\ pc = "send"
  /\ Len(fpgaDataQueue) = QueueLength
  /\ record' = None
  /\ pc' = "restart"
  /\ UNCHANGED <<uart, wiped, fpgaDataQueue, publisher>>

\* Seeded fault: the old bytes stay in the buffer.
RestartCountOnly ==
  /\ pc = "restart"
  /\ fpgaCount' = 0
  /\ pc' = "poll"
  /\ UNCHANGED <<isActiveUart, fpgaBuff, rxPtr, sent, record, wiped,
                 fpgaDataQueue, publisher>>

\* The counter goes back to 0; the HAL keeps the address it was given before.
RestartCount ==
  /\ pc = "restart"
  /\ fpgaCount' = 0
  /\ wiped' = 0
  /\ pc' = "wipe"
  /\ UNCHANGED <<isActiveUart, fpgaBuff, rxPtr, sent, record, fpgaDataQueue,
                 publisher>>

\* memset, which the interrupt may hit between two bytes.
Wipe ==
  /\ pc = "wipe"
  /\ \E n \in wiped+1..Size :
        /\ fpgaBuff' = [c \in 0..Size |-> IF c \in wiped..n-1 THEN 0 ELSE fpgaBuff[c]]
        /\ wiped' = n
        /\ pc' = IF n = Size THEN "poll" ELSE "wipe"
  /\ UNCHANGED <<isActiveUart, fpgaCount, rxPtr, sent, record, fpgaDataQueue,
                 publisher>>

-----------------------------------------------------------------------------
(* subscribe_publish_sensor_values from the moment the client is connected. *)

Start ==
  /\ pubPc = "away"
  /\ pubPc' = "yield"
  /\ loopIsNormal' = TRUE
  /\ UNCHANGED <<uart, fpga, fpgaDataQueue, rc, taken, cloud>>

\* aws_iot_mqtt_yield; while the client reconnects the queue is not looked at.
Yield ==
  /\ pubPc = "yield"
  /\ rc' \in Goes \cup {"failure"}
  /\ pubPc' = IF rc' = "attempting" THEN "again" ELSE "receive"
  /\ UNCHANGED <<uart, fpga, fpgaDataQueue, taken, loopIsNormal, cloud>>

\* The condition of the outer loop.
Again ==
  /\ pubPc = "again"
  /\ pubPc' = IF rc \in Goes /\ loopIsNormal THEN "yield" ELSE "ended"
  /\ UNCHANGED <<uart, fpga, fpgaDataQueue, rc, taken, loopIsNormal, cloud>>

\* The inner loop: the record is copied into the payload and freed.
ReceiveRecord ==
  /\ pubPc = "receive"
  /\ fpgaDataQueue # <<>>
  /\ taken' = Head(fpgaDataQueue)
  /\ fpgaDataQueue' = Tail(fpgaDataQueue)
  /\ pubPc' = "publish"
  /\ UNCHANGED <<uart, fpga, rc, loopIsNormal, cloud>>

\* 500 ms without a record.
ReceiveNothing ==
  /\ pubPc = "receive"
  /\ fpgaDataQueue = <<>>
  /\ pubPc' = "again"
  /\ UNCHANGED <<uart, fpga, fpgaDataQueue, rc, taken, loopIsNormal, cloud>>

\* The QoS 1 publish. After a timeout it is repeated with the same payload, which
\* the broker may have got already; after any other failure the record is gone.
\* A success may be due to the PUBACK of an earlier publish (see MqttClient).
Publish ==
  /\ pubPc = "publish"
  /\ rc' \in {"success", "timeout", "failure"}
  /\ cloud' \in {cloud, taken}
  /\ IF rc' = "timeout" /\ loopIsNormal
     THEN UNCHANGED <<pubPc, taken>>
     ELSE pubPc' = "receive" /\ taken' = None
  /\ UNCHANGED <<uart, fpga, fpgaDataQueue, loopIsNormal>>

-----------------------------------------------------------------------------
RxInterrupt == RxCounted \/ RxIdle

FpgaTask ==
  \/ Poll \/ ClearActive \/ CheckQuiet \/ Format \/ Send \/ QueueFull
  \/ RestartCount \/ Wipe

Publisher ==
  \/ Start \/ Yield \/ Again \/ ReceiveRecord \/ ReceiveNothing \/ Publish

Next == RxInterrupt \/ FpgaTask \/ Publisher

Spec == Init /\ [][Next]_vars

\* fpgaTask only blocks with a time limit.
FairSpec == Spec /\ WF_vars(FpgaTask)

-----------------------------------------------------------------------------
Byte == 0..MaxBytes
Records == Seq(Byte)

\* The interrupt stores at most one byte behind the buffer.
TypeOK ==
  /\ isActiveUart \in BOOLEAN
  /\ fpgaBuff \in [0..Size -> Byte] /\ fpgaCount \in 0..Size /\ rxPtr \in 0..Size
  /\ sent \in Byte
  /\ pc \in {"poll", "listen", "check", "put", "send", "restart", "wipe"}
  /\ record \in Records /\ wiped \in 0..Size
  /\ fpgaDataQueue \in Seq(Records) /\ Len(fpgaDataQueue) <= QueueLength
  /\ pubPc \in {"away", "yield", "again", "receive", "publish", "ended"}
  /\ rc \in Goes \cup {"timeout", "failure"}
  /\ taken \in Records /\ loopIsNormal \in BOOLEAN /\ cloud \in Records

\* What has been made of the bytes, oldest first.
Output == <<IF taken = None THEN cloud ELSE taken>> \o Append(fpgaDataQueue, record)

\* Every byte of r was sent before every byte of s.
Follows(r, s) ==
  \A i \in DOMAIN r, j \in DOMAIN s : r[i] # 0 /\ s[j] # 0 => r[i] < s[j]
Sorted(r) == \A i, j \in DOMAIN r : i < j /\ r[i] # 0 /\ r[j] # 0 => r[i] < r[j]

\* Records lose bytes, but none of them ever holds a byte twice, out of order, or
\* again after an earlier record had it, whatever the interrupt does between two
\* steps of fpgaTask.
BytesInOrder ==
  \A m \in DOMAIN Output :
    Sorted(Output[m]) /\ \A n \in DOMAIN Output : m < n => Follows(Output[m], Output[n])

\* The broker gets them in that order.
CloudInOrder == [][cloud' # cloud => Follows(cloud, cloud')]_vars

\* What lies in the buffer is picked up when the FPGA falls silent, although
\* fpgaTask clears the flag that the interrupt sets.
BufferIsTaken == fpgaCount > 0 ~> fpgaCount = 0
=============================================================================
