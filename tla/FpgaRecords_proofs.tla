------------------------- MODULE FpgaRecords_proofs -------------------------
(***************************************************************************)
(* Proofs about FpgaRecords, for any size of the buffer, any length of the  *)
(* queue and any number of bytes: the types, and the order of the bytes in  *)
(* the records and at the broker.                                           *)
(***************************************************************************)
EXTENDS FpgaRecords, SequenceTheorems, TLAPS

Wrapping == {"send", "restart"}   \* the buffer is a record already

\* The cells the next record may be made of.
Kept == {c \in 0..fpgaCount-1 : pc = "wipe" => c < wiped}

\* What lies in the buffer was sent after record r.
Precedes(r) ==
  \A i \in DOMAIN r, c \in Kept : r[i] # 0 /\ fpgaBuff[c] # 0 => r[i] < fpgaBuff[c]
KeptSorted ==
  \A c, d \in Kept : c < d /\ fpgaBuff[c] # 0 /\ fpgaBuff[d] # 0
                       => fpgaBuff[c] < fpgaBuff[d]

\* Only what has been sent is anywhere.
Sent(r) == \A i \in DOMAIN r : r[i] <= sent
BufferSent == \A c \in 0..Size : fpgaBuff[c] <= sent

Emitted == {cloud, taken} \cup {fpgaDataQueue[k] : k \in DOMAIN fpgaDataQueue}

Types == TypeOK /\ (pc = "wipe" => wiped < Size) /\ (pc # "send" => record = None)

\* The records: sorted, and one after the other.
EmittedSorted == \A r \in Emitted : Sorted(r) /\ Sent(r) /\ Follows(r, record)
EmittedInOrder ==
  /\ taken = cloud \/ Follows(cloud, taken)
  /\ \A k \in DOMAIN fpgaDataQueue :
       Follows(cloud, fpgaDataQueue[k]) /\ Follows(taken, fpgaDataQueue[k])
  /\ \A k, l \in DOMAIN fpgaDataQueue :
       k < l => Follows(fpgaDataQueue[k], fpgaDataQueue[l])
RecordSorted == Sorted(record) /\ Sent(record)

\* The buffer: newer than the records unless it is being made into one.
BufferInOrder ==
  BufferSent /\ (pc \notin Wrapping => KeptSorted /\ \A r \in Emitted : Precedes(r))

\* When the counter was reset behind the HAL's back, the next byte is counted as
\* the first and stored elsewhere; the first cell is then zero, or will be.
StaleAddress ==
  rxPtr # fpgaCount =>
    fpgaCount = 0 /\ ((pc = "wipe" => wiped > 0) => fpgaBuff[0] = 0)

IInv ==
  /\ Types /\ EmittedSorted /\ EmittedInOrder /\ RecordSorted /\ BufferInOrder
  /\ StaleAddress

-----------------------------------------------------------------------------
(* What a step that leaves a part alone keeps.                              *)

LEMMA Element == ASSUME NEW S, NEW s \in Seq(S), NEW i \in DOMAIN s PROVE s[i] \in S
  OBVIOUS

LEMMA NoneIsFine ==
  /\ None \in Records /\ Sorted(None) /\ Sent(None) /\ Precedes(None)
  /\ \A r : Follows(r, None) /\ Follows(None, r)
  BY DEF None, Records, Sorted, Sent, Precedes, Follows

LEMMA EmittedAreRecords == TypeOK => \A r \in Emitted : r \in Records
<1> SUFFICES ASSUME TypeOK, NEW r \in Emitted PROVE r \in Records
  OBVIOUS
<1>1. \A k \in DOMAIN fpgaDataQueue : fpgaDataQueue[k] \in Records
  BY Element DEF TypeOK
<1>2. QED BY <1>1 DEF TypeOK, Emitted

LEMMA SameEmitted ==
  ASSUME UNCHANGED <<cloud, taken, fpgaDataQueue>> PROVE Emitted' = Emitted
  BY DEF Emitted

LEMMA InitIInv == Init => IInv
<1> SUFFICES ASSUME Init PROVE IInv
  OBVIOUS
<1>1. Types
  <2>1. isActiveUart \in BOOLEAN /\ loopIsNormal \in BOOLEAN
    BY Zenon DEF Init
  <2>2. fpgaBuff \in [0..Size -> Byte]
    BY SizesAssumption DEF Init, Byte
  <2>3. QED
    BY <2>1, <2>2, SizesAssumption DEF Init, Types, TypeOK, Byte, Records, None, Goes
<1>2. Emitted = {None} /\ record = None /\ Kept = {}
  BY DEF Init, Emitted, Kept
<1>3. EmittedSorted /\ EmittedInOrder /\ RecordSorted
  BY <1>2, NoneIsFine DEF Init, EmittedSorted, EmittedInOrder, RecordSorted
<1>4. BufferInOrder /\ StaleAddress
  BY <1>2, NoneIsFine DEF Init, BufferInOrder, BufferSent, KeptSorted, StaleAddress
<1>5. QED BY <1>1, <1>3, <1>4 DEF IInv

-----------------------------------------------------------------------------
(* The receive interrupt.                                                   *)

LEMMA RxByteKeeps ==
  ASSUME IInv, NEW count \in {fpgaCount, 0, fpgaCount + 1}, RxByte(count),
         count = fpgaCount + 1 => fpgaCount < Size
  PROVE  IInv'
<1> USE SizesAssumption
<1>1. /\ sent \in Nat /\ sent + 1 \in Byte /\ Byte \subseteq Nat /\ fpgaCount \in 0..Size
      /\ rxPtr \in 0..Size /\ fpgaBuff \in [0..Size -> Byte] /\ wiped \in Nat
  BY DEF IInv, Types, TypeOK, RxByte, Byte
<1>2. count \in 0..Size
  BY <1>1
<1>3. Types'
  <2>1. isActiveUart' \in BOOLEAN
    BY Zenon DEF RxByte
  <2>2. fpgaBuff' \in [0..Size -> Byte]
    BY <1>1 DEF RxByte
  <2>3. QED
    BY <1>1, <1>2, <2>1, <2>2 DEF IInv, Types, TypeOK, RxByte, fpga, publisher
<1>4. Emitted' = Emitted /\ record' = record /\ sent' = sent + 1
      /\ cloud' = cloud /\ taken' = taken /\ fpgaDataQueue' = fpgaDataQueue
      /\ pc' = pc /\ wiped' = wiped
  BY DEF RxByte, Emitted, fpga, publisher
<1>5. EmittedInOrder'
  BY <1>4 DEF IInv, EmittedInOrder
<1>6. \A r \in Records : \A i \in DOMAIN r : r[i] \in Nat
  BY <1>1, Element DEF Records
<1>7. \A r \in Records : Sent(r) => Sent(r)'
  BY <1>1, <1>4, <1>6 DEF Sent
<1>8. RecordSorted'
  BY <1>4, <1>7 DEF IInv, RecordSorted, Types, TypeOK
<1>9. EmittedSorted'
  BY <1>4, <1>7, EmittedAreRecords DEF IInv, EmittedSorted, Types
\* The cell the byte is stored in, and what becomes of the others.
<1>10. \A c \in 0..Size : fpgaBuff'[c] = IF c = rxPtr THEN sent + 1 ELSE fpgaBuff[c]
  BY <1>1 DEF RxByte
<1>0. \A c \in 0..Size : fpgaBuff[c] \in Nat /\ fpgaBuff[c] <= sent
  BY <1>1 DEF IInv, BufferInOrder, BufferSent
<1>11. BufferSent'
  BY <1>0, <1>1, <1>4, <1>10 DEF IInv, BufferInOrder, BufferSent
<1>12. StaleAddress'
  BY DEF RxByte, StaleAddress
\* A new cell among the kept ones holds the new byte, or zero.
<1>13. \A c \in Kept' : \/ c \in Kept /\ c # rxPtr /\ fpgaBuff'[c] = fpgaBuff[c]
                        \/ c = fpgaCount /\ fpgaBuff'[c] \in {0, sent + 1}
  <2> SUFFICES ASSUME NEW c \in Kept'
               PROVE  \/ c \in Kept /\ c # rxPtr /\ fpgaBuff'[c] = fpgaBuff[c]
                      \/ c = fpgaCount /\ fpgaBuff'[c] \in {0, sent + 1}
    OBVIOUS
  <2>1. c \in 0..count-1 /\ (pc = "wipe" => c < wiped)
    BY <1>4 DEF Kept, RxByte
  <2>2. c \in 0..Size /\ (c \in Kept \/ c = fpgaCount)
    BY <1>1, <1>2, <2>1 DEF Kept
  <2>3. CASE c = rxPtr
    BY <1>1, <1>10, <2>1, <2>2, <2>3 DEF Kept, IInv, StaleAddress
  <2>4. CASE c # rxPtr
    BY <1>1, <1>10, <2>1, <2>2, <2>4 DEF Kept, IInv, StaleAddress
  <2>5. QED BY <2>3, <2>4
<1>14. pc \notin Wrapping => KeptSorted' /\ \A r \in Emitted' : Precedes(r)'
  <2> SUFFICES ASSUME pc \notin Wrapping
               PROVE  KeptSorted' /\ \A r \in Emitted' : Precedes(r)'
    OBVIOUS
  <2>1. \A c \in Kept : c \in 0..Size /\ c < fpgaCount /\ fpgaBuff[c] \in Nat
                        /\ fpgaBuff[c] <= sent
    BY <1>0, <1>1 DEF Kept
  <2>2. KeptSorted'
    BY <1>1, <1>13, <2>1 DEF IInv, BufferInOrder, KeptSorted
  <2>3. ASSUME NEW r \in Emitted PROVE Precedes(r)'
    <3>1. r \in Records /\ Sent(r) /\ Precedes(r)
      BY EmittedAreRecords DEF IInv, Types, EmittedSorted, BufferInOrder
    <3>2. QED BY <1>1, <1>6, <1>13, <3>1 DEF Precedes, Sent
  <2>4. QED BY <1>4, <2>2, <2>3
<1>15. QED
  BY <1>3, <1>4, <1>5, <1>8, <1>9, <1>11, <1>12, <1>14 DEF IInv, BufferInOrder

LEMMA RxInterruptKeeps == ASSUME IInv, RxInterrupt PROVE IInv'
<1>1. CASE RxCounted
  <2>1. CASE fpgaCount < Size
    <3>1. RxByte(fpgaCount + 1)
      BY <1>1, <2>1 DEF RxCounted
    <3>2. QED BY <2>1, <3>1, RxByteKeeps
  <2>2. CASE ~(fpgaCount < Size)
    <3>1. RxByte(0) /\ 0 # fpgaCount + 1
      BY <1>1, <2>2, SizesAssumption DEF RxCounted, IInv, Types, TypeOK
    <3>2. QED BY <3>1, RxByteKeeps
  <2>3. QED BY <2>1, <2>2
<1>2. CASE RxIdle
  <2>1. fpgaCount # fpgaCount + 1
    BY SizesAssumption DEF IInv, Types, TypeOK
  <2>2. QED BY <1>2, <2>1, RxByteKeeps DEF RxIdle
<1>3. QED BY <1>1, <1>2 DEF RxInterrupt

-----------------------------------------------------------------------------
(* fpgaTask.                                                                *)

\* A step that moves no byte.
LEMMA QuietStepKeeps ==
  ASSUME IInv, Types',
         UNCHANGED <<fpgaBuff, fpgaCount, rxPtr, sent, record, wiped, fpgaDataQueue,
                     cloud, taken>>,
         pc' = "wipe" <=> pc = "wipe", pc' \notin Wrapping => pc \notin Wrapping
  PROVE  IInv'
<1>1. Emitted' = Emitted /\ Kept' = Kept
  BY SameEmitted DEF Kept
<1>2. EmittedSorted' /\ EmittedInOrder' /\ RecordSorted'
  BY <1>1 DEF IInv, EmittedSorted, EmittedInOrder, RecordSorted, Sent
<1>3. BufferInOrder' /\ StaleAddress'
  BY <1>1 DEF IInv, BufferInOrder, BufferSent, KeptSorted, Precedes, StaleAddress
<1>4. QED BY <1>2, <1>3 DEF IInv

LEMMA ListenKeeps ==
  ASSUME IInv, Poll \/ ClearActive \/ CheckQuiet PROVE IInv'
<1>1. isActiveUart' \in BOOLEAN
  BY Zenon DEF IInv, Types, TypeOK, Poll, ClearActive, CheckQuiet, uart
<1>2. Types'
  BY <1>1 DEF IInv, Types, TypeOK, Poll, ClearActive, CheckQuiet, uart, publisher
<1>3. QED
  BY <1>2, QuietStepKeeps DEF Poll, ClearActive, CheckQuiet, uart, publisher, Wrapping

LEMMA FormatKeeps == ASSUME IInv, Format PROVE IInv'
<1> USE SizesAssumption
<1>1. /\ UNCHANGED <<isActiveUart, fpgaBuff, fpgaCount, rxPtr, sent, wiped>>
      /\ UNCHANGED <<fpgaDataQueue, pubPc, rc, taken, loopIsNormal, cloud>>
      /\ pc = "put" /\ pc' \in Wrapping
      /\ pc' = "restart" => record' = record
  BY DEF Format, uart, publisher, Wrapping
<1>2. Emitted' = Emitted
  BY <1>1, SameEmitted
<1>3. fpgaCount \in 0..Size /\ fpgaBuff \in [0..Size -> Byte]
  BY DEF IInv, Types, TypeOK
<1>4. CASE record' = record /\ pc' = "restart"
  <2>1. Types'
    BY <1>1, <1>4 DEF IInv, Types, TypeOK
  <2>2. QED BY <1>1, <1>4, <2>1, QuietStepKeeps DEF Wrapping
<1>5. CASE record' = [i \in 1..fpgaCount |-> fpgaBuff[i-1]] /\ pc' = "send"
  <2>1. record' \in Records
    BY <1>3, <1>5, SeqDef DEF Records
  <2>2. Types'
    BY <1>1, <1>5, <2>1 DEF IInv, Types, TypeOK
  <2>3. DOMAIN record' = 1..fpgaCount
        /\ \A i \in 1..fpgaCount : record'[i] = fpgaBuff[i-1] /\ i-1 \in Kept
                                    /\ i-1 \in 0..Size
    BY <1>1, <1>3, <1>5 DEF Kept
  <2>4. RecordSorted'
    BY <1>1, <2>3 DEF IInv, BufferInOrder, BufferSent, KeptSorted, RecordSorted,
                      Sorted, Sent, Wrapping
  <2>5. \A r \in Emitted : Follows(r, record')
    BY <1>1, <2>3 DEF IInv, BufferInOrder, Precedes, Follows, Wrapping
  <2>6. EmittedSorted' /\ EmittedInOrder'
    BY <1>1, <1>2, <2>5 DEF IInv, EmittedSorted, EmittedInOrder, Sent
  <2>7. BufferInOrder' /\ StaleAddress'
    BY <1>1 DEF IInv, BufferInOrder, BufferSent, StaleAddress, Wrapping
  <2>8. QED BY <2>2, <2>4, <2>6, <2>7 DEF IInv
<1>6. QED BY <1>4, <1>5 DEF Format

LEMMA SendKeeps == ASSUME IInv, Send PROVE IInv'
<1> USE SizesAssumption
<1> DEFINE q == fpgaDataQueue
<1>1. /\ UNCHANGED <<isActiveUart, fpgaBuff, fpgaCount, rxPtr, sent, wiped>>
      /\ UNCHANGED <<pubPc, rc, taken, loopIsNormal, cloud>>
      /\ pc = "send" /\ pc' = "restart" /\ record' = None
      /\ q' = Append(q, record) /\ Len(q) < QueueLength
  BY DEF Send, uart, publisher
<1>2. q \in Seq(Records) /\ record \in Records /\ Len(q) \in Nat
  BY DEF IInv, Types, TypeOK
<1>3. q' \in Seq(Records) /\ Len(q') = Len(q) + 1
      /\ DOMAIN q = 1..Len(q) /\ DOMAIN q' = 1..Len(q)+1
      /\ q'[Len(q) + 1] = record /\ \A k \in DOMAIN q : q'[k] = q[k]
  BY <1>1, <1>2
<1>4. Types'
  BY <1>1, <1>2, <1>3, NoneIsFine DEF IInv, Types, TypeOK
<1>5. \A k \in DOMAIN q' : (k \in DOMAIN q /\ q'[k] = q[k])
                            \/ (k = Len(q) + 1 /\ q'[k] = record)
  BY <1>2, <1>3
<1>6. \A r \in Emitted' : r \in Emitted \/ r = record
  BY <1>1, <1>5 DEF Emitted
<1>7. EmittedSorted' /\ RecordSorted'
  BY <1>1, <1>6, NoneIsFine DEF IInv, EmittedSorted, RecordSorted, Sent
<1>8. EmittedInOrder'
  <2>1. cloud \in Emitted /\ taken \in Emitted /\ \A k \in DOMAIN q : q[k] \in Emitted
    BY DEF Emitted
  <2>2. \A r \in Emitted : Follows(r, record)
    BY DEF IInv, EmittedSorted
  <2>3. \A k \in DOMAIN q' : Follows(cloud, q'[k]) /\ Follows(taken, q'[k])
    BY <1>5, <2>1, <2>2 DEF IInv, EmittedInOrder
  <2>4. \A k, l \in DOMAIN q' : k < l => Follows(q'[k], q'[l])
    BY <1>2, <1>3, <1>5, <2>1, <2>2 DEF IInv, EmittedInOrder
  <2>5. QED BY <1>1, <2>3, <2>4 DEF IInv, EmittedInOrder
<1>9. BufferInOrder' /\ StaleAddress'
  BY <1>1 DEF IInv, BufferInOrder, BufferSent, StaleAddress, Wrapping
<1>10. QED BY <1>4, <1>7, <1>8, <1>9 DEF IInv

LEMMA QueueFullKeeps == ASSUME IInv, QueueFull PROVE IInv'
<1>1. /\ UNCHANGED <<isActiveUart, fpgaBuff, fpgaCount, rxPtr, sent, wiped>>
      /\ UNCHANGED <<fpgaDataQueue, pubPc, rc, taken, loopIsNormal, cloud>>
      /\ pc = "send" /\ pc' = "restart" /\ record' = None
  BY DEF QueueFull, uart, publisher
<1>2. Emitted' = Emitted
  BY <1>1, SameEmitted
<1>3. Types'
  BY <1>1, NoneIsFine DEF IInv, Types, TypeOK
<1>4. EmittedSorted' /\ EmittedInOrder' /\ RecordSorted'
  BY <1>1, <1>2, NoneIsFine DEF IInv, EmittedSorted, EmittedInOrder, RecordSorted, Sent
<1>5. BufferInOrder' /\ StaleAddress'
  BY <1>1 DEF IInv, BufferInOrder, BufferSent, StaleAddress, Wrapping
<1>6. QED BY <1>3, <1>4, <1>5 DEF IInv

LEMMA RestartCountKeeps == ASSUME IInv, RestartCount PROVE IInv'
<1> USE SizesAssumption
<1>1. /\ UNCHANGED <<isActiveUart, fpgaBuff, rxPtr, sent, record>>
      /\ UNCHANGED <<fpgaDataQueue, pubPc, rc, taken, loopIsNormal, cloud>>
      /\ pc = "restart" /\ pc' = "wipe" /\ fpgaCount' = 0 /\ wiped' = 0
  BY DEF RestartCount, publisher
<1>2. Emitted' = Emitted /\ Kept' = {}
  BY <1>1, SameEmitted DEF Kept
<1>3. Types'
  BY <1>1 DEF IInv, Types, TypeOK
<1>4. EmittedSorted' /\ EmittedInOrder' /\ RecordSorted'
  BY <1>1, <1>2 DEF IInv, EmittedSorted, EmittedInOrder, RecordSorted, Sent
<1>5. BufferInOrder' /\ StaleAddress'
  BY <1>1, <1>2 DEF IInv, BufferInOrder, BufferSent, KeptSorted, Precedes, StaleAddress
<1>6. QED BY <1>3, <1>4, <1>5 DEF IInv

LEMMA WipeKeeps == ASSUME IInv, Wipe PROVE IInv'
<1> USE SizesAssumption
<1>1. /\ UNCHANGED <<isActiveUart, fpgaCount, rxPtr, sent, record>>
      /\ UNCHANGED <<fpgaDataQueue, pubPc, rc, taken, loopIsNormal, cloud>>
      /\ pc = "wipe" /\ record = None
  BY DEF Wipe, publisher, IInv, Types
<1>2. PICK n \in wiped+1..Size :
        /\ fpgaBuff' = [c \in 0..Size |-> IF c \in wiped..n-1 THEN 0 ELSE fpgaBuff[c]]
        /\ wiped' = n
        /\ pc' = IF n = Size THEN "poll" ELSE "wipe"
  BY DEF Wipe
<1>3. fpgaCount \in 0..Size /\ fpgaBuff \in [0..Size -> Byte] /\ wiped \in 0..Size
      /\ n \in 1..Size /\ wiped < n /\ 0 \in Byte /\ sent \in Nat
  BY <1>2 DEF IInv, Types, TypeOK, Byte
<1>4. Types'
  <2>1. fpgaBuff' \in [0..Size -> Byte]
    BY <1>2, <1>3
  <2>2. QED BY <1>1, <1>2, <1>3, <2>1 DEF IInv, Types, TypeOK
<1>5. Emitted' = Emitted
  BY <1>1, SameEmitted
<1>6. EmittedSorted' /\ EmittedInOrder' /\ RecordSorted'
  BY <1>1, <1>5 DEF IInv, EmittedSorted, EmittedInOrder, RecordSorted, Sent
\* A cell that joins the kept ones has just been cleared.
<1>7. \A c \in Kept' : fpgaBuff'[c] = 0 \/ (c \in Kept /\ fpgaBuff'[c] = fpgaBuff[c])
  BY <1>1, <1>2, <1>3 DEF Kept
<1>8. BufferInOrder'
  <2>1. BufferSent'
    BY <1>1, <1>2, <1>3 DEF IInv, BufferInOrder, BufferSent
  <2>2. KeptSorted' /\ \A r \in Emitted : Precedes(r)'
    BY <1>1, <1>7 DEF IInv, BufferInOrder, KeptSorted, Precedes, Wrapping
  <2>3. QED BY <1>5, <2>1, <2>2 DEF BufferInOrder
<1>9. StaleAddress'
  BY <1>1, <1>2, <1>3 DEF IInv, StaleAddress
<1>10. QED BY <1>4, <1>6, <1>8, <1>9 DEF IInv

-----------------------------------------------------------------------------
(* The publisher.                                                           *)

LEMMA LoopKeeps ==
  ASSUME IInv, Start \/ Yield \/ Again \/ ReceiveNothing PROVE IInv'
<1>1. loopIsNormal' \in BOOLEAN
  BY Zenon DEF IInv, Types, TypeOK, Start, Yield, Again, ReceiveNothing
<1>2. /\ UNCHANGED <<isActiveUart, fpgaBuff, fpgaCount, rxPtr, sent, record, wiped, pc>>
      /\ UNCHANGED <<fpgaDataQueue, taken, cloud>>
  BY DEF Start, Yield, Again, ReceiveNothing, uart, fpga
<1>3. pubPc' \in {"away", "yield", "again", "receive", "publish", "ended"}
      /\ rc' \in Goes \cup {"timeout", "failure"}
  BY DEF IInv, Types, TypeOK, Start, Yield, Again, ReceiveNothing
<1>4. Types'
  BY <1>1, <1>2, <1>3 DEF IInv, Types, TypeOK
<1>5. QED BY <1>2, <1>4, QuietStepKeeps

\* A step of the publisher that takes records away, and adds none.
LEMMA FewerRecords ==
  ASSUME IInv, Types',
         UNCHANGED <<fpgaBuff, fpgaCount, rxPtr, sent, record, wiped, pc>>,
         \A r \in Emitted' : r \in Emitted \/ r = None,
         EmittedInOrder'
  PROVE  IInv'
<1>1. Kept' = Kept
  BY DEF Kept
<1>2. EmittedSorted' /\ RecordSorted'
  BY NoneIsFine DEF IInv, EmittedSorted, RecordSorted, Sent
<1>3. BufferInOrder' /\ StaleAddress'
  BY <1>1, NoneIsFine DEF IInv, BufferInOrder, BufferSent, KeptSorted, Precedes,
     StaleAddress
<1>4. QED BY <1>2, <1>3 DEF IInv

LEMMA ReceiveRecordKeeps == ASSUME IInv, ReceiveRecord PROVE IInv'
<1> DEFINE q == fpgaDataQueue
<1>1. /\ UNCHANGED <<isActiveUart, fpgaBuff, fpgaCount, rxPtr, sent, record, wiped, pc>>
      /\ UNCHANGED <<rc, loopIsNormal, cloud>>
      /\ q # <<>> /\ taken' = Head(q) /\ q' = Tail(q) /\ pubPc' = "publish"
  BY DEF ReceiveRecord, uart, fpga
<1>2. q \in Seq(Records) /\ Len(q) \in Nat \ {0} /\ Len(q) <= QueueLength
  BY <1>1 DEF IInv, Types, TypeOK
<1>3. /\ q' \in Seq(Records) /\ Len(q') = Len(q) - 1
      /\ DOMAIN q = 1..Len(q) /\ DOMAIN q' = 1..Len(q)-1
      /\ taken' = q[1] /\ taken' \in Records
      /\ \A k \in DOMAIN q' : q'[k] = q[k+1]
  BY <1>1, <1>2
<1>4. Types'
  BY <1>1, <1>2, <1>3, SizesAssumption DEF IInv, Types, TypeOK
<1>5. 1 \in DOMAIN q /\ \A k \in DOMAIN q' : k + 1 \in DOMAIN q
  BY <1>2, <1>3
<1>6. \A r \in Emitted' : r \in Emitted
  BY <1>1, <1>3, <1>5 DEF Emitted
<1>7. EmittedInOrder'
  <2>1. Follows(cloud, q[1])
    BY <1>5 DEF IInv, EmittedInOrder
  <2>2. \A k \in DOMAIN q' : Follows(cloud, q'[k]) /\ Follows(q[1], q'[k])
    BY <1>3, <1>5 DEF IInv, EmittedInOrder
  <2>3. \A k, l \in DOMAIN q' : k < l => Follows(q'[k], q'[l])
    BY <1>3, <1>5 DEF IInv, EmittedInOrder
  <2>4. QED BY <1>1, <1>3, <2>1, <2>2, <2>3 DEF EmittedInOrder
<1>8. QED BY <1>1, <1>4, <1>6, <1>7, FewerRecords

LEMMA PublishKeeps == ASSUME IInv, Publish PROVE IInv'
<1>1. /\ UNCHANGED <<isActiveUart, fpgaBuff, fpgaCount, rxPtr, sent, record, wiped, pc>>
      /\ UNCHANGED <<fpgaDataQueue, loopIsNormal>>
      /\ cloud' \in {cloud, taken} /\ rc' \in Goes \cup {"timeout", "failure"}
      /\ \/ UNCHANGED <<pubPc, taken>>
         \/ pubPc' = "receive" /\ taken' = None
  BY DEF Publish, uart, fpga, Goes
<1>2. Types'
  BY <1>1, NoneIsFine DEF IInv, Types, TypeOK
<1>3. \A r \in Emitted' : r \in Emitted \/ r = None
  BY <1>1 DEF Emitted
<1>4. EmittedInOrder'
  BY <1>1, NoneIsFine DEF IInv, EmittedInOrder
<1>5. QED BY <1>1, <1>2, <1>3, <1>4, FewerRecords

LEMMA NextKeeps == IInv /\ [Next]_vars => IInv'
<1> SUFFICES ASSUME IInv, [Next]_vars PROVE IInv'
  OBVIOUS
<1>1. CASE RxInterrupt
  BY <1>1, RxInterruptKeeps
<1>2. CASE FpgaTask
  BY <1>2, ListenKeeps, FormatKeeps, SendKeeps, QueueFullKeeps, RestartCountKeeps,
     WipeKeeps DEF FpgaTask
<1>3. CASE Publisher
  BY <1>3, LoopKeeps, ReceiveRecordKeeps, PublishKeeps DEF Publisher
<1>4. CASE UNCHANGED vars
  <2>1. Types'
    BY <1>4 DEF IInv, Types, TypeOK, vars, uart, fpga, publisher
  <2>2. QED BY <1>4, <2>1, QuietStepKeeps DEF vars, uart, fpga, publisher
<1>5. QED BY <1>1, <1>2, <1>3, <1>4 DEF Next

LEMMA Inductive == Spec => []IInv
  BY InitIInv, NextKeeps, PTL DEF Spec

-----------------------------------------------------------------------------
\* Every variable keeps its type: the interrupt never stores behind the byte that
\* follows the buffer (fpgaRxUartHandler), and the queue holds what it can.
THEOREM TypeCorrect == Spec => []TypeOK
  BY Inductive, PTL DEF IInv, Types

\* No record ever holds a byte twice, out of order, or again after an earlier record
\* had it, although buffer, counter and flag are shared without a lock.
THEOREM BytesAreInOrder == Spec => []BytesInOrder
<1>1. ASSUME IInv PROVE BytesInOrder
  <2> DEFINE q == fpgaDataQueue
             current == IF taken = None THEN cloud ELSE taken
             last == Len(q) + 2
  <2>1. q \in Seq(Records) /\ record \in Records /\ Len(q) \in Nat
    BY <1>1 DEF IInv, Types, TypeOK
  <2>2. /\ DOMAIN Output = 1..last
        /\ Output[1] = current
        /\ \A k \in DOMAIN q : Output[k+1] = q[k]
        /\ Output[last] = record
    BY <2>1 DEF Output
  <2>3. current \in Emitted /\ \A k \in DOMAIN q : q[k] \in Emitted
    BY DEF Emitted
  <2>4. \A m \in DOMAIN Output :
          m = 1 \/ (m-1 \in DOMAIN q /\ Output[m] = q[m-1]) \/ m = last
    BY <2>1, <2>2
  <2>5. \A m \in DOMAIN Output : Sorted(Output[m])
    BY <1>1, <2>2, <2>3, <2>4 DEF IInv, EmittedSorted, RecordSorted
  <2>6. ASSUME NEW m \in DOMAIN Output, NEW n \in DOMAIN Output, m < n
        PROVE  Follows(Output[m], Output[n])
    <3>1. m = 1 \/ (m-1 \in DOMAIN q /\ Output[m] = q[m-1])
      BY <2>1, <2>2, <2>4, <2>6
    <3>2. (n-1 \in DOMAIN q /\ Output[n] = q[n-1]) \/ n = last
      BY <2>1, <2>2, <2>4, <2>6
    <3>3. CASE n = last
      BY <1>1, <2>2, <2>3, <3>1, <3>3 DEF IInv, EmittedSorted
    <3>4. CASE n-1 \in DOMAIN q /\ Output[n] = q[n-1]
      BY <1>1, <2>1, <2>2, <2>6, <3>1, <3>4 DEF IInv, EmittedInOrder
    <3>5. QED BY <3>2, <3>3, <3>4
  <2>7. QED BY <2>5, <2>6 DEF BytesInOrder
<1>2. QED BY <1>1, Inductive, PTL

\* The broker gets the bytes in the order the FPGA sent them, whatever is repeated
\* after a timeout or lost.
THEOREM CloudIsInOrder == Spec => CloudInOrder
<1>1. IInv /\ [Next]_vars => [cloud' # cloud => Follows(cloud, cloud')]_vars
  <2> SUFFICES ASSUME IInv, Next, cloud' # cloud PROVE Follows(cloud, cloud')
    OBVIOUS
  <2>1. Publish
    BY DEF Next, RxInterrupt, RxCounted, RxIdle, RxByte, FpgaTask, Poll, ClearActive,
       CheckQuiet, Format, Send, QueueFull, RestartCount, Wipe, Publisher, Start, Yield,
       Again, ReceiveRecord, ReceiveNothing, publisher
  <2>2. QED BY <2>1 DEF Publish, IInv, EmittedInOrder
<1>2. QED BY <1>1, Inductive, PTL DEF Spec, CloudInOrder
=============================================================================
