---------------------------- MODULE PppBytes_proofs ----------------------------
(* PppBytes for any queue, buffer, number of frames, chunks and bytes: frames of *)
(* lwIP's thread stay whole, those of the application are cut by none but       *)
(* gsmPPP_rawInput, variables keep their types and the heap is bounded, chunks  *)
(* go to the UART in the order of their writers, and bytes reach pppos_input in *)
(* the order of their arrival.                                                  *)
EXTENDS PppBytes, SequenceTheorems, FiniteSetTheorems, TLAPS

-----------------------------------------------------------------------------
(* Frames.                                                                   *)

\* The core lock keeps lwIP's thread and the application apart, and gsmPPP_Tsk turns
\* into the application for good.
Apart ==
  /\ wrPc \in [Writers -> {"idle", "write", "send"}]
  /\ frames \in [Writers -> Nat]
  /\ wrPc["app"] # "idle"
       => wrPc["tcpip"] = "idle" /\ wrPc["task"] = "idle" /\ frames["app"] # 0

LEMMA InitApart == Init => Apart
  BY DEF Init, Apart, Writers

\* The thread that begins a frame is the only one of the two that hold the lock.
LEMMA BeginKeepsApart ==
  ASSUME Apart, Begin PROVE Apart' /\ lastQueued' = lastQueued
<1> USE DEF Apart, BeginFrame, Writers
<1>1. CASE TcpipFrame BY <1>1 DEF TcpipFrame
<1>2. CASE AppFrame BY <1>2 DEF AppFrame
<1>3. CASE TaskFrame BY <1>3 DEF TaskFrame
<1>4. QED BY <1>1, <1>2, <1>3 DEF Begin

\* A thread queues a chunk when lwIP's thread waits for a place in the queue that
\* it does not have, or is in no frame.
LEMMA QueueSendCuts ==
  ASSUME Apart, NEW w \in Writers, QueueSend(w),
         NEW v \in {"tcpip", "app"}, wrPc[v] # "idle"
  PROVE  lastQueued'.by = v \/ (v = "app" /\ lastQueued'.by = "input")
<1>1. lastQueued'.by = w
  BY DEF QueueSend, Chunk
<1>2. CASE v = "tcpip"
  <2>1. w # "tcpip" => wrPc["tcpip"] = "idle"
    BY DEF Apart, QueueSend, Scheduled, TasksRun, CanStep, Writers
  <2>2. QED BY <1>1, <1>2, <2>1
<1>3. CASE v = "app"
  <2>1. wrPc[w] # "idle"
    BY DEF QueueSend
  <2>2. w \in {"app", "input"}
    BY <1>3, <2>1 DEF Apart, Writers
  <2>3. QED BY <1>1, <1>3, <2>2
<1>4. QED BY <1>2, <1>3

LEMMA WriteKeepsApart ==
  ASSUME Apart, NEW w \in Writers, Write(w) PROVE Apart'
<1>1. CASE OutputCb(w)
  BY <1>1 DEF OutputCb, Apart, Writers
<1>2. CASE QueueSend(w)
  BY <1>2 DEF QueueSend, Apart, Writers
<1>3. QED BY <1>1, <1>2 DEF Write

\* Every other step begins a frame of gsmPPP_rawInput or none.
LEMMA OthersKeepApart ==
  ASSUME Apart, [Next]_vars, ~Begin, ~\E w \in Writers : Write(w)
  PROVE  Apart' /\ lastQueued' = lastQueued
<1> USE DEF Apart, input, rx, writer, output, line, Writers
<1>1. CASE RawOutput
  BY <1>1 DEF RawOutput, OutPoll, OutReceive, OutTransmit, OutStart, OutFree
<1>2. CASE RawInput
  <2>1. CASE InPass BY <2>1 DEF InPass, BeginFrame
  <2>2. CASE InPoll \/ InDrain \/ InReturns
    BY <2>2 DEF InPoll, InDrain, InReturns
  <2>3. QED BY <1>2, <2>1, <2>2 DEF RawInput
<1>3. CASE TransmitEnds BY <1>3 DEF TransmitEnds
<1>4. CASE World
  BY <1>4 DEF World, RxByte, Overrun, ModeChanges, AtPrepares, AtReceives, AtTransmits
<1>5. CASE UNCHANGED vars BY <1>5 DEF vars
<1>6. QED BY <1>1, <1>2, <1>3, <1>4, <1>5 DEF Next

LEMMA StepKeepsApart ==
  ASSUME Apart, [Next]_vars PROVE Apart'
  BY BeginKeepsApart, WriteKeepsApart, OthersKeepApart

LEMMA StepCuts ==
  ASSUME Apart, [Next]_vars, NEW v \in {"tcpip", "app"},
         wrPc[v] # "idle", lastQueued' # lastQueued
  PROVE  lastQueued'.by = v \/ (v = "app" /\ lastQueued'.by = "input")
<1>1. PICK w \in Writers : Write(w)
  BY BeginKeepsApart, OthersKeepApart
<1>2. QueueSend(w)
  BY <1>1 DEF Write, OutputCb
<1>3. QED BY <1>2, QueueSendCuts

\* tcpip.c, gsmPPP.c and lwipopts.h: the priority of lwIP's thread keeps every other
\* chunk out of its frames, even where it blocks on a full queue, for there the
\* other writers are blocked as well; and the core lock keeps its chunks, for all
\* their priority, out of the application's frames, into which no chunk comes but
\* gsmPPP_rawInput's.
THEOREM FramesAreCutOnlyUnlocked == Spec => FramesCutOnlyUnlocked
<1>1. Apart /\ [Next]_vars => Apart'
  BY StepKeepsApart
<1>2. Apart /\ [Next]_vars
        => [\A w \in {"tcpip", "app"} :
              wrPc[w] # "idle" /\ lastQueued' # lastQueued
                => \/ lastQueued'.by = w
                   \/ w = "app" /\ lastQueued'.by = "input"]_vars
  BY StepCuts
<1>3. QED
  BY InitApart, <1>1, <1>2, PTL DEF Spec, FramesCutOnlyUnlocked

-----------------------------------------------------------------------------
(* Types, the heap among them.                                               *)

\* How many chunks f frames may have.
Quota(f) == f * MaxChunks
Sending(w) == IF wrPc[w] = "send" THEN 1 ELSE 0
Holding == IF outPc \in {"transmit", "locked", "free"} THEN 1 ELSE 0

FlagsTyped == mode \in BOOLEAN /\ armed \in BOOLEAN /\ spoilt \in BOOLEAN

InputTyped ==
  /\ tbuf \in Seq(1..RxBytes) /\ rxQueue \in Seq(1..RxBytes)
  /\ Len(rxQueue) <= RxQueueLength
  /\ arrived \in 0..RxBytes /\ passed \in 0..RxBytes
  /\ inPc \in {"poll", "drain", "pass", "answer"}
  /\ inPc = "poll" => tbuf = <<>>
  /\ inPc = "drain" => Len(tbuf) < TbufLength
  /\ inPc \in {"pass", "answer"} => tbuf # <<>> /\ Len(tbuf) <= TbufLength

WritersTyped ==
  /\ wrPc \in [Writers -> {"idle", "write", "send"}]
  /\ left \in [Writers -> 0..MaxChunks] /\ frames \in [Writers -> 0..Frames]
  /\ written \in [Writers -> Nat]
  /\ \A w \in Writers :
       /\ wrPc[w] = "idle" <=> left[w] = 0
       /\ wrPc[w] = "send" => written[w] >= 1
       /\ written[w] + left[w] <= Quota(frames[w]) + Sending(w)

OutputTyped ==
  /\ queue \in Seq(Chunks) /\ Len(queue) <= QueueLength
  /\ outPc \in {"poll", "receive", "transmit", "locked", "free"}
  /\ outChunk \in Chunks \cup {None}
  /\ outPc \in {"transmit", "locked"} => outChunk \in Chunks
  /\ uart \in Chunks \cup {None, Chunk("at", 0, FALSE)}
  /\ lastQueued \in Chunks \cup {None}
  /\ sent \in [Writers -> 0..MaxWritten]

\* Every buffer of output_cb has its place.
Senders == Sending("tcpip") + Sending("app") + Sending("input") + Sending("task")
HeapCounted == heap = Len(queue) + Senders + Holding

Typed == FlagsTyped /\ InputTyped /\ WritersTyped /\ OutputTyped /\ HeapCounted

LEMMA QuotaGrows ==
  ASSUME NEW f \in Nat
  PROVE  /\ Quota(f) \in Nat /\ Quota(f + 1) = Quota(f) + MaxChunks
         /\ f <= Frames => Quota(f) <= MaxWritten
<1>1. MaxChunks \in Nat /\ Frames \in Nat
  BY BoundsAssumption
<1>2. Quota(f) \in Nat /\ Quota(f + 1) = Quota(f) + MaxChunks
  BY <1>1 DEF Quota
<1>3. ASSUME f <= Frames PROVE f * MaxChunks <= Frames * MaxChunks
  <2>1. PICK d \in Nat : Frames = f + d
    <3>1. Frames - f \in Nat /\ Frames = f + (Frames - f)
      BY <1>1, <1>3
    <3>2. QED BY <3>1
  <2>2. (f + d) * MaxChunks = f * MaxChunks + d * MaxChunks
    BY <1>1
  <2>3. d * MaxChunks \in Nat /\ f * MaxChunks \in Nat
    BY <1>1
  <2>4. QED BY <2>1, <2>2, <2>3
<1>4. QED BY <1>2, <1>3 DEF Quota, MaxWritten

LEMMA WrittenBounded ==
  ASSUME WritersTyped, NEW w \in Writers
  PROVE  written[w] \in 0..MaxWritten
<1>1. frames[w] \in Nat /\ frames[w] <= Frames /\ written[w] \in Nat /\ left[w] \in Nat
  BY BoundsAssumption DEF WritersTyped
<1>2. Quota(frames[w]) <= MaxWritten /\ Quota(frames[w]) \in Nat
  BY <1>1, QuotaGrows
<1>3. written[w] + left[w] <= Quota(frames[w]) + Sending(w)
  BY DEF WritersTyped
<1>4. MaxWritten \in Nat
  BY BoundsAssumption DEF MaxWritten
<1>5. Sending(w) <= left[w] /\ Sending(w) \in 0..1
  BY <1>1 DEF WritersTyped, Sending
<1>6. QED BY <1>1, <1>2, <1>3, <1>4, <1>5

LEMMA InitTyped == Init => Typed
<1> SUFFICES ASSUME Init PROVE Typed
  OBVIOUS
<1> USE BoundsAssumption DEF Init
<1>1. FlagsTyped BY DEF FlagsTyped
<1>2. InputTyped BY DEF InputTyped
<1>3. WritersTyped
  <2>1. Quota(0) = 0
    BY DEF Quota
  <2>2. QED BY <2>1 DEF WritersTyped, Sending
<1>4. OutputTyped
  <2>1. MaxWritten \in Nat
    BY DEF MaxWritten
  <2>2. QED BY <2>1 DEF OutputTyped
<1>5. HeapCounted
  BY DEF HeapCounted, Senders, Sending, Holding, Writers
<1>6. QED BY <1>1, <1>2, <1>3, <1>4, <1>5 DEF Typed

LEMMA FlagsStep == FlagsTyped /\ [Next]_vars => FlagsTyped'
<1> SUFFICES ASSUME FlagsTyped, [Next]_vars PROVE FlagsTyped'
  OBVIOUS
<1> USE DEF FlagsTyped, rx, line
<1>1. CASE Begin BY <1>1, Zenon DEF Begin, TcpipFrame, AppFrame, TaskFrame
<1>2. CASE RawOutput
  BY <1>2, Zenon DEF RawOutput, OutPoll, OutReceive, OutTransmit, OutStart, OutFree
<1>3. CASE RawInput
  BY <1>3, Zenon DEF RawInput, InPoll, InDrain, InPass, InReturns
<1>4. CASE TransmitEnds BY <1>4, Zenon DEF TransmitEnds
<1>5. CASE World
  BY <1>5, Zenon DEF World, RxByte, Overrun, ModeChanges, AtPrepares, AtReceives, AtTransmits
<1>6. CASE \E w \in Writers : Write(w)
  BY <1>6, Zenon DEF Write, OutputCb, QueueSend
<1>7. CASE UNCHANGED vars BY <1>7, Zenon DEF vars
<1>8. QED BY <1>1, <1>2, <1>3, <1>4, <1>5, <1>6, <1>7, Zenon DEF Next

LEMMA InputStep == InputTyped /\ [Next]_vars => InputTyped'
<1> SUFFICES ASSUME InputTyped, [Next]_vars PROVE InputTyped'
  OBVIOUS
<1> USE BoundsAssumption DEF InputTyped, input, rx
<1>1. CASE InDrain
  <2>1. CASE /\ rxQueue # <<>>
             /\ tbuf' = Append(tbuf, Head(rxQueue)) /\ rxQueue' = Tail(rxQueue)
             /\ inPc' = IF Len(tbuf') >= TbufLength THEN "pass" ELSE "drain"
    <3>1. Head(rxQueue) \in 1..RxBytes /\ rxQueue' \in Seq(1..RxBytes)
          /\ Len(rxQueue') <= RxQueueLength
      BY <2>1
    <3>2. tbuf' \in Seq(1..RxBytes) /\ Len(tbuf') = Len(tbuf) + 1 /\ tbuf' # <<>>
      <4>1. tbuf \in Seq(1..RxBytes) /\ tbuf' = Append(tbuf, Head(rxQueue))
        BY <2>1
      <4>2. Len(tbuf) \in Nat
        BY <4>1
      <4>3. tbuf' \in Seq(1..RxBytes) /\ Len(tbuf') = Len(tbuf) + 1
        BY <3>1, <4>1, AppendProperties
      <4>4. QED BY <4>2, <4>3
    <3>3. Len(tbuf) < TbufLength
      BY <1>1 DEF InDrain
    <3>4. QED BY <1>1, <2>1, <3>1, <3>2, <3>3 DEF InDrain
  <2>2. QED BY <1>1, <2>1 DEF InDrain
<1>2. CASE InPass
  <2>1. tbuf[Len(tbuf)] \in 1..RxBytes
    BY <1>2 DEF InPass
  <2>2. QED BY <1>2, <2>1 DEF InPass
<1>3. CASE InPoll \/ InReturns
  <2>1. CASE InPoll
    <3>1. tbuf = <<>> /\ Len(tbuf) = 0
      BY <2>1 DEF InPoll
    <3>2. QED BY <2>1, <3>1 DEF InPoll
  <2>2. CASE InReturns
    <3>1. tbuf' = <<>> /\ tbuf' \in Seq(1..RxBytes) /\ inPc' = "poll"
      BY <2>2 DEF InReturns
    <3>2. UNCHANGED <<rxQueue, arrived, passed>>
      BY <2>2 DEF InReturns
    <3>3. QED BY <3>1, <3>2
  <2>3. QED BY <1>3, <2>1, <2>2
<1>4. CASE RxByte
  <2>1. arrived' \in 1..RxBytes /\ UNCHANGED <<inPc, tbuf, passed>>
    BY <1>4 DEF RxByte
  <2>2. CASE Len(rxQueue) < RxQueueLength /\ rxQueue' = Append(rxQueue, arrived')
    <3>1. rxQueue' \in Seq(1..RxBytes) /\ Len(rxQueue') = Len(rxQueue) + 1
      BY <2>1, <2>2, AppendProperties
    <3>2. QED BY <2>1, <2>2, <3>1
  <2>3. CASE UNCHANGED rxQueue
    BY <2>1, <2>3
  <2>4. QED BY <1>4, <2>2, <2>3 DEF RxByte
<1>5. CASE AtReceives
  BY <1>5 DEF AtReceives
<1>6. CASE UNCHANGED <<input, rxQueue, arrived, passed>>
  BY <1>6
<1>7. CASE Begin \/ TransmitEnds \/ Overrun \/ ModeChanges \/ AtPrepares \/ AtTransmits
  BY <1>6, <1>7 DEF Begin, TcpipFrame, AppFrame, TaskFrame, TransmitEnds, Overrun, ModeChanges, AtPrepares, AtTransmits
<1>8. CASE RawOutput
  BY <1>6, <1>8 DEF RawOutput, OutPoll, OutReceive, OutTransmit, OutStart, OutFree
<1>9. CASE \E w \in Writers : Write(w)
  BY <1>6, <1>9 DEF Write, OutputCb, QueueSend
<1>10. CASE UNCHANGED vars
  BY <1>6, <1>10 DEF vars
<1>11. QED
  BY <1>1, <1>2, <1>3, <1>4, <1>5, <1>7, <1>8, <1>9, <1>10 DEF Next, RawInput, World

LEMMA BeginFrameTyped ==
  ASSUME WritersTyped, NEW w \in Writers, BeginFrame(w), written' = written
  PROVE  WritersTyped'
<1>1. PICK n \in 1..MaxChunks : left' = [left EXCEPT ![w] = n]
  <2>1. 1..FrameSize(w) \subseteq 1..MaxChunks
    BY BoundsAssumption DEF FrameSize
  <2>2. PICK n \in 1..FrameSize(w) : left' = [left EXCEPT ![w] = n]
    BY DEF BeginFrame
  <2>3. n \in 1..MaxChunks
    BY <2>1, <2>2
  <2>4. QED BY <2>2, <2>3
<1>2. /\ wrPc[w] = "idle" /\ frames[w] < Frames /\ wrPc' = [wrPc EXCEPT ![w] = "write"]
      /\ frames' = [frames EXCEPT ![w] = @ + 1]
  BY DEF BeginFrame
<1>3. /\ wrPc' \in [Writers -> {"idle", "write", "send"}]
      /\ left' \in [Writers -> 0..MaxChunks] /\ frames' \in [Writers -> 0..Frames]
      /\ written' \in [Writers -> Nat]
  BY <1>1, <1>2, BoundsAssumption DEF WritersTyped
<1>4. ASSUME NEW v \in Writers
      PROVE  /\ wrPc'[v] = "idle" <=> left'[v] = 0
             /\ wrPc'[v] = "send" => written'[v] >= 1
             /\ written'[v] + left'[v] <= Quota(frames'[v]) + Sending(v)'
  <2>1. CASE v = w
    <3>1. left'[v] = n /\ wrPc'[v] = "write" /\ frames'[v] = frames[v] + 1
      BY <1>1, <1>2, <2>1 DEF WritersTyped
    <3>2. written[v] <= Quota(frames[v]) /\ written[v] \in Nat /\ left[v] = 0
      <4>1. Sending(v) = 0 /\ left[v] = 0 /\ written[v] \in Nat /\ frames[v] \in Nat
        BY <1>2, <2>1 DEF WritersTyped, Sending
      <4>2. Quota(frames[v]) \in Nat
        BY <4>1, QuotaGrows
      <4>3. written[v] + left[v] <= Quota(frames[v]) + Sending(v)
        BY DEF WritersTyped
      <4>4. QED BY <4>1, <4>2, <4>3
    <3>3. /\ Quota(frames[v] + 1) = Quota(frames[v]) + MaxChunks
          /\ Quota(frames[v]) \in Nat /\ MaxChunks \in Nat
      BY QuotaGrows, BoundsAssumption DEF WritersTyped
    <3>4. Sending(v)' = 0
      BY <3>1 DEF Sending
    <3>5. written[v] + n <= Quota(frames[v] + 1) + 0
      BY <3>2, <3>3
    <3>6. QED BY <3>1, <3>4, <3>5
  <2>2. CASE v # w
    BY <1>1, <1>2, <2>2 DEF WritersTyped, Sending
  <2>3. QED BY <2>1, <2>2
<1>5. QED BY <1>3, <1>4 DEF WritersTyped

LEMMA WriteTyped ==
  ASSUME WritersTyped, NEW w \in Writers, Write(w)
  PROVE  WritersTyped'
<1>1. CASE OutputCb(w)
  <2>1. /\ wrPc[w] = "write" /\ wrPc' = [wrPc EXCEPT ![w] = "send"]
        /\ written' = [written EXCEPT ![w] = @ + 1] /\ UNCHANGED <<left, frames>>
    BY <1>1 DEF OutputCb
  <2>2. /\ wrPc' \in [Writers -> {"idle", "write", "send"}]
        /\ left' \in [Writers -> 0..MaxChunks] /\ frames' \in [Writers -> 0..Frames]
        /\ written' \in [Writers -> Nat]
    BY <2>1 DEF WritersTyped
  <2>3. ASSUME NEW v \in Writers
        PROVE  /\ wrPc'[v] = "idle" <=> left'[v] = 0
               /\ wrPc'[v] = "send" => written'[v] >= 1
               /\ written'[v] + left'[v] <= Quota(frames'[v]) + Sending(v)'
    <3>1. CASE v = w
      <4>1. Sending(v) = 0 /\ Sending(v)' = 1 /\ left[v] # 0 /\ written'[v] = written[v] + 1
        BY <2>1, <3>1 DEF WritersTyped, Sending
      <4>2. written[v] + left[v] <= Quota(frames[v]) + Sending(v) /\ Quota(frames[v]) \in Nat
            /\ written[v] \in Nat /\ left[v] \in Nat
        BY QuotaGrows DEF WritersTyped
      <4>3. (written[v] + 1) + left[v] <= Quota(frames[v]) + 1
        BY <4>1, <4>2
      <4>4. QED BY <2>1, <3>1, <4>1, <4>2, <4>3 DEF WritersTyped
    <3>2. CASE v # w
      BY <2>1, <3>2 DEF WritersTyped, Sending
    <3>3. QED BY <3>1, <3>2
  <2>4. QED BY <2>2, <2>3 DEF WritersTyped
<1>2. CASE QueueSend(w)
  <2>1. /\ wrPc[w] = "send" /\ left' = [left EXCEPT ![w] = @ - 1]
        /\ wrPc' = [wrPc EXCEPT ![w] = IF left[w] > 1 THEN "write" ELSE "idle"]
        /\ UNCHANGED <<written, frames>>
    BY <1>2 DEF QueueSend
  <2>2. left[w] \in 1..MaxChunks
    BY <2>1 DEF WritersTyped
  <2>3. /\ wrPc' \in [Writers -> {"idle", "write", "send"}]
        /\ left' \in [Writers -> 0..MaxChunks] /\ frames' \in [Writers -> 0..Frames]
        /\ written' \in [Writers -> Nat]
    BY <2>1, <2>2, BoundsAssumption DEF WritersTyped
  <2>4. ASSUME NEW v \in Writers
        PROVE  /\ wrPc'[v] = "idle" <=> left'[v] = 0
               /\ wrPc'[v] = "send" => written'[v] >= 1
               /\ written'[v] + left'[v] <= Quota(frames'[v]) + Sending(v)'
    <3>1. CASE v = w
      <4>1. /\ Sending(v) = 1 /\ Sending(v)' = 0 /\ left'[v] = left[v] - 1
            /\ wrPc'[v] = IF left[v] > 1 THEN "write" ELSE "idle"
        BY <2>1, <3>1 DEF WritersTyped, Sending
      <4>2. written[v] + left[v] <= Quota(frames[v]) + Sending(v) /\ Quota(frames[v]) \in Nat
            /\ written[v] \in Nat
        BY QuotaGrows DEF WritersTyped
      <4>3. written[v] + (left[v] - 1) <= Quota(frames[v]) + 0
        BY <2>2, <3>1, <4>1, <4>2
      <4>4. (left[v] - 1 = 0) <=> ~(left[v] > 1)
        BY <2>2, <3>1
      <4>5. QED BY <2>1, <4>1, <4>3, <4>4
    <3>2. CASE v # w
      BY <2>1, <3>2 DEF WritersTyped, Sending
    <3>3. QED BY <3>1, <3>2
  <2>5. QED BY <2>3, <2>4 DEF WritersTyped
<1>3. QED BY <1>1, <1>2 DEF Write
LEMMA WritersStep == WritersTyped /\ [Next]_vars => WritersTyped'
<1> SUFFICES ASSUME WritersTyped, [Next]_vars PROVE WritersTyped'
  OBVIOUS
<1>1. CASE UNCHANGED <<wrPc, left, frames, written>>
  BY <1>1 DEF WritersTyped, Sending
<1>2. CASE Begin
  BY <1>2, BeginFrameTyped DEF Begin, TcpipFrame, AppFrame, TaskFrame, Writers
<1>3. CASE RawOutput
  BY <1>1, <1>3 DEF RawOutput, OutPoll, OutReceive, OutTransmit, OutStart, OutFree, writer
<1>4. CASE RawInput
  <2>1. CASE InPass /\ BeginFrame("input")
    BY <2>1, BeginFrameTyped DEF InPass, Writers
  <2>2. CASE ~(InPass /\ BeginFrame("input"))
    BY <1>1, <1>4, <2>2 DEF RawInput, InPoll, InDrain, InPass, InReturns, writer
  <2>3. QED BY <2>1, <2>2
<1>5. CASE TransmitEnds \/ World \/ UNCHANGED vars
  BY <1>1, <1>5 DEF TransmitEnds, World, RxByte, Overrun, ModeChanges, AtPrepares,
     AtReceives, AtTransmits, writer, vars
<1>6. QED BY <1>2, <1>3, <1>4, <1>5, WriteTyped DEF Next

LEMMA OutputStep == Typed /\ [Next]_vars => OutputTyped'
<1> SUFFICES ASSUME Typed, [Next]_vars PROVE OutputTyped'
  OBVIOUS
<1> USE DEF Typed, OutputTyped
<1>1. CASE UNCHANGED <<queue, outPc, outChunk, uart, lastQueued, sent>>
  BY <1>1
<1>2. CASE RawOutput
  <2>1. CASE OutReceive
    <3>1. queue # <<>> /\ queue \in Seq(Chunks)
      BY <2>1 DEF OutReceive
    <3>2. /\ Head(queue) \in Chunks /\ Tail(queue) \in Seq(Chunks)
          /\ Len(Tail(queue)) <= Len(queue)
      BY <3>1
    <3>3. Len(Tail(queue)) <= QueueLength
      BY <3>1, <3>2, BoundsAssumption
    <3>4. QED BY <2>1, <3>2, <3>3 DEF OutReceive, line, writer
  <2>2. CASE OutStart
    <3>1. outChunk \in Chunks
      BY <2>2 DEF OutStart
    <3>2. outChunk.by \in Writers /\ outChunk.n \in 0..MaxWritten
      BY <3>1, BoundsAssumption DEF Chunks, MaxWritten
    <3>3. QED BY <2>2, <3>1, <3>2 DEF OutStart, writer
  <2>3. CASE OutPoll \/ OutTransmit
    BY <2>3 DEF OutPoll, OutTransmit, line, writer
  <2>4. CASE OutFree
    BY <2>4 DEF OutFree, line, writer
  <2>5. QED BY <1>2, <2>1, <2>2, <2>3, <2>4 DEF RawOutput
<1>3. CASE \E w \in Writers : Write(w)
  <2>1. PICK w \in Writers : Write(w)
    BY <1>3
  <2>2. CASE OutputCb(w)
    BY <1>1, <2>2 DEF OutputCb, output
  <2>3. CASE QueueSend(w)
    <3>1. written[w] \in 1..MaxWritten
      BY <2>3, WrittenBounded DEF QueueSend, WritersTyped
    <3>2. lastQueued' \in Chunks
      BY <2>3, <3>1 DEF QueueSend, Chunk, Chunks
    <3>3. queue' \in Seq(Chunks) /\ Len(queue') = Len(queue) + 1 /\ Len(queue) < QueueLength
      BY <2>3, <3>2, AppendProperties DEF QueueSend
    <3>4. Len(queue') <= QueueLength
      BY <3>3, BoundsAssumption
    <3>5. QED BY <2>3, <3>2, <3>3, <3>4 DEF QueueSend, output, line
  <2>4. QED BY <2>1, <2>2, <2>3 DEF Write
<1>4. CASE RawInput
  BY <1>1, <1>4 DEF RawInput, InPoll, InDrain, InPass, InReturns, writer, output, line
<1>5. CASE TransmitEnds
  BY <1>5 DEF TransmitEnds, writer, output
<1>6. CASE AtTransmits
  BY <1>6 DEF AtTransmits, writer, output
<1>7. CASE Begin \/ RxByte \/ Overrun \/ ModeChanges \/ AtPrepares \/ AtReceives
           \/ UNCHANGED vars
  BY <1>1, <1>7 DEF Begin, TcpipFrame, AppFrame, TaskFrame, RxByte, Overrun, ModeChanges, AtPrepares,
     AtReceives, writer, output, line, vars
<1>8. QED BY <1>2, <1>3, <1>4, <1>5, <1>6, <1>7 DEF Next, World

\* When one writer moves, the number of those that hold a buffer moves with it.
LEMMA SendersMove ==
  ASSUME wrPc \in [Writers -> {"idle", "write", "send"}], NEW w \in Writers,
         NEW x, wrPc' = [wrPc EXCEPT ![w] = x]
  PROVE  /\ Senders \in 0..4
         /\ wrPc[w] # "send" /\ x = "send" => Senders' = Senders + 1
         /\ wrPc[w] = "send" /\ x # "send" => Senders' = Senders - 1
         /\ (wrPc[w] = "send" <=> x = "send") => Senders' = Senders
<1>1. \A v \in Writers : Sending(v) \in 0..1 /\ (v # w => Sending(v)' = Sending(v))
  BY DEF Sending
<1>2. Sending(w) = (IF wrPc[w] = "send" THEN 1 ELSE 0) /\ Sending(w)' = (IF x = "send" THEN 1 ELSE 0)
  BY DEF Sending
<1>3. CASE w = "tcpip" BY <1>1, <1>2, <1>3 DEF Senders, Writers
<1>4. CASE w = "app" BY <1>1, <1>2, <1>4 DEF Senders, Writers
<1>5. CASE w = "input" BY <1>1, <1>2, <1>5 DEF Senders, Writers
<1>6. CASE w = "task" BY <1>1, <1>2, <1>6 DEF Senders, Writers
<1>7. QED BY <1>3, <1>4, <1>5, <1>6 DEF Writers

\* A buffer is allocated, queued, received, sent from and freed.
LEMMA HeapStep == Typed /\ [Next]_vars => HeapCounted'
<1> SUFFICES ASSUME Typed, [Next]_vars PROVE HeapCounted'
  OBVIOUS
<1>0. /\ queue \in Seq(Chunks) /\ wrPc \in [Writers -> {"idle", "write", "send"}]
      /\ Len(queue) \in Nat /\ Holding \in 0..1 /\ Senders \in 0..4
      /\ heap = Len(queue) + Senders + Holding
  <2>1. /\ queue \in Seq(Chunks) /\ wrPc \in [Writers -> {"idle", "write", "send"}]
        /\ heap = Len(queue) + Senders + Holding
    BY DEF Typed, OutputTyped, WritersTyped, HeapCounted
  <2>2. Len(queue) \in Nat BY <2>1
  <2>3. Holding \in 0..1 BY DEF Holding
  <2>4. \A w \in Writers : Sending(w) \in 0..1 BY DEF Sending
  <2>5. Senders \in 0..4
    <3>1. /\ Sending("tcpip") \in 0..1 /\ Sending("app") \in 0..1
          /\ Sending("input") \in 0..1 /\ Sending("task") \in 0..1
      BY <2>4 DEF Writers
    <3>2. QED BY <3>1 DEF Senders
  <2>6. QED BY <2>1, <2>2, <2>3, <2>5
<1>1. CASE UNCHANGED <<heap, queue>> /\ Holding' = Holding /\ Senders' = Senders
  BY <1>0, <1>1 DEF HeapCounted
<1>2. ASSUME NEW w \in Writers, BeginFrame(w), UNCHANGED <<heap, queue, outPc>>
      PROVE  HeapCounted'
  <2>1. wrPc[w] # "send" /\ wrPc' = [wrPc EXCEPT ![w] = "write"]
    BY <1>2 DEF BeginFrame
  <2>2. Senders' = Senders
    <3>1. (wrPc[w] = "send") <=> ("write" = "send")
      BY <2>1
    <3>2. QED BY <1>0, <2>1, <3>1, SendersMove
  <2>3. Holding' = Holding
    BY <1>2 DEF Holding
  <2>4. QED BY <1>1, <1>2, <2>2, <2>3
<1>3. CASE RawOutput
  <2>0. wrPc' = wrPc /\ Senders' = Senders
    BY <1>3 DEF RawOutput, OutPoll, OutReceive, OutTransmit, OutStart, OutFree, writer,
       Senders, Sending
  <2>1. CASE OutReceive
    <3>1. Len(queue') = Len(queue) - 1 /\ Len(queue) > 0
      BY <1>0, <2>1 DEF OutReceive
    <3>2. Holding = 0 /\ Holding' = 1 /\ heap' = heap
      BY <2>1 DEF OutReceive, Holding
    <3>3. QED BY <1>0, <2>0, <3>1, <3>2 DEF HeapCounted
  <2>2. CASE OutFree
    <3>1. Holding = 1 /\ Holding' = 0 /\ heap' = heap - 1 /\ queue' = queue
      BY <2>2 DEF OutFree, Holding
    <3>2. QED BY <1>0, <2>0, <3>1 DEF HeapCounted
  <2>3. CASE OutPoll \/ OutTransmit \/ OutStart
    BY <1>1, <2>0, <2>3 DEF OutPoll, OutTransmit, OutStart, Holding
  <2>4. QED BY <1>3, <2>1, <2>2, <2>3 DEF RawOutput
<1>4. ASSUME NEW w \in Writers, Write(w) PROVE HeapCounted'
  <2>1. CASE OutputCb(w)
    <3>1. /\ heap' = heap + 1 /\ queue' = queue /\ Holding' = Holding
          /\ wrPc[w] = "write" /\ wrPc' = [wrPc EXCEPT ![w] = "send"]
      BY <2>1 DEF OutputCb, Holding, output
    <3>2. Senders' = Senders + 1
      BY <1>0, <3>1, SendersMove
    <3>3. QED BY <1>0, <3>1, <3>2 DEF HeapCounted
  <2>2. CASE QueueSend(w)
    <3>1. /\ heap' = heap /\ queue' = Append(queue, lastQueued') /\ Holding' = Holding
          /\ wrPc[w] = "send"
          /\ wrPc' = [wrPc EXCEPT ![w] = IF left[w] > 1 THEN "write" ELSE "idle"]
      BY <2>2 DEF QueueSend, Holding, output
    <3>2. Len(queue') = Len(queue) + 1
      BY <1>0, <3>1
    <3>3. Senders' = Senders - 1
      <4>1. PICK x \in {"write", "idle"} : wrPc' = [wrPc EXCEPT ![w] = x]
        BY <3>1
      <4>2. x # "send"
        BY <4>1
      <4>3. QED BY <1>0, <3>1, <4>1, <4>2, SendersMove
    <3>4. QED BY <1>0, <3>1, <3>2, <3>3 DEF HeapCounted
  <2>3. QED BY <1>4, <2>1, <2>2 DEF Write
<1>5. CASE Begin
  BY <1>2, <1>5 DEF Begin, TcpipFrame, AppFrame, TaskFrame, output, Writers
<1>6. CASE RawInput
  <2>1. CASE InPass /\ BeginFrame("input")
    BY <1>2, <2>1 DEF InPass, output, Writers
  <2>2. CASE ~(InPass /\ BeginFrame("input"))
    BY <1>1, <1>6, <2>2 DEF RawInput, InPass, InPoll, InDrain, InReturns, Holding, Senders,
       Sending, output, writer
  <2>3. QED BY <2>1, <2>2
<1>7. CASE TransmitEnds \/ World \/ UNCHANGED vars
  BY <1>1, <1>7 DEF TransmitEnds, World, RxByte, Overrun, ModeChanges, AtPrepares,
     AtReceives, AtTransmits, Holding, Senders, Sending, output, writer, vars
<1>8. QED BY <1>3, <1>4, <1>5, <1>6, <1>7 DEF Next

LEMMA TypedInductive == Spec => []Typed
<1>1. Typed /\ [Next]_vars => Typed'
  BY FlagsStep, InputStep, WritersStep, OutputStep, HeapStep DEF Typed
<1>2. QED BY InitTyped, <1>1, PTL DEF Spec

\* gsmPPP.c: the types; and the buffers of output_cb, whose malloc is not checked,
\* are never more than one for each place of the queue, each writer and the task
\* that transmits.
THEOREM TypeCorrect == Spec => []TypeOK
<1>1. Typed => TypeOK
  <2> SUFFICES ASSUME Typed PROVE TypeOK
    OBVIOUS
  <2>1. mode \in BOOLEAN /\ armed \in BOOLEAN /\ spoilt \in BOOLEAN
    BY DEF Typed, FlagsTyped
  <2>2. /\ inPc \in {"poll", "drain", "pass", "answer"}
        /\ tbuf \in Seq(1..RxBytes) /\ Len(tbuf) <= TbufLength
        /\ rxQueue \in Seq(1..RxBytes) /\ Len(rxQueue) <= RxQueueLength
        /\ arrived \in 0..RxBytes /\ passed \in 0..RxBytes
    BY BoundsAssumption DEF Typed, InputTyped
  <2>3. /\ wrPc \in [Writers -> {"idle", "write", "send"}]
        /\ left \in [Writers -> 0..MaxChunks] /\ frames \in [Writers -> 0..Frames]
        /\ written \in [Writers -> 0..MaxWritten]
    BY WrittenBounded DEF Typed, WritersTyped
  <2>4. heap \in 0..QueueLength + Cardinality(Writers) + 1
    <3>1. Cardinality(Writers) = 4
      <4>1. Cardinality({"tcpip"}) = 1 /\ IsFiniteSet({"tcpip"})
        BY FS_Singleton
      <4>2. Cardinality({"tcpip", "app"}) = 2 /\ IsFiniteSet({"tcpip", "app"})
        BY <4>1, FS_AddElement, {"tcpip", "app"} = {"tcpip"} \cup {"app"}
      <4>3. Cardinality({"tcpip", "app", "input"}) = 3 /\ IsFiniteSet({"tcpip", "app", "input"})
        BY <4>2, FS_AddElement, {"tcpip", "app", "input"} = {"tcpip", "app"} \cup {"input"}
      <4>4. Writers = {"tcpip", "app", "input"} \cup {"task"}
        BY DEF Writers
      <4>5. QED BY <4>3, <4>4, FS_AddElement
    <3>2. /\ Senders \in 0..4 /\ Holding \in 0..1
          /\ Len(queue) \in Nat /\ Len(queue) <= QueueLength /\ QueueLength \in Nat
      BY BoundsAssumption DEF Senders, Sending, Holding, Typed, OutputTyped
    <3>3. QED BY <3>1, <3>2 DEF Typed, HeapCounted
  <2>5. QED BY <2>1, <2>2, <2>3, <2>4 DEF Typed, OutputTyped, TypeOK
<1>2. QED BY TypedInductive, <1>1, PTL

-----------------------------------------------------------------------------
(* The order of the chunks.                                                  *)

\* The chunks of w in the queue are those from lo + 1 to hi, in this order.
InLine(q, w, lo, hi) ==
  /\ \A i, j \in 1..Len(q) : i < j /\ q[i].by = w /\ q[j].by = w => q[i].n < q[j].n
  /\ \A i \in 1..Len(q) : q[i].by = w => lo < q[i].n /\ q[i].n <= hi
  /\ \A m \in lo+1..hi : \E i \in 1..Len(q) : q[i].by = w /\ q[i].n = m

LEMMA ChunkNumbers == \A c \in Chunks : c.n \in Nat
  BY DEF Chunks

LEMMA LineShrinks ==
  ASSUME NEW q \in Seq(Chunks), q # <<>>, NEW w, NEW lo \in Nat, NEW hi \in Nat,
         InLine(q, w, lo, hi), NEW t, t = Tail(q)
  PROVE  /\ Head(q).by # w => InLine(t, w, lo, hi)
         /\ Head(q).by = w => Head(q).n = lo + 1 /\ InLine(t, w, lo + 1, hi)
<1>1. PICK k \in Nat : k = Len(q)
  OBVIOUS
<1>2. k # 0 /\ Head(q) = q[1] /\ \A i \in 1..k : q[i].n \in Nat
  <2>1. \A i \in 1..k : q[i] \in Chunks
    BY <1>1
  <2>2. QED BY <1>1, <2>1, ChunkNumbers
<1>3. Len(t) = k - 1 /\ \A i \in 1..k-1 : t[i] = q[i+1] /\ i+1 \in 1..k
  BY <1>1, <1>2
<1>4. \A i, j \in 1..Len(t) : i < j /\ t[i].by = w /\ t[j].by = w => t[i].n < t[j].n
  BY <1>1, <1>3 DEF InLine
<1>5. \A i \in 1..Len(t) : t[i].by = w => lo < t[i].n /\ t[i].n <= hi
  BY <1>1, <1>3 DEF InLine
<1>6. ASSUME NEW m \in lo+1..hi, Head(q).by = w => Head(q).n # m
      PROVE  \E i \in 1..Len(t) : t[i].by = w /\ t[i].n = m
  <2>1. PICK i \in 1..k : q[i].by = w /\ q[i].n = m
    BY <1>1 DEF InLine
  <2>2. i # 1
    BY <1>2, <1>6, <2>1
  <2>3. i-1 \in 1..k-1 /\ (i-1)+1 = i
    BY <2>2
  <2>4. t[i-1] = q[i]
    BY <1>3, <2>3
  <2>5. QED BY <1>3, <2>1, <2>3, <2>4
<1>7. CASE Head(q).by # w
  BY <1>4, <1>5, <1>6, <1>7 DEF InLine
<1>8. CASE Head(q).by = w
  <2>1. lo < q[1].n /\ q[1].n <= hi /\ q[1].by = w /\ q[1].n \in Nat
    BY <1>1, <1>2, <1>8 DEF InLine
  <2>2. q[1].n = lo + 1
    <3>1. lo + 1 \in lo+1..hi
      BY <2>1
    <3>2. PICK i \in 1..k : q[i].by = w /\ q[i].n = lo + 1
      BY <1>1, <3>1 DEF InLine
    <3>3. CASE i = 1
      BY <3>2, <3>3
    <3>4. CASE i # 1
      <4>1. 1 \in 1..k /\ 1 < i
        BY <1>2, <3>4
      <4>2. q[1].n < lo + 1
        BY <1>1, <2>1, <3>2, <4>1 DEF InLine
      <4>3. QED BY <2>1, <4>2
    <3>5. QED BY <3>3, <3>4
  <2>3. \A i \in 1..Len(t) : t[i].by = w => lo + 1 < t[i].n
    <3> SUFFICES ASSUME NEW i \in 1..k-1, t[i].by = w PROVE lo + 1 < t[i].n
      BY <1>3
    <3>1. t[i] = q[i+1] /\ i+1 \in 1..k /\ 1 \in 1..k /\ 1 < i+1
      BY <1>2, <1>3
    <3>2. q[1].n < q[i+1].n
      BY <1>1, <2>1, <3>1 DEF InLine
    <3>3. QED BY <2>2, <3>1, <3>2
  <2>5. ASSUME NEW m \in (lo+1)+1..hi
        PROVE  \E i \in 1..Len(t) : t[i].by = w /\ t[i].n = m
    <3>1. m \in lo+1..hi /\ Head(q).n # m
      BY <1>2, <2>2
    <3>2. QED BY <1>6, <3>1
  <2>6. InLine(t, w, lo + 1, hi)
    BY <1>4, <1>5, <2>3, <2>5 DEF InLine
  <2>7. QED BY <1>2, <1>8, <2>2, <2>6
<1>9. QED BY <1>7, <1>8

LEMMA LineGrows ==
  ASSUME NEW q \in Seq(Chunks), NEW w, NEW lo \in Nat, NEW hi \in Nat, lo <= hi,
         InLine(q, w, lo, hi), NEW c, NEW t, t = Append(q, c)
  PROVE  /\ c.by # w => InLine(t, w, lo, hi)
         /\ c.by = w /\ c.n = hi + 1 => InLine(t, w, lo, hi + 1)
<1>1. PICK k \in Nat : k = Len(q)
  OBVIOUS
<1>2. /\ Len(t) = k + 1 /\ t[k+1] = c /\ k+1 \in 1..k+1
      /\ \A i \in 1..k : t[i] = q[i] /\ i \in 1..k+1
      /\ \A i \in 1..k+1 : i \in 1..k \/ i = k+1
  BY <1>1
<1>3. \A i \in 1..k : q[i].n \in Nat
  <2>1. \A i \in 1..k : q[i] \in Chunks
    BY <1>1
  <2>2. QED BY <2>1, ChunkNumbers
<1>4. CASE c.by # w
  <2>1. \A i \in 1..k+1 : t[i].by = w => i \in 1..k
    BY <1>2, <1>4
  <2>2. \A i, j \in 1..k+1 : i < j /\ t[i].by = w /\ t[j].by = w => t[i].n < t[j].n
    BY <1>1, <1>2, <2>1 DEF InLine
  <2>3. \A i \in 1..k+1 : t[i].by = w => lo < t[i].n /\ t[i].n <= hi
    BY <1>1, <1>2, <2>1 DEF InLine
  <2>4. \A m \in lo+1..hi : \E i \in 1..k+1 : t[i].by = w /\ t[i].n = m
    <3> TAKE m \in lo+1..hi
    <3>1. PICK i \in 1..k : q[i].by = w /\ q[i].n = m
      BY <1>1 DEF InLine
    <3>2. QED BY <1>2, <3>1
  <2>5. QED BY <1>2, <1>4, <2>2, <2>3, <2>4 DEF InLine
<1>5. CASE c.by = w /\ c.n = hi + 1
  <2>1. \A i \in 1..k : q[i].by = w => lo < q[i].n /\ q[i].n <= hi
    BY <1>1 DEF InLine
  <2>2. ASSUME NEW i \in 1..k+1, NEW j \in 1..k+1, i < j, t[i].by = w, t[j].by = w
        PROVE  t[i].n < t[j].n
    <3>1. i \in 1..k /\ t[i] = q[i]
      BY <1>2, <2>2
    <3>2. CASE j = k+1
      BY <1>2, <1>3, <1>5, <2>1, <2>2, <3>1, <3>2
    <3>3. CASE j \in 1..k
      BY <1>1, <1>2, <2>2, <3>1, <3>3 DEF InLine
    <3>4. QED BY <1>2, <3>2, <3>3
  <2>3. ASSUME NEW i \in 1..k+1, t[i].by = w PROVE lo < t[i].n /\ t[i].n <= hi + 1
    <3>1. CASE i \in 1..k
      BY <1>2, <1>3, <2>1, <2>3, <3>1
    <3>2. CASE i = k+1
      BY <1>2, <1>5, <3>2
    <3>3. QED BY <1>2, <3>1, <3>2
  <2>4. ASSUME NEW m \in lo+1..hi+1 PROVE \E i \in 1..k+1 : t[i].by = w /\ t[i].n = m
    <3>1. CASE m = hi + 1
      BY <1>2, <1>5, <3>1
    <3>2. CASE m # hi + 1
      <4>1. m \in lo+1..hi
        BY <3>2
      <4>2. PICK i \in 1..k : q[i].by = w /\ q[i].n = m
        BY <1>1, <4>1 DEF InLine
      <4>3. QED BY <1>2, <4>2
    <3>3. QED BY <3>1, <3>2
  <2>5. QED BY <1>2, <1>5, <2>2, <2>3, <2>4 DEF InLine
<1>6. QED BY <1>4, <1>5

\* What was given to the UART or is about to be, and what is in the queue or before.
Taken(w) == sent[w] + (IF outPc \in {"transmit", "locked"} /\ outChunk.by = w THEN 1 ELSE 0)
Queued(w) == written[w] - Sending(w)

ChunksInLine ==
  \A w \in Writers :
    /\ Taken(w) <= Queued(w)
    /\ InLine(queue, w, Taken(w), Queued(w))
    /\ outPc \in {"transmit", "locked"} /\ outChunk.by = w => outChunk.n = sent[w] + 1

LEMMA LinesTyped ==
  ASSUME Typed, NEW w \in Writers
  PROVE  Taken(w) \in Nat /\ Queued(w) \in Nat /\ sent[w] \in Nat /\ written[w] \in Nat
<1>1. sent[w] \in Nat
  BY BoundsAssumption DEF Typed, OutputTyped, MaxWritten
<1>2. written[w] \in Nat /\ (wrPc[w] = "send" => written[w] >= 1)
  BY DEF Typed, WritersTyped
<1>3. QED BY <1>1, <1>2 DEF Taken, Queued, Sending

\* A chunk is sent only as the next one of its writer.
SentNext == \A w \in Writers : sent'[w] # sent[w] => sent'[w] = sent[w] + 1

LEMMA LinesRest ==
  ASSUME ChunksInLine, queue' = queue, sent' = sent,
         \A w \in Writers : Taken(w)' = Taken(w) /\ Queued(w)' = Queued(w),
         outPc' \in {"transmit", "locked"} =>
           outPc \in {"transmit", "locked"} /\ outChunk' = outChunk
  PROVE  ChunksInLine' /\ SentNext
  BY DEF ChunksInLine, InLine, SentNext

LEMMA InitInLine == Init => ChunksInLine
<1> SUFFICES ASSUME Init PROVE ChunksInLine
  OBVIOUS
<1>1. \A w \in Writers : Taken(w) = 0 /\ Queued(w) = 0
  BY DEF Init, Taken, Queued, Sending
<1>2. \A w : InLine(<<>>, w, 0, 0)
  BY DEF InLine
<1>3. queue = <<>> /\ outPc = "poll"
  BY DEF Init
<1>4. QED BY <1>1, <1>2, <1>3 DEF ChunksInLine

LEMMA LinesStep == Typed /\ ChunksInLine /\ [Next]_vars => ChunksInLine' /\ SentNext
<1> SUFFICES ASSUME Typed, ChunksInLine, [Next]_vars PROVE ChunksInLine' /\ SentNext
  OBVIOUS
<1>1. CASE UNCHANGED <<queue, sent, outPc, outChunk, written>>
           /\ \A w \in Writers : wrPc'[w] = "send" <=> wrPc[w] = "send"
  BY <1>1, LinesRest DEF Taken, Queued, Sending
<1>2. CASE OutReceive
  <2>1. /\ outPc = "receive" /\ outPc' = "transmit" /\ queue # <<>>
        /\ outChunk' = Head(queue) /\ queue' = Tail(queue) /\ UNCHANGED <<sent, written, wrPc>>
    BY <1>2 DEF OutReceive, writer
  <2>2. PICK t : t = queue'
    OBVIOUS
  <2>3. queue \in Seq(Chunks)
    BY DEF Typed, OutputTyped
  <2>4. ASSUME NEW w \in Writers
        PROVE  /\ Taken(w)' <= Queued(w)' /\ InLine(t, w, Taken(w)', Queued(w)')
               /\ outChunk'.by = w => outChunk'.n = sent[w] + 1
    <3>1. /\ Taken(w) = sent[w] /\ Queued(w)' = Queued(w) /\ sent[w] \in Nat
          /\ Queued(w) \in Nat
      BY <2>1, LinesTyped DEF Taken, Queued, Sending
    <3>2. InLine(queue, w, sent[w], Queued(w)) /\ sent[w] <= Queued(w)
      BY <3>1 DEF ChunksInLine
    <3>3. /\ Head(queue).by # w => InLine(t, w, sent[w], Queued(w))
          /\ Head(queue).by = w =>
               Head(queue).n = sent[w] + 1 /\ InLine(t, w, sent[w] + 1, Queued(w))
      BY <2>1, <2>2, <2>3, <3>1, <3>2, LineShrinks
    <3>4. CASE Head(queue).by # w
      <4>1. Taken(w)' = sent[w]
        BY <2>1, <3>1, <3>4 DEF Taken
      <4>2. QED BY <2>1, <3>1, <3>2, <3>3, <3>4, <4>1
    <3>5. CASE Head(queue).by = w
      <4>1. Taken(w)' = sent[w] + 1
        BY <2>1, <3>5 DEF Taken
      <4>2. sent[w] + 1 <= Queued(w)
        <5>1. 1 \in 1..Len(queue) /\ queue[1] = Head(queue)
          BY <2>1, <2>3
        <5>2. queue[1].n <= Queued(w)
          BY <3>2, <3>5, <5>1 DEF InLine
        <5>3. QED BY <3>3, <3>5, <5>1, <5>2
      <4>3. QED BY <2>1, <3>1, <3>3, <3>5, <4>1, <4>2
    <3>6. QED BY <3>4, <3>5
  <2>5. QED BY <2>1, <2>2, <2>4 DEF ChunksInLine, SentNext
<1>3. CASE OutStart
  <2>1. /\ outPc = "locked" /\ outPc' = "free" /\ UNCHANGED <<queue, outChunk, written, wrPc>>
        /\ sent' = [sent EXCEPT ![outChunk.by] = outChunk.n]
    BY <1>3 DEF OutStart, writer
  <2>2. sent \in [Writers -> 0..MaxWritten] /\ outChunk.by \in Writers
    BY <2>1 DEF Typed, OutputTyped, Chunks
  <2>3. outChunk.n = sent[outChunk.by] + 1
    BY <2>1, <2>2 DEF ChunksInLine
  <2>4. ASSUME NEW w \in Writers
        PROVE  /\ Taken(w)' = Taken(w) /\ Queued(w)' = Queued(w)
               /\ sent'[w] = sent[w] \/ sent'[w] = sent[w] + 1
    <3>1. sent[w] \in Nat
      BY LinesTyped
    <3>2. CASE w = outChunk.by
      <4>1. sent'[w] = sent[w] + 1
        BY <2>1, <2>2, <2>3, <3>2
      <4>2. Taken(w) = sent[w] + 1 /\ Taken(w)' = sent'[w] + 0
        BY <2>1, <3>2 DEF Taken
      <4>3. QED BY <2>1, <3>1, <4>1, <4>2 DEF Queued, Sending
    <3>3. CASE w # outChunk.by
      BY <2>1, <2>2, <3>1, <3>3 DEF Taken, Queued, Sending
    <3>4. QED BY <3>2, <3>3
  <2>5. QED BY <2>1, <2>4 DEF ChunksInLine, InLine, SentNext
<1>4. CASE OutPoll \/ OutTransmit \/ OutFree
  <2>1. /\ UNCHANGED <<queue, sent, written, wrPc>>
        /\ \/ outPc = "transmit" /\ outPc' = "locked" /\ outChunk' = outChunk
           \/ outPc \in {"poll", "free"} /\ outPc' = "receive"
    BY <1>4 DEF OutPoll, OutTransmit, OutFree, writer
  <2>2. \A w \in Writers : Taken(w)' = Taken(w) /\ Queued(w)' = Queued(w)
    BY <2>1 DEF Taken, Queued, Sending
  <2>3. outPc' \in {"transmit", "locked"} =>
          outPc \in {"transmit", "locked"} /\ outChunk' = outChunk
    BY <2>1
  <2>4. QED BY <2>1, <2>2, <2>3, LinesRest
<1>5. CASE \E w \in Writers : OutputCb(w)
  <2>1. PICK w \in Writers : OutputCb(w)
    BY <1>5
  <2>2. /\ wrPc[w] = "write" /\ wrPc' = [wrPc EXCEPT ![w] = "send"]
        /\ written' = [written EXCEPT ![w] = @ + 1]
        /\ UNCHANGED <<queue, sent, outPc, outChunk>>
    BY <2>1 DEF OutputCb, output
  <2>3. ASSUME NEW v \in Writers PROVE Taken(v)' = Taken(v) /\ Queued(v)' = Queued(v)
    <3>1. written[v] \in Nat
      BY LinesTyped
    <3>2. CASE v = w
      <4>1. Sending(v) = 0 /\ Sending(v)' = 1 /\ written'[v] = written[v] + 1
        BY <2>2, <3>2 DEF Typed, WritersTyped, Sending
      <4>2. QED BY <2>2, <3>1, <4>1 DEF Taken, Queued
    <3>3. CASE v # w
      BY <2>2, <3>3 DEF Typed, WritersTyped, Taken, Queued, Sending
    <3>4. QED BY <3>2, <3>3
  <2>4. QED BY <2>2, <2>3, LinesRest
<1>6. CASE \E w \in Writers : QueueSend(w)
  <2>1. PICK w \in Writers : QueueSend(w)
    BY <1>6
  <2>2. PICK c : c = Chunk(w, written[w], left[w] > 1)
    OBVIOUS
  <2>3. /\ wrPc[w] = "send" /\ queue' = Append(queue, c) /\ written' = written
        /\ wrPc' = [wrPc EXCEPT ![w] = IF left[w] > 1 THEN "write" ELSE "idle"]
        /\ UNCHANGED <<sent, outPc, outChunk>>
    BY <2>1, <2>2 DEF QueueSend, output
  <2>4. c.by = w /\ c.n = written[w]
    BY <2>2 DEF Chunk
  <2>5. PICK t : t = queue'
    OBVIOUS
  <2>6. queue \in Seq(Chunks)
    BY DEF Typed, OutputTyped
  <2>7. ASSUME NEW v \in Writers
        PROVE  /\ Taken(v)' = Taken(v) /\ Taken(v) <= Queued(v)'
               /\ InLine(t, v, Taken(v), Queued(v)')
    <3>1. /\ Taken(v) \in Nat /\ Queued(v) \in Nat /\ Taken(v) <= Queued(v)
          /\ InLine(queue, v, Taken(v), Queued(v)) /\ written[v] \in Nat
      BY LinesTyped DEF ChunksInLine
    <3>2. Taken(v)' = Taken(v)
      BY <2>3 DEF Taken
    <3>3. t = Append(queue, c)
      BY <2>3, <2>5
    <3>4. /\ c.by # v => InLine(t, v, Taken(v), Queued(v))
          /\ c.by = v /\ c.n = Queued(v) + 1 => InLine(t, v, Taken(v), Queued(v) + 1)
      BY <2>6, <3>1, <3>3, LineGrows
    <3>5. CASE v = w
      <4>1. Sending(v) = 1 /\ Sending(v)' = 0
        BY <2>3, <3>5 DEF Typed, WritersTyped, Sending
      <4>2. Queued(v)' = Queued(v) + 1 /\ c.n = Queued(v) + 1
        BY <2>3, <2>4, <3>1, <3>5, <4>1 DEF Queued
      <4>3. Taken(v) <= Queued(v) + 1
        BY <3>1
      <4>4. QED BY <2>4, <3>2, <3>4, <3>5, <4>2, <4>3
    <3>6. CASE v # w
      <4>1. Queued(v)' = Queued(v)
        BY <2>3, <3>6 DEF Typed, WritersTyped, Queued, Sending
      <4>2. QED BY <2>4, <3>1, <3>2, <3>4, <3>6, <4>1
    <3>7. QED BY <3>5, <3>6
  <2>8. QED BY <2>3, <2>5, <2>7 DEF ChunksInLine, SentNext
<1>7. CASE Begin
  BY <1>1, <1>7 DEF Begin, TcpipFrame, AppFrame, TaskFrame, BeginFrame, output, Typed, WritersTyped
<1>8. CASE RawInput
  <2>1. CASE InPass
    BY <1>1, <2>1 DEF InPass, BeginFrame, output, Typed, WritersTyped
  <2>2. CASE InPoll \/ InDrain \/ InReturns
    BY <1>1, <2>2 DEF InPoll, InDrain, InReturns, output, writer
  <2>3. QED BY <1>8, <2>1, <2>2 DEF RawInput
<1>9. CASE TransmitEnds \/ World \/ UNCHANGED vars
  BY <1>1, <1>9 DEF TransmitEnds, World, RxByte, Overrun, ModeChanges, AtPrepares,
     AtReceives, AtTransmits, output, writer, vars
<1>10. QED
  BY <1>2, <1>3, <1>4, <1>5, <1>6, <1>7, <1>8, <1>9 DEF Next, RawOutput, Write

\* gsmPPP.c: what a thread hands to output_cb goes to the UART once and in this order,
\* over a full queue, a busy transmitter and changes of the mode.
THEOREM ChunksAreSentInOrder == Spec => SentInOrder
<1>1. Typed /\ ChunksInLine /\ [Next]_vars => ChunksInLine'
  BY LinesStep
<1>2. Typed /\ ChunksInLine /\ [Next]_vars
        => [\A w \in Writers : sent'[w] # sent[w] => sent'[w] = sent[w] + 1]_vars
  BY LinesStep DEF SentNext
<1>3. QED BY InitInLine, TypedInductive, <1>1, <1>2, PTL DEF Spec, SentInOrder

-----------------------------------------------------------------------------
(* The order of the bytes.                                                   *)

Increasing(s) == \A i, j \in 1..Len(s) : i < j => s[i] < s[j]
AllAbove(n, s) == \A i \in 1..Len(s) : n < s[i]
AllBelow(s, n) == \A i \in 1..Len(s) : s[i] < n
Before(s, t) == \A i \in 1..Len(s) : AllAbove(s[i], t)

\* Along the way of a byte (rxQueue, tbuf, pppos_input), what is further is older.
BytesRise ==
  /\ Increasing(tbuf) /\ Increasing(rxQueue) /\ Before(tbuf, rxQueue)
  /\ AllAbove(passed, rxQueue) /\ (inPc # "answer" => AllAbove(passed, tbuf))
  /\ AllBelow(tbuf, arrived + 1) /\ AllBelow(rxQueue, arrived + 1) /\ passed <= arrived

LEMMA TailRises ==
  ASSUME NEW s \in Seq(Nat), s # <<>>, NEW t, t = Tail(s), Increasing(s)
  PROVE  /\ Increasing(t) /\ AllAbove(Head(s), t)
         /\ \A n \in Nat : /\ AllAbove(n, s) => AllAbove(n, t) /\ n < Head(s)
                           /\ AllBelow(s, n) => AllBelow(t, n) /\ Head(s) < n
<1>1. PICK k \in Nat : k = Len(s)
  OBVIOUS
<1>2. k # 0 /\ Head(s) = s[1] /\ 1 \in 1..k
  BY <1>1
<1>3. Len(t) = k - 1 /\ \A i \in 1..k-1 : t[i] = s[i+1] /\ i+1 \in 1..k /\ 1 < i+1
  BY <1>1, <1>2
<1>4. Increasing(t)
  BY <1>1, <1>3 DEF Increasing
<1>5. AllAbove(Head(s), t)
  BY <1>1, <1>2, <1>3 DEF AllAbove, Increasing
<1>6. ASSUME NEW n \in Nat
      PROVE  /\ AllAbove(n, s) => AllAbove(n, t) /\ n < Head(s)
             /\ AllBelow(s, n) => AllBelow(t, n) /\ Head(s) < n
  BY <1>1, <1>2, <1>3 DEF AllAbove, AllBelow
<1>7. QED BY <1>4, <1>5, <1>6

LEMMA AppendRises ==
  ASSUME NEW s \in Seq(Nat), NEW x \in Nat, NEW t, t = Append(s, x), Increasing(s),
         AllBelow(s, x)
  PROVE  /\ Increasing(t)
         /\ \A n \in Nat : /\ AllAbove(n, s) /\ n < x => AllAbove(n, t)
                           /\ AllBelow(s, n) /\ x < n => AllBelow(t, n)
<1>1. PICK k \in Nat : k = Len(s)
  OBVIOUS
<1>2. /\ Len(t) = k + 1 /\ t[k+1] = x /\ \A i \in 1..k : t[i] = s[i]
      /\ \A i \in 1..k+1 : i \in 1..k \/ i = k+1
  BY <1>1
<1>3. Increasing(t)
  <2> SUFFICES ASSUME NEW i \in 1..k+1, NEW j \in 1..k+1, i < j PROVE t[i] < t[j]
    BY <1>2 DEF Increasing
  <2>1. i \in 1..k /\ t[i] = s[i]
    BY <1>2
  <2>2. CASE j = k+1
    BY <1>1, <1>2, <2>1, <2>2 DEF AllBelow
  <2>3. CASE j \in 1..k
    BY <1>1, <1>2, <2>1, <2>3 DEF Increasing
  <2>4. QED BY <1>2, <2>2, <2>3
<1>4. ASSUME NEW n \in Nat
      PROVE  /\ AllAbove(n, s) /\ n < x => AllAbove(n, t)
             /\ AllBelow(s, n) /\ x < n => AllBelow(t, n)
  BY <1>1, <1>2 DEF AllAbove, AllBelow
<1>5. QED BY <1>3, <1>4

LEMMA JoinBefore ==
  ASSUME NEW s \in Seq(Nat), NEW t \in Seq(Nat), NEW u, u = s \o t, NEW r,
         Before(s, r), Before(t, r)
  PROVE  Before(u, r)
<1>1. PICK k \in Nat, m \in Nat : k = Len(s) /\ m = Len(t)
  OBVIOUS
<1>2. u \in Seq(Nat) /\ Len(u) = k + m
  BY <1>1
<1>3. /\ \A i \in 1..k : u[i] = s[i]
      /\ \A i \in k+1..k+m : u[i] = t[i-k] /\ i-k \in 1..m
  BY <1>1
<1>4. ASSUME NEW i \in 1..k+m PROVE AllAbove(u[i], r)
  <2>1. CASE i \in 1..k
    BY <1>1, <1>3, <2>1 DEF Before
  <2>2. CASE i \in k+1..k+m
    <3>1. PICK a \in 1..m : a = i-k
      BY <1>3, <2>2
    <3>2. u[i] = t[a] /\ AllAbove(t[a], r)
      BY <1>1, <1>3, <2>2, <3>1 DEF Before
    <3>3. QED BY <3>2
  <2>3. i \in 1..k \/ i \in k+1..k+m
    OBVIOUS
  <2>4. QED BY <2>1, <2>2, <2>3
<1>5. QED BY <1>2, <1>4 DEF Before

LEMMA JoinRises ==
  ASSUME NEW s \in Seq(Nat), NEW t \in Seq(Nat), NEW u, u = s \o t,
         Increasing(s), Increasing(t), Before(s, t)
  PROVE  u \in Seq(Nat) /\ Increasing(u)
<1>1. PICK k \in Nat, m \in Nat : k = Len(s) /\ m = Len(t)
  OBVIOUS
<1>2. u \in Seq(Nat) /\ Len(u) = k + m
  BY <1>1
<1>3. /\ \A i \in 1..k : u[i] = s[i]
      /\ \A i \in k+1..k+m : u[i] = t[i-k] /\ i-k \in 1..m
  BY <1>1
<1>4. ASSUME NEW i \in 1..k+m, NEW j \in 1..k+m, i < j PROVE u[i] < u[j]
  <2>1. CASE j \in 1..k
    <3>1. i \in 1..k
      BY <1>4, <2>1
    <3>2. QED BY <1>1, <1>3, <1>4, <2>1, <3>1 DEF Increasing
  <2>2. CASE i \in 1..k /\ j \in k+1..k+m
    BY <1>1, <1>3, <2>2 DEF Before, AllAbove
  <2>3. CASE i \in k+1..k+m /\ j \in k+1..k+m
    <3>1. PICK a \in 1..m, b \in 1..m : a = i-k /\ b = j-k
      BY <1>3, <2>3
    <3>2. a < b
      BY <1>4, <3>1
    <3>3. t[a] < t[b]
      BY <1>1, <3>2 DEF Increasing
    <3>4. u[i] = t[a] /\ u[j] = t[b]
      BY <1>3, <2>3, <3>1
    <3>5. QED BY <3>3, <3>4
  <2>4. /\ i \in 1..k \/ i \in k+1..k+m
        /\ j \in 1..k \/ j \in k+1..k+m
    OBVIOUS
  <2>5. QED BY <2>1, <2>2, <2>3, <2>4
<1>5. QED BY <1>2, <1>4 DEF Increasing

LEMMA InputNumbers ==
  ASSUME Typed
  PROVE  /\ tbuf \in Seq(Nat) /\ rxQueue \in Seq(Nat) /\ arrived \in Nat /\ passed \in Nat
         /\ inPc \in {"poll", "drain", "pass", "answer"}
         /\ inPc = "pass" => tbuf # <<>>
<1>1. (\A x \in 1..RxBytes : x \in Nat) /\ (\A x \in 0..RxBytes : x \in Nat)
  BY BoundsAssumption
<1>2. tbuf \in Seq(1..RxBytes) /\ rxQueue \in Seq(1..RxBytes)
  BY DEF Typed, InputTyped
<1>3. tbuf \in Seq(Nat) /\ rxQueue \in Seq(Nat)
  <2>1. PICK S : S = 1..RxBytes
    OBVIOUS
  <2>2. tbuf \in Seq(S) /\ rxQueue \in Seq(S) /\ \A x \in S : x \in Nat
    BY <1>1, <1>2, <2>1
  <2>3. QED BY <2>2
<1>4. QED BY <1>1, <1>3 DEF Typed, InputTyped

LEMMA InitRises == Init => BytesRise
  BY DEF Init, BytesRise, Increasing, Before, AllAbove, AllBelow

LEMMA RiseStep == Typed /\ BytesRise /\ [Next]_vars => BytesRise'
<1> SUFFICES ASSUME Typed, BytesRise, [Next]_vars PROVE BytesRise'
  OBVIOUS
<1>1. CASE UNCHANGED <<tbuf, rxQueue, arrived, passed>> /\ (inPc' = "answer" <=> inPc = "answer")
  BY <1>1 DEF BytesRise, Increasing, Before, AllAbove, AllBelow
<1>2. CASE InDrain
  <2>1. CASE rxQueue # <<>>
    <3>1. PICK h, t, u : h = Head(rxQueue) /\ t = rxQueue' /\ u = tbuf'
      OBVIOUS
    <3>2. /\ t = Tail(rxQueue) /\ u = Append(tbuf, h) /\ UNCHANGED <<arrived, passed>>
          /\ inPc = "drain" /\ inPc' # "answer"
      BY <1>2, <2>1, <3>1 DEF InDrain
    <3>3. /\ tbuf \in Seq(Nat) /\ rxQueue \in Seq(Nat) /\ h \in Nat /\ arrived + 1 \in Nat
          /\ passed \in Nat /\ Increasing(rxQueue) /\ Increasing(tbuf)
      BY <2>1, <3>1, InputNumbers DEF BytesRise
    <3>4. /\ Increasing(t) /\ AllAbove(h, t)
          /\ \A n \in Nat : /\ AllAbove(n, rxQueue) => AllAbove(n, t) /\ n < h
                            /\ AllBelow(rxQueue, n) => AllBelow(t, n) /\ h < n
      BY <2>1, <3>1, <3>2, <3>3, TailRises
    <3>5. \A i \in 1..Len(tbuf) : tbuf[i] \in Nat
      BY <3>3
    <3>6. AllBelow(tbuf, h) /\ Before(tbuf, t)
      <4> SUFFICES ASSUME NEW i \in 1..Len(tbuf) PROVE tbuf[i] < h /\ AllAbove(tbuf[i], t)
        BY DEF AllBelow, Before
      <4>1. AllAbove(tbuf[i], rxQueue) /\ tbuf[i] \in Nat
        BY <3>5 DEF BytesRise, Before
      <4>2. QED BY <3>4, <4>1
    <3>7. /\ Increasing(u)
          /\ \A n \in Nat : /\ AllAbove(n, tbuf) /\ n < h => AllAbove(n, u)
                            /\ AllBelow(tbuf, n) /\ h < n => AllBelow(u, n)
      BY <3>2, <3>3, <3>6, AppendRises
    <3>8. /\ AllAbove(passed, u) /\ AllAbove(passed, t) /\ AllBelow(u, arrived + 1)
          /\ AllBelow(t, arrived + 1)
      <4>1. PICK z \in Nat : z = arrived + 1
        BY <3>3
      <4>2. /\ AllAbove(passed, rxQueue) /\ AllAbove(passed, tbuf)
            /\ AllBelow(tbuf, z) /\ AllBelow(rxQueue, z)
        BY <3>2, <4>1 DEF BytesRise
      <4>3. AllAbove(passed, t) /\ passed < h /\ AllBelow(t, z) /\ h < z
        BY <3>3, <3>4, <4>2
      <4>4. AllAbove(passed, u) /\ AllBelow(u, z)
        BY <3>3, <3>7, <4>2, <4>3
      <4>5. QED BY <4>1, <4>3, <4>4
    <3>9. Before(u, t)
      <4> SUFFICES ASSUME NEW i \in 1..Len(u) PROVE AllAbove(u[i], t)
        BY DEF Before
      <4>1. PICK k \in Nat : k = Len(tbuf)
        BY <3>3
      <4>2. CASE i = k+1
        <5>1. u[i] = h
          BY <3>2, <3>3, <4>1, <4>2
        <5>2. QED BY <3>4, <5>1
      <4>3. CASE i # k+1
        <5>1. i \in 1..k /\ u[i] = tbuf[i]
          BY <3>2, <3>3, <4>1, <4>3
        <5>2. QED BY <3>6, <4>1, <5>1 DEF Before
      <4>4. QED BY <4>2, <4>3
    <3>10. QED
      BY <3>1, <3>2, <3>4, <3>7, <3>8, <3>9
         DEF BytesRise, Increasing, Before, AllAbove, AllBelow
  <2>2. CASE ~(rxQueue # <<>>)
    BY <1>1, <1>2, <2>2 DEF InDrain
  <2>3. QED BY <2>1, <2>2
<1>3. CASE InPass
  <2>1. /\ passed' = tbuf[Len(tbuf)] /\ inPc' = "answer" /\ UNCHANGED <<tbuf, rxQueue, arrived>>
        /\ inPc = "pass"
    BY <1>3 DEF InPass
  <2>2. tbuf \in Seq(Nat) /\ tbuf # <<>> /\ arrived \in Nat
    BY <2>1, InputNumbers
  <2>3. Len(tbuf) \in 1..Len(tbuf) /\ tbuf[Len(tbuf)] \in Nat
    BY <2>2
  <2>4. AllAbove(tbuf[Len(tbuf)], rxQueue) /\ tbuf[Len(tbuf)] < arrived + 1
    BY <2>3 DEF BytesRise, Before, AllBelow
  <2>5. passed' <= arrived
    BY <2>1, <2>2, <2>3, <2>4
  <2>6. QED BY <2>1, <2>4, <2>5 DEF BytesRise, Increasing, Before, AllAbove, AllBelow
<1>4. CASE InPoll
  BY <1>1, <1>4 DEF InPoll, rx
<1>5. CASE InReturns
  <2>1. tbuf' = <<>> /\ UNCHANGED <<rxQueue, arrived, passed>>
    BY <1>5 DEF InReturns, rx
  <2>2. QED BY <2>1 DEF BytesRise, Increasing, Before, AllAbove, AllBelow
<1>6. CASE RxByte
  <2>1. arrived' = arrived + 1 /\ UNCHANGED <<tbuf, inPc, passed>>
    BY <1>6 DEF RxByte, input
  <2>2. /\ tbuf \in Seq(Nat) /\ rxQueue \in Seq(Nat) /\ arrived \in Nat /\ passed \in Nat
        /\ passed <= arrived
    BY InputNumbers DEF BytesRise
  <2>3. /\ \A i \in 1..Len(tbuf) : tbuf[i] \in Nat /\ tbuf[i] < arrived + 1
        /\ \A i \in 1..Len(rxQueue) : rxQueue[i] \in Nat /\ rxQueue[i] < arrived + 1
    BY <2>2 DEF BytesRise, AllBelow
  <2>4. /\ \A i \in 1..Len(tbuf) : tbuf[i] < (arrived + 1) + 1
        /\ \A i \in 1..Len(rxQueue) : rxQueue[i] < (arrived + 1) + 1
    BY <2>2, <2>3
  <2>5. AllBelow(tbuf, arrived' + 1) /\ passed <= arrived' /\ passed < arrived'
    BY <2>1, <2>2, <2>4 DEF AllBelow
  <2>6. CASE rxQueue' = Append(rxQueue, arrived')
    <3>1. PICK x, t : x = arrived' /\ t = rxQueue'
      OBVIOUS
    <3>2. x \in Nat /\ x = arrived + 1 /\ t = Append(rxQueue, x)
      BY <2>1, <2>2, <2>6, <3>1
    <3>3. Increasing(rxQueue) /\ AllBelow(rxQueue, x)
      BY <3>2 DEF BytesRise
    <3>4. /\ Increasing(t)
          /\ \A n \in Nat : /\ AllAbove(n, rxQueue) /\ n < x => AllAbove(n, t)
                            /\ AllBelow(rxQueue, n) /\ x < n => AllBelow(t, n)
      BY <2>2, <3>2, <3>3, AppendRises
    <3>5. AllBelow(rxQueue, x + 1) /\ x + 1 \in Nat /\ x < x + 1
      BY <2>4, <3>2 DEF AllBelow
    <3>6. AllBelow(t, x + 1)
      <4>1. PICK z \in Nat : z = x + 1
        BY <3>5
      <4>2. AllBelow(rxQueue, z) /\ x < z
        BY <3>5, <4>1
      <4>3. AllBelow(t, z)
        BY <3>4, <4>2
      <4>4. QED BY <4>1, <4>3
    <3>7. AllAbove(passed, t)
      <4>1. AllAbove(passed, rxQueue) /\ passed < x
        BY <2>5, <3>1 DEF BytesRise
      <4>2. QED BY <2>2, <3>4, <4>1
    <3>8. Before(tbuf, t)
      <4> SUFFICES ASSUME NEW i \in 1..Len(tbuf) PROVE AllAbove(tbuf[i], t)
        BY DEF Before
      <4>1. AllAbove(tbuf[i], rxQueue) /\ tbuf[i] \in Nat /\ tbuf[i] < x
        BY <2>3, <3>2 DEF BytesRise, Before
      <4>2. QED BY <3>4, <4>1
    <3>9. QED
      BY <2>1, <2>5, <3>1, <3>4, <3>6, <3>7, <3>8
         DEF BytesRise, Increasing, Before, AllAbove, AllBelow
  <2>7. CASE rxQueue' = rxQueue
    BY <2>1, <2>4, <2>5, <2>7 DEF BytesRise, Increasing, Before, AllAbove, AllBelow
  <2>8. QED BY <1>6, <2>6, <2>7 DEF RxByte
<1>7. CASE AtReceives
  <2>1. /\ rxQueue # <<>> /\ rxQueue' = Tail(rxQueue) /\ UNCHANGED <<inPc, tbuf, arrived, passed>>
    BY <1>7 DEF AtReceives, input
  <2>2. PICK t : t = rxQueue'
    OBVIOUS
  <2>3. /\ tbuf \in Seq(Nat) /\ rxQueue \in Seq(Nat) /\ arrived + 1 \in Nat /\ passed \in Nat
        /\ Increasing(rxQueue)
    BY InputNumbers DEF BytesRise
  <2>8. t = Tail(rxQueue)
    BY <2>1, <2>2
  <2>4. /\ Increasing(t)
        /\ \A n \in Nat : /\ AllAbove(n, rxQueue) => AllAbove(n, t) /\ n < Head(rxQueue)
                          /\ AllBelow(rxQueue, n) => AllBelow(t, n) /\ Head(rxQueue) < n
    BY <2>1, <2>3, <2>8, TailRises
  <2>5. \A i \in 1..Len(tbuf) : tbuf[i] \in Nat
    BY <2>3
  <2>6. Before(tbuf, t) /\ AllAbove(passed, t) /\ AllBelow(t, arrived + 1)
    <3>1. ASSUME NEW i \in 1..Len(tbuf) PROVE AllAbove(tbuf[i], t)
      <4>1. AllAbove(tbuf[i], rxQueue) /\ tbuf[i] \in Nat
        BY <2>5 DEF BytesRise, Before
      <4>2. QED BY <2>4, <4>1
    <3>2. PICK z \in Nat : z = arrived + 1
      BY <2>3
    <3>3. AllAbove(passed, rxQueue) /\ AllBelow(rxQueue, z)
      BY <3>2 DEF BytesRise
    <3>4. AllAbove(passed, t) /\ AllBelow(t, z)
      BY <2>3, <2>4, <3>3
    <3>5. QED BY <3>1, <3>2, <3>4 DEF Before
  <2>7. QED
    BY <2>1, <2>2, <2>4, <2>6 DEF BytesRise, Increasing, Before, AllAbove, AllBelow
<1>8. CASE Begin \/ TransmitEnds \/ Overrun \/ ModeChanges \/ AtPrepares \/ AtTransmits
           \/ UNCHANGED vars
  BY <1>1, <1>8 DEF Begin, TcpipFrame, AppFrame, TaskFrame, TransmitEnds, Overrun, ModeChanges, AtPrepares,
     AtTransmits, input, rx, vars
<1>9. CASE RawOutput
  BY <1>1, <1>9 DEF RawOutput, OutPoll, OutReceive, OutTransmit, OutStart, OutFree, input, rx
<1>10. CASE \E w \in Writers : Write(w)
  BY <1>1, <1>10 DEF Write, OutputCb, QueueSend, input, rx
<1>11. QED
  BY <1>2, <1>3, <1>4, <1>5, <1>6, <1>7, <1>8, <1>9, <1>10 DEF Next, RawInput, World

\* gsmPPP.c: the bytes reach pppos_input in the order they arrived and none twice,
\* though the AT dialogue takes from the same queue.
THEOREM BytesArePassedInOrder == Spec => []BytesInOrder
<1>1. Typed /\ BytesRise => BytesInOrder
  <2> SUFFICES ASSUME Typed, BytesRise PROVE BytesInOrder
    OBVIOUS
  <2>1. /\ tbuf \in Seq(Nat) /\ rxQueue \in Seq(Nat) /\ passed \in Nat
    BY InputNumbers
  <2>2. PICK p : p = <<passed>>
    OBVIOUS
  <2>3. p \in Seq(Nat) /\ Increasing(p) /\ Len(p) = 1 /\ p[1] = passed
    BY <2>1, <2>2 DEF Increasing
  <2>4. ASSUME NEW s \in Seq(Nat), Increasing(s)
        PROVE  \A i \in 1..Len(s)-1 : s[i] < s[i+1]
    <3> TAKE i \in 1..Len(s)-1
    <3>1. i \in 1..Len(s) /\ i+1 \in 1..Len(s) /\ i < i+1
      BY <2>4
    <3>2. QED BY <2>4, <3>1 DEF Increasing
  <2>5. CASE inPc = "answer"
    <3>1. PICK u : u = p \o rxQueue
      OBVIOUS
    <3>2. Before(p, rxQueue)
      BY <2>3 DEF BytesRise, Before
    <3>3. u \in Seq(Nat) /\ Increasing(u)
      BY <2>1, <2>3, <3>1, <3>2, JoinRises DEF BytesRise
    <3>4. QED BY <2>2, <2>4, <2>5, <3>1, <3>3 DEF BytesInOrder
  <2>6. CASE inPc # "answer"
    <3>1. PICK u : u = p \o tbuf
      OBVIOUS
    <3>2. PICK v : v = u \o rxQueue
      OBVIOUS
    <3>3. Before(p, tbuf)
      BY <2>3, <2>6 DEF BytesRise, Before
    <3>4. u \in Seq(Nat) /\ Increasing(u)
      BY <2>1, <2>3, <3>1, <3>3, JoinRises DEF BytesRise
    <3>5. Before(p, rxQueue) /\ Before(tbuf, rxQueue)
      BY <2>3 DEF BytesRise, Before
    <3>6. Before(u, rxQueue)
      BY <2>1, <2>3, <3>1, <3>5, JoinBefore
    <3>7. v \in Seq(Nat) /\ Increasing(v)
      BY <2>1, <3>2, <3>4, <3>6, JoinRises DEF BytesRise
    <3>8. v = p \o tbuf \o rxQueue
      BY <3>1, <3>2
    <3>9. QED BY <2>2, <2>4, <2>6, <3>7, <3>8 DEF BytesInOrder
  <2>7. QED BY <2>5, <2>6
<1>2. Typed /\ BytesRise /\ [Next]_vars => BytesRise'
  BY RiseStep
<1>3. QED BY InitRises, TypedInductive, <1>1, <1>2, PTL DEF Spec

=============================================================================
