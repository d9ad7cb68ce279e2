--------------------------- MODULE AtDialog_proofs ---------------------------
(***************************************************************************)
(* Proofs about AtDialog, for any number of commands, any length of the     *)
(* queue and of the receive buffer: the types, and that the dialogue        *)
(* implements AnswerOrder although no reply names its command.              *)
(***************************************************************************)
EXTENDS AtDialog, WellFoundedInduction, TLAPS

Stream == Halves \cup {Text}

-----------------------------------------------------------------------------
(* The second halves of replies, which complete a marker, and their order.  *)

Seconds(s) == {n \in 1..Commands : \E i \in 1..Len(s) : s[i].half = 2 /\ s[i].of = n}
Members(s) == {n \in 1..Commands : \E i \in 1..Len(s) : s[i] = n}
Before(A, B) == \A a \in A, b \in B : a < b

Ordered(s) ==
  \A i, j \in 1..Len(s) :
    i < j /\ s[i].half = 2 /\ s[j].half = 2 => s[i].of < s[j].of
Increasing(s) == \A i, j \in 1..Len(s) : i < j => s[i] < s[j]

InBuffer ==
  {n \in 1..Commands : \E c \in Cells, k \in Kinds : pRxBuffer[c] = Half(n, k, 2)}

\* What is in the queue was sent before what is on the line, and that before what
\* the modem has not answered.
Coming == Seconds(rxQueue) \cup Seconds(answer) \cup Members(pending)
InOrder ==
  /\ Ordered(rxQueue) /\ Ordered(answer) /\ Increasing(pending)
  /\ Before(Seconds(rxQueue), Seconds(answer))
  /\ Before(Seconds(rxQueue), Members(pending))
  /\ Before(Seconds(answer), Members(pending))

\* No reply that is still coming belongs to the command whose reply was taken
\* last or to an earlier one, or to one that the modem cannot have got.
NotYetSent == pc \in {"delay", "prepared", "locked"} \/ tx = "whole"
Known(n) == last < n /\ n <= command /\ (NotYetSent => n < command)
Fresh == \A n \in Coming : Known(n)

\* While a command waits, its buffer holds what came after the last reply and
\* before all that is coming.
Waiting == pc \in {"prepared", "locked", "reading"}
BufferIsFresh ==
  Waiting => Before(InBuffer, Coming) /\ \A n \in InBuffer : Known(n)

TransmitterOfPlace ==
  /\ pc \in {"prepared", "locked"} => tx = "idle"
  /\ tx = "whole" => pc \in {"reading", "closing"}

Counts ==
  /\ givenUp <= IF pc \in {"closing", "end"} THEN command ELSE command - 1
  /\ last <= command
  /\ pc \notin {"closing", "end"} \/ tx = "whole" => last < command
  /\ LagBounded
  /\ tx = "erased" \/ (pc = "closing" /\ tx = "whole") => givenUp > 0

IInv ==
  TypeOK /\ InOrder /\ Fresh /\ BufferIsFresh /\ TransmitterOfPlace /\ Counts

-----------------------------------------------------------------------------
(* Sequences of halves.                                                     *)

LEMMA StreamFields ==
  \A x \in Stream : x.half \in 0..2 /\ (x.half = 2 => x.of \in 1..Commands)
  BY DEF Stream, Halves, Text, Half

\* A queue that loses its head, and one that grows at its end.
LEMMA SecondsOfTail ==
  ASSUME NEW s \in Seq(Stream), s # <<>>
  PROVE  /\ Seconds(Tail(s)) \subseteq Seconds(s)
         /\ Head(s).half = 2 => Head(s).of \in Seconds(s)
         /\ Ordered(s) => Ordered(Tail(s))
         /\ Ordered(s) /\ Head(s).half = 2 => Before({Head(s).of}, Seconds(Tail(s)))
<1>1. Len(s) \in Nat \ {0} /\ Head(s) = s[1] /\ s[1] \in Stream
  OBVIOUS
<1>2. Len(Tail(s)) = Len(s) - 1 /\ \A i \in 1..Len(s)-1 : Tail(s)[i] = s[i+1]
  OBVIOUS
<1>3. \A i \in 1..Len(Tail(s)) : i + 1 \in 1..Len(s)
  BY <1>1, <1>2
<1>4. Seconds(Tail(s)) \subseteq Seconds(s)
  BY <1>1, <1>2, <1>3 DEF Seconds
<1>5. Head(s).half = 2 => Head(s).of \in Seconds(s)
  BY <1>1, StreamFields DEF Seconds
<1>6. Ordered(s) => Ordered(Tail(s))
  BY <1>1, <1>2, <1>3 DEF Ordered
<1>7. Ordered(s) /\ Head(s).half = 2 => Before({Head(s).of}, Seconds(Tail(s)))
  BY <1>1, <1>2, <1>3 DEF Ordered, Seconds, Before
<1>8. QED BY <1>4, <1>5, <1>6, <1>7

LEMMA SecondsOfAppend ==
  ASSUME NEW s \in Seq(Stream), NEW x \in Stream
  PROVE  /\ \A n \in Seconds(Append(s, x)) :
              n \in Seconds(s) \/ (x.half = 2 /\ n = x.of)
         /\ Ordered(s) /\ (x.half = 2 => Before(Seconds(s), {x.of}))
              => Ordered(Append(s, x))
<1> DEFINE t == Append(s, x)
<1>1. Len(s) \in Nat /\ Len(t) = Len(s) + 1 /\ t[Len(s) + 1] = x
  OBVIOUS
<1>2. \A i \in 1..Len(s) : t[i] = s[i] /\ s[i] \in Stream
  OBVIOUS
<1>3. \A i \in 1..Len(t) : i \in 1..Len(s) \/ i = Len(s) + 1
  BY <1>1
<1> HIDE DEF t
<1>4. \A n \in Seconds(t) : n \in Seconds(s) \/ (x.half = 2 /\ n = x.of)
  BY <1>1, <1>2, <1>3 DEF Seconds
<1>5. ASSUME Ordered(s), x.half = 2 => Before(Seconds(s), {x.of}) PROVE Ordered(t)
  <2> SUFFICES ASSUME NEW i \in 1..Len(t), NEW j \in 1..Len(t), i < j,
                      t[i].half = 2, t[j].half = 2
               PROVE  t[i].of < t[j].of
    BY DEF Ordered
  <2>1. i \in 1..Len(s)
    BY <1>1, <1>3
  <2>2. CASE j \in 1..Len(s)
    BY <2>1, <2>2, <1>2, <1>5 DEF Ordered
  <2>3. CASE j = Len(s) + 1
    <3>1. s[i].of \in Seconds(s)
      BY <2>1, <1>2, StreamFields DEF Seconds
    <3>2. QED BY <3>1, <2>1, <2>3, <1>1, <1>2, <1>5 DEF Before
  <2>4. QED BY <2>2, <2>3, <1>3
<1>6. QED BY <1>4, <1>5 DEF t

LEMMA Grown == ASSUME NEW S, NEW s \in Seq(S), NEW x \in S PROVE Append(s, x) \in Seq(S)
  OBVIOUS

LEMMA Shortened ==
  ASSUME NEW S, NEW s \in Seq(S), s # <<>> PROVE Tail(s) \in Seq(S) /\ Head(s) \in S
  OBVIOUS

LEMMA Element == ASSUME NEW S, NEW s \in Seq(S), NEW i \in 1..Len(s) PROVE s[i] \in S
  OBVIOUS

\* The same of the commands the modem has not answered yet.
LEMMA MembersOfTail ==
  ASSUME NEW s \in Seq(1..Commands), s # <<>>
  PROVE  /\ Members(Tail(s)) \subseteq Members(s)
         /\ Head(s) \in Members(s)
         /\ Increasing(s) => Increasing(Tail(s)) /\ Before({Head(s)}, Members(Tail(s)))
<1>1. Len(s) \in Nat \ {0} /\ Head(s) = s[1] /\ s[1] \in 1..Commands
  <2>1. Len(s) \in Nat \ {0} /\ Head(s) = s[1]
    OBVIOUS
  <2>2. 1 \in 1..Len(s)
    BY <2>1
  <2>3. QED BY <2>1, <2>2, Element
<1>2. Len(Tail(s)) = Len(s) - 1 /\ \A i \in 1..Len(s)-1 : Tail(s)[i] = s[i+1]
  OBVIOUS
<1>3. \A i \in 1..Len(Tail(s)) : i + 1 \in 1..Len(s)
  BY <1>1, <1>2
<1>4. QED BY <1>1, <1>2, <1>3 DEF Members, Increasing, Before

LEMMA MembersOfAppend ==
  ASSUME NEW s \in Seq(1..Commands), NEW x \in 1..Commands
  PROVE  /\ Members(Append(s, x)) \subseteq Members(s) \cup {x}
         /\ Increasing(s) /\ Before(Members(s), {x}) => Increasing(Append(s, x))
<1> DEFINE t == Append(s, x)
<1>1. Len(s) \in Nat /\ Len(t) = Len(s) + 1 /\ t[Len(s) + 1] = x
  OBVIOUS
<1>2. \A i \in 1..Len(s) : t[i] = s[i] /\ s[i] \in 1..Commands
  <2>1. \A i \in 1..Len(s) : t[i] = s[i]
    OBVIOUS
  <2>2. QED BY <2>1, Element
<1>3. \A i \in 1..Len(t) : i \in 1..Len(s) \/ i = Len(s) + 1
  BY <1>1
<1> HIDE DEF t
<1>4. Members(t) \subseteq Members(s) \cup {x}
  BY <1>1, <1>2, <1>3 DEF Members
<1>5. ASSUME Increasing(s), Before(Members(s), {x}) PROVE Increasing(t)
  <2> SUFFICES ASSUME NEW i \in 1..Len(t), NEW j \in 1..Len(t), i < j
               PROVE  t[i] < t[j]
    BY DEF Increasing
  <2>1. i \in 1..Len(s)
    BY <1>1, <1>3
  <2>2. s[i] \in Members(s)
    BY <2>1, <1>2 DEF Members
  <2>3. QED BY <2>1, <2>2, <1>1, <1>2, <1>3, <1>5 DEF Increasing, Before
<1>6. QED BY <1>4, <1>5 DEF t

-----------------------------------------------------------------------------
(* The greatest of the complete replies in the buffer.                      *)

LEMMA MaxIsGreatest ==
  ASSUME NEW k \in Nat, NEW S \in SUBSET (0..k), S # {}
  PROVE  Max(S) \in S
<1> DEFINE R == OpToRel(<, Nat)
           T == {x \in 0..k : k - x \in S}
<1>1. IsWellFoundedOn(R, Nat)
  BY NatLessThanWellFounded
<1>2. T \subseteq Nat
  OBVIOUS
<1>3. T # {}
  <2>1. PICK n \in S : TRUE
    OBVIOUS
  <2>2. k - n \in T
    OBVIOUS
  <2>3. QED BY <2>2
<1>4. PICK x \in T : \A y \in T : <<y, x>> \notin R
  <2> HIDE DEF R, T
  <2>1. QED BY <1>1, <1>2, <1>3, WFMin
<1>5. \A y \in T : ~ (y < x)
  BY <1>2, <1>4 DEF OpToRel
<1>6. \A n \in S : n <= k - x
  <2>1. \A n \in S : k - n \in T
    OBVIOUS
  <2>2. \A n \in S : ~ (k - n < x)
    BY <1>5, <2>1
  <2>3. QED BY <2>2
<1>7. k - x \in S
  BY <1>4
<1>8. \E m \in S : \A n \in S : m >= n
  BY <1>6, <1>7
<1>9. QED BY <1>8 DEF Max

LEMMA FoundIsInBuffer ==
  ASSUME NEW b, Markers(b, "ok") # {}
  PROVE  /\ Max(Markers(b, "ok")) \in 1..Commands
         /\ \E c \in Cells : b[c] = Half(Max(Markers(b, "ok")), "ok", 2)
<1>1. Markers(b, "ok") \in SUBSET (0..Commands) /\ Commands \in Nat
  BY BoundsAssumption DEF Markers
<1>2. Max(Markers(b, "ok")) \in Markers(b, "ok")
  BY <1>1, MaxIsGreatest
<1>3. QED BY <1>2 DEF Markers

-----------------------------------------------------------------------------
(* The invariant holds at first, and every step keeps it.                   *)

LEMMA InitIInv == Init => IInv
<1> SUFFICES ASSUME Init PROVE IInv
  OBVIOUS
<1>1. TypeOK
  <2>1. receiveState \in BOOLEAN /\ armed \in BOOLEAN
    BY Zenon DEF Init
  <2>2. pRxBuffer \in [Cells -> Halves \cup {Text, Zero}]
    BY DEF Init, EmptyBuffer
  <2>3. QED BY <2>1, <2>2, BoundsAssumption DEF Init, TypeOK, Cells
<1>2. Seconds(rxQueue) = {} /\ Seconds(answer) = {} /\ Members(pending) = {}
  BY DEF Init, Seconds, Members
<1>3. InOrder /\ Fresh /\ BufferIsFresh
  BY <1>2 DEF Init, InOrder, Fresh, BufferIsFresh, Waiting, Ordered, Increasing,
              Before, Coming
<1>4. TransmitterOfPlace /\ Counts
  BY DEF Init, TransmitterOfPlace, Counts, LagBounded, Answers!LagBounded,
         Answers!Answered
<1>5. QED BY <1>1, <1>3, <1>4 DEF IInv

\* What is coming stays what it is while the queue and the modem do.
LEMMA SameComing ==
  ASSUME InOrder, UNCHANGED <<rxQueue, answer, pending>>
  PROVE  InOrder' /\ Coming' = Coming
  BY DEF InOrder, Coming, Seconds, Members, Ordered, Increasing, Before

LEMMA PrepareKeeps == ASSUME IInv, Prepare PROVE IInv'
<1>1. TypeOK'
  BY BoundsAssumption DEF IInv, TypeOK, Prepare, EmptyBuffer, Cells, modem, hist
<1>2. InOrder' /\ Coming' = Coming
  BY SameComing DEF IInv, Prepare, modem
<1>3. InBuffer' = {}
  BY DEF Prepare, InBuffer, EmptyBuffer, Zero, Half, Kinds
<1>4. Fresh' /\ BufferIsFresh'
  BY <1>2, <1>3 DEF IInv, Prepare, Fresh, BufferIsFresh, Known, NotYetSent, Before,
                    hist
<1>5. TransmitterOfPlace' /\ Counts'
  BY DEF IInv, Prepare, TransmitterOfPlace, Counts, LagBounded, Answers!LagBounded,
         Answers!Answered, hist, TypeOK
<1>6. QED BY <1>1, <1>2, <1>4, <1>5 DEF IInv

LEMMA LockHandleKeeps == ASSUME IInv, LockHandle PROVE IInv'
<1>1. TypeOK'
  BY DEF IInv, TypeOK, LockHandle, rx, buf, modem, hist
<1>2. InOrder' /\ Coming' = Coming /\ InBuffer' = InBuffer
  BY SameComing DEF IInv, LockHandle, modem, rx, buf, InBuffer
<1>3. Fresh' /\ BufferIsFresh'
  BY <1>2 DEF IInv, LockHandle, Fresh, BufferIsFresh, Known, NotYetSent, Before,
              Waiting, hist
<1>4. TransmitterOfPlace' /\ Counts'
  BY DEF IInv, LockHandle, TransmitterOfPlace, Counts, LagBounded,
         Answers!LagBounded, Answers!Answered, hist, TypeOK
<1>5. QED BY <1>1, <1>2, <1>3, <1>4 DEF IInv

LEMMA StartTransmitKeeps == ASSUME IInv, StartTransmit PROVE IInv'
<1>1. TypeOK'
  BY DEF IInv, TypeOK, StartTransmit, rx, buf, modem, hist
<1>2. InOrder' /\ Coming' = Coming /\ InBuffer' = InBuffer
  BY SameComing DEF IInv, StartTransmit, modem, rx, buf, InBuffer
<1>3. Fresh' /\ BufferIsFresh'
  BY <1>2 DEF IInv, StartTransmit, Fresh, BufferIsFresh, Known, NotYetSent, Before,
              Waiting, hist
<1>4. TransmitterOfPlace' /\ Counts'
  BY DEF IInv, StartTransmit, TransmitterOfPlace, Counts, LagBounded,
         Answers!LagBounded, Answers!Answered, hist, TypeOK
<1>5. QED BY <1>1, <1>2, <1>3, <1>4 DEF IInv

LEMMA ReceiveTimeoutKeeps == ASSUME IInv, ReceiveTimeout PROVE IInv'
<1>1. TypeOK' /\ Counts'
  BY BoundsAssumption DEF IInv, TypeOK, ReceiveTimeout, rx, buf, modem, Counts,
     LagBounded, Answers!LagBounded, Answers!Answered
<1>2. InOrder' /\ Coming' = Coming
  BY SameComing DEF IInv, ReceiveTimeout, modem, rx
<1>3. Fresh' /\ BufferIsFresh'
  BY <1>2 DEF IInv, ReceiveTimeout, Fresh, BufferIsFresh, Known, NotYetSent, Waiting
<1>4. TransmitterOfPlace'
  BY DEF IInv, ReceiveTimeout, TransmitterOfPlace
<1>5. QED BY <1>1, <1>2, <1>3, <1>4 DEF IInv

LEMMA CloseCommandKeeps == ASSUME IInv, CloseCommand PROVE IInv'
<1>1. TypeOK'
  <2>1. receiveState' \in BOOLEAN
    BY Zenon DEF CloseCommand
  <2>2. QED
    BY <2>1, BoundsAssumption DEF IInv, TypeOK, CloseCommand, buf, modem, hist
<1>2. InOrder' /\ Coming' = Coming
  BY SameComing DEF IInv, CloseCommand, modem
<1>3. Fresh' /\ BufferIsFresh'
  <2>1. \A n \in Coming : n \in 1..Commands
    BY DEF Coming, Seconds, Members
  <2>2. QED
    BY <1>2, <2>1 DEF IInv, TypeOK, CloseCommand, Fresh, BufferIsFresh, Known,
       NotYetSent, Waiting, hist
<1>4. TransmitterOfPlace' /\ Counts'
  BY BoundsAssumption DEF IInv, CloseCommand, TransmitterOfPlace, Counts, LagBounded,
     Answers!LagBounded, Answers!Answered, hist, TypeOK
<1>5. QED BY <1>1, <1>2, <1>3, <1>4 DEF IInv

\* A byte moves from the queue into the buffer: what the buffer holds stays before
\* what is coming, and the reply found in it is later than the last one.
LEMMA ReceivedIsLater ==
  ASSUME IInv, ReceiveFromQueue
  PROVE  /\ InOrder' /\ Coming' \subseteq Coming /\ Before(InBuffer', Coming')
         /\ \A n \in InBuffer' : Known(n)
         /\ OkFound(pRxBuffer') =>
              /\ last' \in InBuffer' /\ last < last' /\ last' <= command
              /\ tx = "whole" => last' < command
<1> DEFINE h == Head(rxQueue)
<1>1. rxQueue \in Seq(Stream) /\ rxQueue # <<>> /\ h \in Stream
      /\ rxQueue' = Tail(rxQueue)
  BY DEF IInv, TypeOK, ReceiveFromQueue, Stream
<1>2. /\ Seconds(rxQueue') \subseteq Seconds(rxQueue)
      /\ h.half = 2 => h.of \in Seconds(rxQueue)
      /\ Ordered(rxQueue')
      /\ h.half = 2 => Before({h.of}, Seconds(rxQueue'))
  BY <1>1, SecondsOfTail DEF IInv, InOrder
<1>3. /\ Seconds(answer') = Seconds(answer) /\ Members(pending') = Members(pending)
      /\ Ordered(answer') /\ Increasing(pending')
  BY DEF IInv, InOrder, ReceiveFromQueue, modem
<1>4. InOrder' /\ Coming' \subseteq Coming /\ (h.half = 2 => h.of \in Coming)
      /\ (h.half = 2 => Before({h.of}, Coming'))
  BY <1>2, <1>3 DEF IInv, InOrder, Coming, Before
<1>5. \A n \in InBuffer' : n \in InBuffer \/ (h.half = 2 /\ n = h.of)
  BY <1>1 DEF IInv, TypeOK, ReceiveFromQueue, InBuffer, Half
<1>6. Before(InBuffer', Coming') /\ \A n \in InBuffer' : Known(n)
  <2>1. Before(InBuffer, Coming) /\ (\A n \in InBuffer : Known(n))
        /\ (\A n \in Coming : Known(n))
    BY DEF IInv, BufferIsFresh, Fresh, ReceiveFromQueue, Waiting
  <2>2. Before(InBuffer', Coming')
    BY <2>1, <1>4, <1>5 DEF Before
  <2>3. QED BY <2>1, <2>2, <1>4, <1>5
<1>7. OkFound(pRxBuffer') => last' \in InBuffer'
  <2> SUFFICES ASSUME OkFound(pRxBuffer') PROVE last' \in InBuffer'
    OBVIOUS
  <2>1. last' = Max(Markers(pRxBuffer', "ok")) /\ Markers(pRxBuffer', "ok") # {}
    BY DEF ReceiveFromQueue, OkFound
  <2>2. QED BY <2>1, FoundIsInBuffer DEF InBuffer, Kinds
<1>8. QED BY <1>4, <1>6, <1>7 DEF Known, NotYetSent

LEMMA ReceiveFromQueueKeeps == ASSUME IInv, ReceiveFromQueue PROVE IInv'
<1> DEFINE found == OkFound(pRxBuffer')
<1>1. TypeOK'
  <2>1. rxQueue \in Seq(Stream) /\ rxQueue # <<>> /\ rxQueue' = Tail(rxQueue)
        /\ Head(rxQueue) \in Stream
    BY DEF IInv, TypeOK, ReceiveFromQueue, Stream
  <2>2. receiveCount' \in Cells
    BY BoundsAssumption DEF IInv, TypeOK, ReceiveFromQueue, Cells
  <2>3. pRxBuffer' \in [Cells -> Halves \cup {Text, Zero}]
    BY <2>1 DEF IInv, TypeOK, ReceiveFromQueue, Stream
  <2>4. rxQueue' \in Seq(Stream) /\ Len(rxQueue') <= QueueLength
    BY <2>1, BoundsAssumption DEF IInv, TypeOK
  <2>5. last' \in 0..Commands
    BY ReceivedIsLater DEF IInv, TypeOK, ReceiveFromQueue, InBuffer
  <2>6. QED
    BY <2>2, <2>3, <2>4, <2>5 DEF IInv, TypeOK, ReceiveFromQueue, Stream, modem
<1>2. Fresh' /\ BufferIsFresh'
  <2>1. CASE found
    BY <2>1, ReceivedIsLater DEF IInv, TypeOK, Fresh, BufferIsFresh, Known,
       NotYetSent, Before, ReceiveFromQueue, Waiting, TransmitterOfPlace
  <2>2. CASE ~found
    BY <2>2, ReceivedIsLater DEF IInv, TypeOK, Fresh, BufferIsFresh, Known,
       NotYetSent, ReceiveFromQueue, Waiting
  <2>3. QED BY <2>1, <2>2
<1>3. TransmitterOfPlace'
  BY DEF IInv, TransmitterOfPlace, ReceiveFromQueue
\* A reply that ends a command before its text is sent is an earlier command's:
\* then the dialogue lags, so some command was given up.
<1>4. Counts'
  <2>1. CASE found
    BY <2>1, ReceivedIsLater, BoundsAssumption DEF IInv, TypeOK, Counts, LagBounded,
       Answers!LagBounded, Answers!Answered, ReceiveFromQueue, InBuffer
  <2>2. CASE ~found
    BY <2>2, BoundsAssumption DEF IInv, TypeOK, Counts, LagBounded,
       Answers!LagBounded, Answers!Answered, ReceiveFromQueue
  <2>3. QED BY <2>1, <2>2
<1>5. QED BY <1>1, <1>2, <1>3, <1>4, ReceivedIsLater DEF IInv

LEMMA OverrunKeeps == ASSUME IInv, Overrun PROVE IInv'
<1>1. armed' \in BOOLEAN
  BY Zenon DEF Overrun
<1>2. InOrder' /\ Coming' = Coming /\ InBuffer' = InBuffer
  BY SameComing DEF IInv, Overrun, modem, buf, InBuffer
<1>3. TypeOK' /\ TransmitterOfPlace'
  BY <1>1 DEF IInv, TypeOK, Overrun, task, buf, modem, hist, TransmitterOfPlace
<1>4. Fresh' /\ BufferIsFresh' /\ Counts'
  BY <1>2 DEF IInv, Overrun, Fresh, BufferIsFresh, Known, NotYetSent, Waiting, Counts,
     LagBounded, Answers!LagBounded, Answers!Answered, task, hist
<1>5. QED BY <1>2, <1>3, <1>4 DEF IInv

LEMMA TransmitEndsKeeps == ASSUME IInv, TransmitEnds PROVE IInv'
<1>1. command \in 1..Commands /\ pending \in Seq(1..Commands)
  BY DEF IInv, TypeOK
<1>2. Seconds(rxQueue') = Seconds(rxQueue) /\ Seconds(answer') = Seconds(answer)
      /\ Ordered(rxQueue') /\ Ordered(answer') /\ InBuffer' = InBuffer
  BY DEF IInv, InOrder, TransmitEnds, rx, buf, InBuffer
\* The command that was sent is later than everything the modem knows of.
<1>3. tx = "whole" => Before(Coming, {command})
  BY DEF IInv, Fresh, Known, NotYetSent, Before
<1>4. /\ Members(pending') \subseteq
           IF tx = "whole" THEN Members(pending) \cup {command} ELSE Members(pending)
      /\ Increasing(pending')
  BY <1>1, <1>3, MembersOfAppend DEF IInv, InOrder, TransmitEnds, Coming, Before
<1>5. InOrder' /\ Coming' \subseteq
        IF tx = "whole" THEN Coming \cup {command} ELSE Coming
  BY <1>2, <1>3, <1>4 DEF IInv, InOrder, Coming, Before
<1>6. TypeOK'
  <2>1. pending' \in Seq(1..Commands)
    BY <1>1, Grown DEF TransmitEnds
  <2>2. QED BY <2>1 DEF IInv, TypeOK, TransmitEnds, task, rx, buf, hist
<1>7. TransmitterOfPlace' /\ Counts'
  BY DEF IInv, TransmitEnds, TransmitterOfPlace, Counts, LagBounded,
     Answers!LagBounded, Answers!Answered, task, hist
<1>8. tx = "whole" => last < command
  BY DEF IInv, Counts
<1>9. Fresh' /\ BufferIsFresh'
  BY <1>2, <1>3, <1>5, <1>8 DEF IInv, TypeOK, TransmitEnds, Fresh, BufferIsFresh, Known,
     NotYetSent, Waiting, Before, task, hist, TransmitterOfPlace
<1>10. QED BY <1>5, <1>6, <1>7, <1>9 DEF IInv

LEMMA ReplyKeeps == ASSUME IInv, Reply PROVE IInv'
<1> DEFINE n == Head(pending)
<1>1. pending \in Seq(1..Commands) /\ pending # <<>> /\ pending' = Tail(pending)
      /\ n \in 1..Commands /\ pending' \in Seq(1..Commands)
  BY Shortened DEF IInv, TypeOK, Reply
<1>2. /\ Members(pending') \subseteq Members(pending) /\ n \in Members(pending)
      /\ Increasing(pending') /\ Before({n}, Members(pending'))
  BY <1>1, MembersOfTail DEF IInv, InOrder
<1>3. Seconds(rxQueue') = Seconds(rxQueue) /\ Ordered(rxQueue') /\ InBuffer' = InBuffer
  BY DEF IInv, InOrder, Reply, rx, buf, InBuffer
<1>4. answer' \in Seq(Halves) /\ Seconds(answer') \subseteq {n} /\ Ordered(answer')
  <2>1. CASE answer' = <<>>
    BY <2>1 DEF Seconds, Ordered
  <2>2. ASSUME NEW kind \in Kinds, answer' = <<Half(n, kind, 1), Half(n, kind, 2)>>
        PROVE  answer' \in Seq(Halves) /\ Seconds(answer') \subseteq {n}
               /\ Ordered(answer')
    <3>1. Half(n, kind, 1) \in Halves /\ Half(n, kind, 2) \in Halves
      BY <1>1 DEF Half, Halves
    <3>2. \A i \in 1..Len(answer') : i \in {1, 2} /\ answer'[i].of = n
                                    /\ (answer'[i].half = 2 => i = 2)
      BY <2>2 DEF Half
    <3>3. QED BY <2>2, <3>1, <3>2 DEF Seconds, Ordered
  <2>3. QED BY <2>1, <2>2 DEF Reply
<1>5. InOrder' /\ Coming' \subseteq Coming
  BY <1>2, <1>3, <1>4 DEF IInv, InOrder, Coming, Before
<1>6. TypeOK'
  BY <1>1, <1>4 DEF IInv, TypeOK, Reply, task, rx, buf, hist
<1>7. Fresh' /\ BufferIsFresh' /\ TransmitterOfPlace' /\ Counts'
  BY <1>3, <1>5 DEF IInv, Reply, Fresh, BufferIsFresh, Known, NotYetSent, Waiting, Before,
     TransmitterOfPlace, Counts, LagBounded, Answers!LagBounded, Answers!Answered, task,
     hist
<1>8. QED BY <1>5, <1>6, <1>7 DEF IInv

\* A byte is stored at the end of the queue, or lost.
LEMMA StoredOrLost ==
  ASSUME IInv, NEW b \in Stream, RxCpltCallback(b)
  PROVE  /\ rxQueue' \in Seq(Stream) /\ Len(rxQueue') <= QueueLength
         /\ receiveState' \in BOOLEAN /\ armed' \in BOOLEAN
         /\ rxQueue' = rxQueue \/ rxQueue' = Append(rxQueue, b)
<1>1. rxQueue \in Seq(Stream) /\ Len(rxQueue) <= QueueLength
  BY DEF IInv, TypeOK, Stream
<1>2. receiveState' \in BOOLEAN /\ armed' \in BOOLEAN
  BY Zenon DEF IInv, TypeOK, RxCpltCallback, rx
<1>3. rxQueue' = rxQueue \/ (rxQueue' = Append(rxQueue, b) /\ Len(rxQueue) < QueueLength)
  BY DEF RxCpltCallback, Store, rx
<1>4. QED BY <1>1, <1>2, <1>3, BoundsAssumption

LEMMA ReplyArrivesKeeps == ASSUME IInv, ReplyArrives PROVE IInv'
<1> DEFINE h == Head(answer)
<1>0. Halves \subseteq Stream /\ Seq(Halves) \subseteq Seq(Stream)
  BY DEF Stream
<1>1. answer \in Seq(Stream) /\ answer # <<>> /\ h \in Halves
      /\ answer' = Tail(answer) /\ answer' \in Seq(Halves)
  BY <1>0, Shortened DEF IInv, TypeOK, ReplyArrives
<1>2. /\ Seconds(answer') \subseteq Seconds(answer)
      /\ h.half = 2 => h.of \in Seconds(answer)
      /\ Ordered(answer')
      /\ h.half = 2 => Before({h.of}, Seconds(answer'))
  BY <1>1, SecondsOfTail DEF IInv, InOrder
<1>3. Members(pending') = Members(pending) /\ Increasing(pending')
      /\ InBuffer' = InBuffer
  BY DEF IInv, InOrder, ReplyArrives, buf, InBuffer
<1>4. /\ rxQueue' \in Seq(Stream) /\ Len(rxQueue') <= QueueLength
      /\ receiveState' \in BOOLEAN /\ armed' \in BOOLEAN
      /\ rxQueue' = rxQueue \/ rxQueue' = Append(rxQueue, h)
  BY <1>0, <1>1, StoredOrLost DEF ReplyArrives
<1>5. /\ Ordered(rxQueue')
      /\ \A n \in Seconds(rxQueue') : n \in Seconds(rxQueue) \/ (h.half = 2 /\ n = h.of)
  <2>1. rxQueue \in Seq(Stream) /\ h \in Stream
    BY <1>0, <1>1 DEF IInv, TypeOK, Stream
  <2>2. Ordered(rxQueue) /\ (h.half = 2 => Before(Seconds(rxQueue), {h.of}))
    BY <1>2 DEF IInv, InOrder, Before
  <2>3. QED BY <2>1, <2>2, <1>4, SecondsOfAppend
<1>6. InOrder' /\ Coming' \subseteq Coming
  BY <1>2, <1>3, <1>5 DEF IInv, InOrder, Coming, Before
<1>7. TypeOK'
  BY <1>1, <1>4 DEF IInv, TypeOK, ReplyArrives, Stream, task, buf, hist
<1>8. Fresh' /\ BufferIsFresh' /\ TransmitterOfPlace' /\ Counts'
  BY <1>3, <1>6 DEF IInv, ReplyArrives, Fresh, BufferIsFresh, Known, NotYetSent, Waiting,
     Before, TransmitterOfPlace, Counts, LagBounded, Answers!LagBounded,
     Answers!Answered, task, hist
<1>9. QED BY <1>6, <1>7, <1>8 DEF IInv

LEMMA TextArrivesKeeps == ASSUME IInv, TextArrives PROVE IInv'
<1>1. Text \in Stream /\ Text.half # 2
  BY DEF Stream, Text, Half
<1>2. /\ rxQueue' \in Seq(Stream) /\ Len(rxQueue') <= QueueLength
      /\ receiveState' \in BOOLEAN /\ armed' \in BOOLEAN
      /\ rxQueue' = rxQueue \/ rxQueue' = Append(rxQueue, Text)
  BY <1>1, StoredOrLost DEF TextArrives
<1>3. Ordered(rxQueue') /\ Seconds(rxQueue') \subseteq Seconds(rxQueue)
  <2>1. rxQueue \in Seq(Stream)
    BY DEF IInv, TypeOK, Stream
  <2>2. QED BY <2>1, <1>1, <1>2, SecondsOfAppend DEF IInv, InOrder
<1>4. /\ Members(pending') = Members(pending) /\ Seconds(answer') = Seconds(answer)
      /\ Ordered(answer') /\ Increasing(pending') /\ InBuffer' = InBuffer
  BY DEF IInv, InOrder, TextArrives, modem, buf, InBuffer
<1>5. InOrder' /\ Coming' \subseteq Coming
  BY <1>3, <1>4 DEF IInv, InOrder, Coming, Before
<1>6. TypeOK'
  BY <1>2 DEF IInv, TypeOK, TextArrives, Stream, task, buf, modem, hist
<1>7. Fresh' /\ BufferIsFresh' /\ TransmitterOfPlace' /\ Counts'
  BY <1>4, <1>5 DEF IInv, TextArrives, Fresh, BufferIsFresh, Known, NotYetSent, Waiting,
     Before, TransmitterOfPlace, Counts, LagBounded, Answers!LagBounded,
     Answers!Answered, task, hist
<1>8. QED BY <1>5, <1>6, <1>7 DEF IInv

LEMMA NextKeeps == IInv /\ [Next]_vars => IInv'
<1> SUFFICES ASSUME IInv, [Next]_vars PROVE IInv'
  OBVIOUS
<1>1. CASE RunAtCommand
  BY <1>1, PrepareKeeps, LockHandleKeeps, StartTransmitKeeps, ReceiveFromQueueKeeps,
     ReceiveTimeoutKeeps, CloseCommandKeeps DEF RunAtCommand
<1>2. CASE Line
  BY <1>2, OverrunKeeps, TransmitEndsKeeps, ReplyKeeps, ReplyArrivesKeeps,
     TextArrivesKeeps DEF Line
<1>3. CASE UNCHANGED vars
  <2>1. InOrder' /\ Coming' = Coming /\ InBuffer' = InBuffer
    BY <1>3, SameComing DEF IInv, vars, rx, buf, modem, InBuffer
  <2>2. QED
    BY <1>3, <2>1 DEF vars, task, rx, buf, modem, hist, IInv, TypeOK, Fresh,
       BufferIsFresh, Known, NotYetSent, Waiting, TransmitterOfPlace, Counts, LagBounded,
       Answers!LagBounded, Answers!Answered
<1>4. QED BY <1>1, <1>2, <1>3 DEF Next

LEMMA Inductive == Spec => []IInv
  BY InitIInv, NextKeeps, PTL DEF Spec

-----------------------------------------------------------------------------
\* Every variable keeps its type: the queue never holds more than it can, and
\* receiveCount stays inside the buffer (runAtCommand, uartParceReceiveData).
THEOREM TypeCorrect == Spec => []TypeOK
  BY Inductive, PTL DEF IInv

\* How far a reply can lag: a command takes the reply of an earlier one only when
\* some command has timed out, and is never further behind than by those.
THEOREM LagIsBounded == Spec => []LagBounded
  BY Inductive, PTL DEF IInv, Counts

\* The text of a command is never erased under the transmitter before the first
\* timeout (pData, freed at the end of runAtCommand).
THEOREM TextIsSafeBeforeTimeout == Spec => []TextErasedOnlyAfterTimeout
<1>1. IInv => TextErasedOnlyAfterTimeout
  BY DEF IInv, Counts, TextErasedOnlyAfterTimeout
<1>2. QED BY <1>1, Inductive, PTL

\* Every step of the dialogue is a step of AnswerOrder, or none.
LEMMA StepImplements ==
  IInv /\ IInv' /\ [Next]_vars => [Answers!Next]_(Answers!vars)
<1> SUFFICES ASSUME IInv, IInv', [Next]_vars
             PROVE  Answers!Next \/ UNCHANGED Answers!vars
  OBVIOUS
<1> USE DEF Answers!vars, Answers!Next
<1>1. CASE Prepare
  <2>1. Answers!Issue
    BY <1>1 DEF IInv, TypeOK, Prepare, Answers!Issue, hist
  <2>2. QED BY <2>1
<1>2. CASE LockHandle \/ StartTransmit
  BY <1>2 DEF LockHandle, StartTransmit, hist
<1>3. CASE ReceiveFromQueue
  <2>1. CASE OkFound(pRxBuffer')
    <3>1. last' \in (last+1)..command
      BY <2>1, <1>3, ReceivedIsLater DEF IInv, TypeOK, InBuffer
    <3>2. Answers!Answer
      BY <3>1, <2>1, <1>3 DEF ReceiveFromQueue, Answers!Answer
    <3>3. QED BY <3>2
  <2>2. CASE ~OkFound(pRxBuffer')
    BY <2>2, <1>3 DEF ReceiveFromQueue
  <2>3. QED BY <2>1, <2>2
<1>4. CASE ReceiveTimeout
  <2>1. Answers!GiveUp
    BY <1>4 DEF ReceiveTimeout, Answers!GiveUp
  <2>2. QED BY <2>1
<1>5. CASE CloseCommand
  <2>1. command \in Nat /\ pc = "closing" /\ last' = last /\ givenUp' = givenUp
    BY <1>5 DEF IInv, TypeOK, CloseCommand, hist
  <2>2. \/ pc' = "delay" /\ command' = command + 1
        \/ pc' = "end" /\ command' = command
    BY <1>5 DEF CloseCommand
  <2>3. QED BY <2>1, <2>2
<1>6. CASE Line
  BY <1>6 DEF Line, Overrun, TransmitEnds, Reply, ReplyArrives, TextArrives, task, hist
<1>7. CASE UNCHANGED vars
  BY <1>7 DEF vars, task, hist
<1>8. QED
  BY <1>1, <1>2, <1>3, <1>4, <1>5, <1>6, <1>7 DEF Next, RunAtCommand

\* The dialogue implements AnswerOrder: each command is given up or takes one reply,
\* in the order of the commands the replies were meant for, although nothing clears
\* rxQueue and no reply names its command.
THEOREM AnswersAreInOrder == Spec => AnswersInOrder
<1>1. Init => Answers!Init
  BY DEF Init, Answers!Init
<1>2. QED
  BY <1>1, StepImplements, Inductive, PTL DEF Spec, AnswersInOrder, Answers!Spec
=============================================================================
