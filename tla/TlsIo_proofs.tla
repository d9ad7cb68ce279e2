---------------------------- MODULE TlsIo_proofs ----------------------------
(***************************************************************************)
(* What the timers tell, for every width of the counter; and that a read is  *)
(* over in time and stays in step with the broker, for every stream of       *)
(* packets, every time and every size of the buffer.                         *)
(***************************************************************************)
EXTENDS TlsIo, SequenceTheorems, TLAPS

-----------------------------------------------------------------------------
(* The timers.                                                               *)

THEOREM LeftIsExact ==
  ASSUME NEW start \in Tick, NEW timeout \in Nat, NEW e \in Nat,
         timeout < Half, e - timeout <= Half, e < W
  PROVE  Left(CountdownMs(start, timeout), Wrap(start + e)) = timeout - e
  BY HalfAssumption, SMT DEF Left, CountdownMs, Signed, Wrap, W, Tick

\* has_timer_expired: a timer expires at the first tick behind its end, not before.
COROLLARY ExpiresWhenOver ==
  ASSUME NEW start \in Tick, NEW timeout \in Nat, NEW e \in Nat,
         timeout < Half, e - timeout <= Half, e < W
  PROVE  HasTimerExpired(CountdownMs(start, timeout), Wrap(start + e)) <=> e > timeout
<1>1. Left(CountdownMs(start, timeout), Wrap(start + e)) = timeout - e
  BY LeftIsExact
<1>2. QED BY <1>1, SMT DEF HasTimerExpired

\* net.c: without a wrap net_timeout_left_ms tells what is left.
THEOREM NetTimeoutExactWithoutWrap ==
  ASSUME NEW start \in Tick, NEW timeout \in Nat, NEW e \in Nat,
         timeout < Half, e - timeout <= Half, start + e < W
  PROVE  NetTimeoutLeftMs(start, Wrap(start + e), timeout) = timeout - e
  BY HalfAssumption, SMT DEF NetTimeoutLeftMs, WrapEnd, Signed, Wrap, W, Tick

\* After a wrap it tells what would be left had the wait begun one tick behind it:
\* net_timeout_left_ms is not "robust to uint32_t overflows", but it is never early.
THEOREM NetTimeoutAfterWrap ==
  ASSUME NEW start \in Tick, NEW timeout \in Nat, NEW e \in Nat,
         timeout < Half, e < W, start + e >= W, start + e - W < Half
  PROVE  NetTimeoutLeftMs(start, Wrap(start + e), timeout)
           = timeout - 1 - (start + e - W)
  BY HalfAssumption, SMT DEF NetTimeoutLeftMs, WrapEnd, Signed, Wrap, W, Tick

\* A wait on net_timeout_left_ms is never over early, and it is over before twice
\* its time when the counter wraps before the time is over.
THEOREM NetTimeoutNeverEarly ==
  ASSUME NEW start \in Tick, NEW timeout \in Nat, NEW e \in Nat,
         timeout < Half, e < Half, NetTimeoutLeftMs(start, Wrap(start + e), timeout) <= 0
  PROVE  e >= timeout
<1>1. CASE start + e < W
  BY <1>1, NetTimeoutExactWithoutWrap, HalfAssumption, SMT DEF W
<1>2. CASE start + e >= W
  <2>1. e < W /\ start + e - W < Half
    BY <1>2, HalfAssumption, SMT DEF W, Tick
  <2>2. NetTimeoutLeftMs(start, Wrap(start + e), timeout) = timeout - 1 - (start + e - W)
    BY <1>2, <2>1, NetTimeoutAfterWrap
  <2>3. QED BY <1>2, <2>2, HalfAssumption, SMT DEF W, Tick
<1>3. QED BY <1>1, <1>2, HalfAssumption, SMT DEF W, Tick

THEOREM NetTimeoutBelowTwice ==
  ASSUME NEW start \in Tick, NEW timeout \in Nat, NEW e \in Nat,
         timeout < Half, e < Half, W - start <= timeout, e >= 2 * timeout
  PROVE  NetTimeoutLeftMs(start, Wrap(start + e), timeout) <= 0
<1>1. start + e >= W /\ start + e - W < Half /\ e < W
  BY HalfAssumption, SMT DEF W, Tick
<1>2. NetTimeoutLeftMs(start, Wrap(start + e), timeout) = timeout - 1 - (start + e - W)
  BY <1>1, NetTimeoutAfterWrap
<1>3. QED BY <1>2, HalfAssumption, SMT DEF W, Tick

-----------------------------------------------------------------------------
(* Packets and where they begin.                                             *)

LEMMA FirstTyped ==
  /\ Len(First) \in Nat \ {0} /\ \A i \in 1..Len(First) : First[i] \in Nat
  /\ Packets \subseteq 1..Len(First) /\ \A i \in Packets : i + 1 \in 1..Len(First)
  BY PacketsAssumption DEF Packets

LEMMA BoundariesTyped ==
  /\ Total \in Nat /\ 1 \in Boundaries /\ Total + 1 \in Boundaries
  /\ \A b \in Boundaries : b \in Nat /\ 1 <= b /\ b <= Total + 1
<1>1. PICK m \in Nat \ {0} : m = Len(First)
  BY FirstTyped
<1>2. /\ \A i \in 1..m : First[i] \in Nat
      /\ \A i, j \in 1..m : i < j => First[i] + 2 <= First[j]
      /\ First[1] = 1 /\ 1 \in 1..m /\ m \in 1..m
  BY <1>1, FirstTyped, PacketsAssumption
<1>3. \A i \in 1..m : 1 <= First[i] /\ First[i] <= First[m]
  <2> TAKE i \in 1..m
  <2>1. i = 1 \/ 1 < i
    OBVIOUS
  <2>2. i = m \/ i < m
    OBVIOUS
  <2>3. 1 <= First[i]
    BY <1>2, <2>1
  <2>4. First[i] <= First[m]
    BY <1>2, <2>2
  <2>5. QED BY <2>3, <2>4
<1>4. Total + 1 = First[m] /\ Total \in Nat
  BY <1>1, <1>2, <1>3 DEF Total
<1>5. QED BY <1>1, <1>2, <1>3, <1>4 DEF Boundaries

LEMMA PacketTyped ==
  ASSUME NEW i \in Packets
  PROVE  /\ Bodies[i] \in Nat /\ Bodies[i] \in Lengths
         /\ First[i] \in Nat /\ First[i] + 2 + Bodies[i] = First[i+1]
         /\ First[i] \in Boundaries /\ First[i] + 2 + Bodies[i] \in Boundaries
<1>1. i \in 1..Len(First) /\ i + 1 \in 1..Len(First) /\ i < i + 1
  BY FirstTyped DEF Packets
<1>2. First[i] \in Nat /\ First[i+1] \in Nat /\ First[i] + 2 <= First[i+1]
  BY <1>1, FirstTyped, PacketsAssumption
<1>3. Bodies[i] = First[i+1] - First[i] - 2
  BY DEF Bodies
<1>4. Bodies[i] \in Lengths
  BY DEF Lengths
<1>5. First[i] \in Boundaries /\ First[i+1] \in Boundaries
  BY <1>1 DEF Boundaries
<1>6. Bodies[i] \in Nat /\ First[i] + 2 + Bodies[i] = First[i+1]
  BY <1>2, <1>3
<1>7. QED BY <1>2, <1>4, <1>5, <1>6

LEMMA LengthsTyped == Lengths \subseteq Nat
  BY PacketTyped DEF Lengths

LEMMA BetweenPackets ==
  ASSUME NEW i \in Packets, NEW x \in Nat, First[i] < x, x < First[i] + 2 + Bodies[i]
  PROVE  x \notin Boundaries
<1> SUFFICES ASSUME NEW k \in 1..Len(First), First[k] = x PROVE FALSE
  BY DEF Boundaries
<1>1. i \in 1..Len(First) /\ i + 1 \in 1..Len(First) /\ First[i] \in Nat
      /\ First[i+1] = First[i] + 2 + Bodies[i] /\ First[i+1] \in Nat /\ First[k] \in Nat
  BY FirstTyped, PacketTyped
<1>2. k = i \/ k < i \/ k = i + 1 \/ i + 1 < k
  BY <1>1, FirstTyped
<1>3. /\ k < i => First[k] + 2 <= First[i]
      /\ i + 1 < k => First[i+1] + 2 <= First[k]
  BY <1>1, PacketsAssumption
<1>4. QED BY <1>1, <1>2, <1>3

LEMMA PacketOfStart ==
  ASSUME NEW b \in Boundaries, b # Total + 1
  PROVE  \E i \in Packets : First[i] = b
<1>1. PICK i \in 1..Len(First) : First[i] = b
  BY DEF Boundaries
<1>2. i # Len(First)
  <2>1. First[Len(First)] \in Nat
    BY FirstTyped
  <2>2. QED BY <1>1, <2>1 DEF Total
<1>3. i \in Packets
  BY <1>2, FirstTyped DEF Packets
<1>4. QED BY <1>1, <1>3

LEMMA PacketIsUnique ==
  ASSUME NEW i \in Packets, NEW j \in Packets, First[i] = First[j]
  PROVE  i = j
<1>1. i \in 1..Len(First) /\ j \in 1..Len(First) /\ First[i] \in Nat /\ First[j] \in Nat
  BY FirstTyped
<1>2. /\ i < j => First[i] + 2 <= First[j]
      /\ j < i => First[j] + 2 <= First[i]
  BY <1>1, PacketsAssumption
<1>3. QED BY <1>1, <1>2, FirstTyped

\* k bytes of a packet are to come behind position p.
Mid(p, k) ==
  /\ k \in Nat \ {0} /\ p + 1 + k \in Boundaries
  /\ \A j \in 0..k-1 : p + 1 + j \notin Boundaries
ToCome(p, k) == IF k = 0 THEN p + 1 \in Boundaries ELSE Mid(p, k)

LEMMA TypeByteRead ==
  ASSUME NEW p \in Nat, NEW i \in Packets, First[i] = p
  PROVE  Mid(p, 1 + Bodies[i])
<1>1. Bodies[i] \in Nat /\ p + 2 + Bodies[i] \in Boundaries
  BY PacketTyped
<1>2. PICK k \in Nat \ {0} : k = 1 + Bodies[i]
  BY <1>1
<1>3. p + 1 + k \in Boundaries
  BY <1>1, <1>2
<1>4. ASSUME NEW j \in 0..k-1 PROVE p + 1 + j \notin Boundaries
  <2>1. PICK x \in Nat : x = p + 1 + j
    OBVIOUS
  <2>2. First[i] < x /\ x < First[i] + 2 + Bodies[i]
    BY <1>1, <1>2, <2>1
  <2>3. QED BY <2>1, <2>2, BetweenPackets
<1>5. QED BY <1>2, <1>3, <1>4 DEF Mid

LEMMA BytesRead ==
  ASSUME NEW p \in Nat, NEW k, Mid(p, k), NEW n \in 1..k
  PROVE  k - n \in Nat /\ ToCome(p + n, k - n)
<1>1. k \in Nat \ {0} /\ p + 1 + k \in Boundaries /\ \A j \in 0..k-1 : p + 1 + j \notin Boundaries
  BY DEF Mid
<1>2. PICK q \in Nat, m \in Nat : q = p + n /\ m = k - n
  BY <1>1
<1>3. q + 1 + m = p + 1 + k
  BY <1>1, <1>2
<1>4. CASE m = 0
  BY <1>1, <1>2, <1>3, <1>4 DEF ToCome
<1>5. CASE m # 0
  <2>1. ASSUME NEW j \in 0..m-1 PROVE q + 1 + j \notin Boundaries
    <3>1. j + n \in 0..k-1 /\ q + 1 + j = p + 1 + (j + n)
      BY <1>1, <1>2
    <3>2. p + 1 + (j + n) \notin Boundaries
      BY <1>1, <3>1
    <3>3. QED BY <3>1, <3>2
  <2>2. Mid(q, m)
    BY <1>1, <1>3, <1>5, <2>1 DEF Mid
  <2>3. QED BY <1>2, <1>5, <2>2 DEF ToCome
<1>6. QED BY <1>4, <1>5

\* A record that ends at the end of a packet holds all of the packet's bytes to come.
LEMMA PacketIsHere ==
  ASSUME NEW p \in Nat, NEW k, Mid(p, k), NEW h \in Nat \ {0}, p + h + 1 \in Boundaries
  PROVE  k <= h
<1>1. k \in Nat \ {0} /\ \A j \in 0..k-1 : p + 1 + j \notin Boundaries
  BY DEF Mid
<1>2. p + 1 + h \in Boundaries
  <2>1. p + 1 + h = p + h + 1
    OBVIOUS
  <2>2. QED BY <2>1
<1>3. h \notin 0..k-1
  BY <1>1, <1>2
<1>4. QED BY <1>1, <1>3

-----------------------------------------------------------------------------
(* The records and the positions of their bytes in the stream.               *)

\* Record i holds the bytes from f[i] + 1 to f[i+1].
Ends(f, rs, t, a) ==
  /\ f \in [1..Len(rs)+1 -> Nat]
  /\ f[1] = t /\ f[Len(rs)+1] = a
  /\ \A i \in 1..Len(rs) : f[i+1] = f[i] + rs[i]
  /\ \A i, j \in 1..Len(rs)+1 : i <= j => f[i] <= f[j]

EndWithPackets(f, rs) == \A i \in 2..Len(rs)+1 : f[i] + 1 \in Boundaries

Stream(rs, t, a, whole) ==
  \E f : Ends(f, rs, t, a) /\ (whole => EndWithPackets(f, rs))

LEMMA EmptyStream == Stream(<<>>, 0, 0, TRUE)
<1> DEFINE f == [i \in 1..1 |-> 0]
<1>1. Ends(f, <<>>, 0, 0) /\ EndWithPackets(f, <<>>)
  BY DEF Ends, EndWithPackets
<1>2. QED BY <1>1 DEF Stream

LEMMA EndsTyped ==
  ASSUME NEW rs \in Seq(Nat), NEW t, NEW a, NEW f, Ends(f, rs, t, a),
         NEW m \in Nat, m = Len(rs)
  PROVE  /\ \A i \in 1..m+1 : f[i] \in Nat
         /\ f[1] = t /\ f[m+1] = a /\ a \in Nat /\ t \in Nat
         /\ \A i, j \in 1..m+1 : i <= j => f[i] <= f[j]
<1>1. f \in [1..m+1 -> Nat] /\ f[1] = t /\ f[m+1] = a
  BY DEF Ends
<1>2. \A i \in 1..m+1 : f[i] \in Nat
  BY <1>1
<1>3. a \in Nat /\ t \in Nat
  <2>1. 1 \in 1..m+1 /\ m+1 \in 1..m+1
    OBVIOUS
  <2>2. QED BY <1>1, <1>2, <2>1
<1>4. \A i, j \in 1..m+1 : i <= j => f[i] <= f[j]
  BY DEF Ends
<1>5. QED BY <1>1, <1>2, <1>3, <1>4

LEMMA StreamOrdered ==
  ASSUME NEW rs \in Seq(Nat), NEW t, NEW a, NEW whole, Stream(rs, t, a, whole)
  PROVE  t \in Nat /\ a \in Nat /\ t <= a /\ (rs = <<>> => t = a)
<1>1. PICK f : Ends(f, rs, t, a)
  BY DEF Stream
<1>2. PICK m \in Nat : m = Len(rs)
  OBVIOUS
<1>3. 1 \in 1..m+1 /\ m+1 \in 1..m+1 /\ 1 <= m+1
  OBVIOUS
<1>4. QED BY <1>1, <1>2, <1>3 DEF Ends

LEMMA StreamHead ==
  ASSUME NEW rs \in Seq(Nat), rs # <<>>, NEW t, NEW a, NEW whole, Stream(rs, t, a, whole)
  PROVE  /\ Head(rs) \in Nat /\ t + Head(rs) <= a
         /\ whole => t + Head(rs) + 1 \in Boundaries
<1>1. PICK f : Ends(f, rs, t, a) /\ (whole => EndWithPackets(f, rs))
  BY DEF Stream
<1>2. PICK m \in Nat : m = Len(rs)
  OBVIOUS
<1>3. m >= 1 /\ Head(rs) = rs[1] /\ rs[1] \in Nat
  BY <1>2
<1>4. 1 \in 1..m /\ 1 \in 1..m+1 /\ 2 \in 1..m+1 /\ 2 \in 2..m+1 /\ m+1 \in 1..m+1 /\ 2 <= m+1
  BY <1>3
<1>5. f[2] = t + Head(rs) /\ f[2] <= a
  BY <1>1, <1>2, <1>3, <1>4 DEF Ends
<1>6. whole => f[2] + 1 \in Boundaries
  BY <1>1, <1>2, <1>4 DEF EndWithPackets
<1>7. QED BY <1>3, <1>5, <1>6

LEMMA StreamGrows ==
  ASSUME NEW rs \in Seq(Nat), NEW t, NEW a, NEW whole, Stream(rs, t, a, whole),
         NEW n \in Nat, NEW qs, qs = Append(rs, n),
         NEW still, still => whole /\ a + n + 1 \in Boundaries
  PROVE  Stream(qs, t, a + n, still)
<1>1. PICK f : Ends(f, rs, t, a) /\ (whole => EndWithPackets(f, rs))
  BY DEF Stream
<1>2. PICK m \in Nat : m = Len(rs)
  OBVIOUS
<1>3. Len(qs) = m + 1 /\ qs[m+1] = n /\ \A i \in 1..m : qs[i] = rs[i]
  BY <1>2
<1>4. /\ \A i \in 1..m+1 : f[i] \in Nat
      /\ f[1] = t /\ f[m+1] = a /\ a \in Nat
      /\ \A i \in 1..m : f[i+1] = f[i] + rs[i]
      /\ \A i, j \in 1..m+1 : i <= j => f[i] <= f[j]
  <2>1. Ends(f, rs, t, a)
    BY <1>1
  <2>2. /\ \A i \in 1..m+1 : f[i] \in Nat
        /\ f[1] = t /\ f[m+1] = a
    BY <1>2, <2>1, EndsTyped
  <2>3. a \in Nat /\ t \in Nat
    BY <1>2, <2>1, EndsTyped
  <2>4. \A i \in 1..m : f[i+1] = f[i] + rs[i]
    BY <1>2, <2>1 DEF Ends
  <2>5. \A i, j \in 1..m+1 : i <= j => f[i] <= f[j]
    BY <1>2, <2>1, EndsTyped
  <2>6. QED BY <2>2, <2>3, <2>4, <2>5
<1>5. PICK g : g = [i \in 1..(m+1)+1 |-> IF i = (m+1)+1 THEN a + n ELSE f[i]]
  OBVIOUS
<1>6. \A i \in 1..(m+1)+1 : (i \in 1..m+1 /\ i # (m+1)+1) \/ i = (m+1)+1
  OBVIOUS
<1>7. /\ g \in [1..(m+1)+1 -> Nat] /\ \A i \in 1..m+1 : g[i] = f[i]
      /\ g[(m+1)+1] = a + n
  BY <1>4, <1>5, <1>6
<1>8. g[1] = t
  BY <1>4, <1>7
<1>9. ASSUME NEW i \in 1..m+1 PROVE g[i+1] = g[i] + qs[i]
  <2>1. CASE i = m+1
    BY <1>3, <1>4, <1>7, <2>1
  <2>2. CASE i # m+1
    <3>1. i \in 1..m /\ i+1 \in 1..m+1
      BY <2>2
    <3>2. QED BY <1>3, <1>4, <1>7, <3>1
  <2>3. QED BY <2>1, <2>2
<1>10. ASSUME NEW i \in 1..(m+1)+1, NEW j \in 1..(m+1)+1, i <= j PROVE g[i] <= g[j]
  <2>1. CASE j = (m+1)+1
    <3>1. CASE i = (m+1)+1
      BY <1>4, <1>7, <2>1, <3>1
    <3>2. CASE i \in 1..m+1
      <4>1. f[i] <= f[m+1] /\ f[i] \in Nat
        BY <1>4, <3>2
      <4>2. QED BY <1>4, <1>7, <2>1, <3>2, <4>1
    <3>3. QED BY <1>6, <3>1, <3>2
  <2>2. CASE j # (m+1)+1
    <3>1. i \in 1..m+1 /\ j \in 1..m+1
      BY <1>10, <2>2
    <3>2. QED BY <1>4, <1>7, <1>10, <3>1
  <2>3. QED BY <2>1, <2>2
<1>11. Ends(g, qs, t, a + n)
  BY <1>3, <1>7, <1>8, <1>9, <1>10 DEF Ends
<1>12. ASSUME still PROVE EndWithPackets(g, qs)
  <2> SUFFICES ASSUME NEW i \in 2..(m+1)+1 PROVE g[i] + 1 \in Boundaries
    BY <1>3 DEF EndWithPackets
  <2>1. CASE i = (m+1)+1
    BY <1>7, <1>12, <2>1
  <2>2. CASE i # (m+1)+1
    <3>1. i \in 2..m+1 /\ i \in 1..m+1
      BY <2>2
    <3>2. f[i] + 1 \in Boundaries
      BY <1>1, <1>2, <1>12, <3>1 DEF EndWithPackets
    <3>3. QED BY <1>7, <3>1, <3>2
  <2>3. QED BY <2>1, <2>2
<1>13. QED BY <1>11, <1>12 DEF Stream

LEMMA StreamTaken ==
  ASSUME NEW rs \in Seq(Nat), rs # <<>>, NEW t, NEW a, NEW whole, Stream(rs, t, a, whole),
         NEW n \in Nat, n <= Head(rs),
         NEW qs, qs = IF n = Head(rs) THEN Tail(rs) ELSE [rs EXCEPT ![1] = @ - n]
  PROVE  Stream(qs, t + n, a, whole)
<1>1. PICK f : Ends(f, rs, t, a) /\ (whole => EndWithPackets(f, rs))
  BY DEF Stream
<1>2. PICK m \in Nat : m = Len(rs)
  OBVIOUS
<1>3. m >= 1 /\ Head(rs) = rs[1] /\ rs[1] \in Nat /\ 1 \in 1..m
  BY <1>2
<1>4. /\ \A i \in 1..m+1 : f[i] \in Nat
      /\ f[1] = t /\ f[m+1] = a /\ a \in Nat /\ t \in Nat
      /\ \A i \in 1..m : f[i+1] = f[i] + rs[i]
      /\ \A i, j \in 1..m+1 : i <= j => f[i] <= f[j]
  <2>1. Ends(f, rs, t, a)
    BY <1>1
  <2>2. /\ \A i \in 1..m+1 : f[i] \in Nat
        /\ f[1] = t /\ f[m+1] = a
    BY <1>2, <2>1, EndsTyped
  <2>3. a \in Nat /\ t \in Nat
    BY <1>2, <2>1, EndsTyped
  <2>4. \A i \in 1..m : f[i+1] = f[i] + rs[i]
    BY <1>2, <2>1 DEF Ends
  <2>5. \A i, j \in 1..m+1 : i <= j => f[i] <= f[j]
    BY <1>2, <2>1, EndsTyped
  <2>6. QED BY <2>2, <2>3, <2>4, <2>5
<1>5. f[2] = t + rs[1]
  BY <1>3, <1>4
<1>6. CASE n = Head(rs)
  <2>1. PICK k \in Nat : m = k + 1
    <3>1. m - 1 \in Nat /\ m = (m-1) + 1
      BY <1>3
    <3>2. QED BY <3>1
  <2>2. qs = Tail(rs) /\ Len(qs) = k /\ \A i \in 1..k : qs[i] = rs[i+1]
    <3>1. qs = Tail(rs)
      BY <1>6
    <3>2. Len(qs) = m - 1 /\ \A i \in 1..m-1 : qs[i] = rs[i+1]
      BY <1>2, <1>3, <3>1
    <3>3. m - 1 = k
      BY <2>1
    <3>4. QED BY <3>1, <3>2, <3>3
  <2>3. PICK g : g = [i \in 1..k+1 |-> f[i+1]]
    OBVIOUS
  <2>4. \A i \in 1..k+1 : i+1 \in 1..m+1
    BY <2>1
  <2>5. /\ g \in [1..k+1 -> Nat] /\ \A i \in 1..k+1 : g[i] = f[i+1]
    BY <1>4, <2>3, <2>4
  <2>6. g[1] = t + n /\ g[k+1] = a
    <3>1. 1 \in 1..k+1 /\ k+1 \in 1..k+1
      OBVIOUS
    <3>2. QED BY <1>3, <1>4, <1>5, <1>6, <2>1, <2>5, <3>1
  <2>7. ASSUME NEW i \in 1..k PROVE g[i+1] = g[i] + qs[i]
    <3>1. i+1 \in 1..m /\ i \in 1..k+1 /\ i+1 \in 1..k+1
      BY <2>1
    <3>2. QED BY <1>4, <2>2, <2>5, <3>1
  <2>8. ASSUME NEW i \in 1..k+1, NEW j \in 1..k+1, i <= j PROVE g[i] <= g[j]
    <3>1. i+1 \in 1..m+1 /\ j+1 \in 1..m+1 /\ i+1 <= j+1
      BY <2>1, <2>8
    <3>2. f[i+1] <= f[j+1]
      BY <1>4, <3>1
    <3>3. QED BY <2>5, <3>2
  <2>9. Ends(g, qs, t + n, a)
    BY <2>2, <2>5, <2>6, <2>7, <2>8 DEF Ends
  <2>10. ASSUME whole PROVE EndWithPackets(g, qs)
    <3> SUFFICES ASSUME NEW i \in 2..k+1 PROVE g[i] + 1 \in Boundaries
      BY <2>2 DEF EndWithPackets
    <3>1. i \in 1..k+1 /\ i+1 \in 2..m+1
      BY <2>1
    <3>2. f[i+1] + 1 \in Boundaries
      BY <1>1, <1>2, <2>10, <3>1 DEF EndWithPackets
    <3>3. QED BY <2>5, <3>1, <3>2
  <2>11. QED BY <2>9, <2>10 DEF Stream
<1>7. CASE n # Head(rs)
  <2>1. qs = [rs EXCEPT ![1] = rs[1] - n]
    BY <1>3, <1>7
  <2>2. Len(qs) = m /\ qs[1] = rs[1] - n /\ \A i \in 1..m : i # 1 => qs[i] = rs[i]
    BY <1>2, <1>3, <2>1
  <2>3. PICK g : g = [i \in 1..m+1 |-> IF i = 1 THEN t + n ELSE f[i]]
    OBVIOUS
  <2>4. /\ g \in [1..m+1 -> Nat] /\ g[1] = t + n /\ \A i \in 1..m+1 : i # 1 => g[i] = f[i]
    BY <1>4, <2>3
  <2>5. g[m+1] = a
    <3>1. m+1 \in 1..m+1 /\ m+1 # 1
      BY <1>3
    <3>2. QED BY <1>4, <2>4, <3>1
  <2>6. ASSUME NEW i \in 1..m PROVE g[i+1] = g[i] + qs[i]
    <3>1. i+1 \in 1..m+1 /\ i+1 # 1 /\ i \in 1..m+1
      OBVIOUS
    <3>2. g[i+1] = f[i+1] /\ f[i+1] = f[i] + rs[i]
      BY <1>4, <2>4, <3>1
    <3>3. CASE i = 1
      <4>1. g[i+1] = t + rs[1] /\ g[i] = t + n /\ qs[i] = rs[1] - n
        BY <1>4, <2>2, <2>4, <3>2, <3>3
      <4>2. PICK r \in Nat : r = rs[1]
        BY <1>3
      <4>3. t \in Nat /\ t + r = (t + n) + (r - n)
        BY <1>4
      <4>4. QED BY <4>1, <4>2, <4>3
    <3>4. CASE i # 1
      BY <2>2, <2>4, <3>1, <3>2, <3>4
    <3>5. QED BY <3>3, <3>4
  <2>7. ASSUME NEW i \in 1..m+1, NEW j \in 1..m+1, i <= j PROVE g[i] <= g[j]
    <3>1. CASE i # 1
      <4>1. j # 1
        BY <2>7, <3>1
      <4>2. QED BY <1>4, <2>4, <2>7, <3>1, <4>1
    <3>2. CASE i = 1 /\ j = 1
      BY <1>4, <2>4, <3>2
    <3>3. CASE i = 1 /\ j # 1
      <4>1. 2 \in 1..m+1 /\ 2 <= j
        BY <1>3, <3>3
      <4>2. f[2] <= f[j] /\ f[j] \in Nat
        BY <1>4, <4>1
      <4>3. QED BY <1>3, <1>4, <1>5, <2>4, <3>3, <4>2
    <3>4. QED BY <3>1, <3>2, <3>3
  <2>8. Ends(g, qs, t + n, a)
    BY <2>2, <2>4, <2>5, <2>6, <2>7 DEF Ends
  <2>9. ASSUME whole PROVE EndWithPackets(g, qs)
    <3> SUFFICES ASSUME NEW i \in 2..m+1 PROVE g[i] + 1 \in Boundaries
      BY <2>2 DEF EndWithPackets
    <3>1. i \in 1..m+1 /\ i # 1
      OBVIOUS
    <3>2. f[i] + 1 \in Boundaries
      BY <1>1, <1>2, <2>9 DEF EndWithPackets
    <3>3. QED BY <2>4, <3>1, <3>2
  <2>10. QED BY <2>8, <2>9 DEF Stream
<1>8. QED BY <1>6, <1>7

-----------------------------------------------------------------------------
(* Types.                                                                    *)

\* The return is a step of iot_tls_read, the wait one of the receive.
Places ==
  /\ pc \in {"idle", "header", "length", "body", "drop", "recv"}
  /\ step \in {"loop", "return", "wait"}
  /\ step = "return" => InRead
  /\ step = "wait" => pc = "recv"

FlagsTyped == early \in BOOLEAN /\ split \in BOOLEAN /\ broken \in BOOLEAN /\ error \in BOOLEAN

TimesTyped ==
  /\ now \in Tick /\ clock \in 0..MaxTime /\ waited \in Nat
  /\ timer \in Tick /\ packet \in Tick /\ due \in Nat /\ packetDue \in Nat
  /\ begun \in Nat /\ begun <= clock
  /\ waited <= IF pc = "idle" THEN 0 ELSE Patience

\* A turn begins with less than want, so it counts less than twice as many.
Counts ==
  /\ want \in Nat /\ want <= BufSize /\ got \in Nat /\ rest \in Nat
  /\ InRead => want >= 1 /\ got < 2 * want
  /\ ~InRead => got = 0 /\ buf = <<>>
  /\ InLoop => got < want
  /\ pc = "drop" => rest >= 1 /\ want = Least(rest, BufSize)
  /\ buf \in Seq(1..Total) /\ Len(buf) <= want
  /\ error => broken

\* The records hold the bytes from taken to arrived, and end where packets end.
InStream ==
  /\ records \in Seq(1..Total) /\ arrived \in 0..Total
  /\ ~split => arrived + 1 \in Boundaries
  /\ Stream(records, taken, arrived, ~split)

Typed == Places /\ FlagsTyped /\ TimesTyped /\ Counts /\ InStream

LEMMA InitTyped == Init => Typed
<1> SUFFICES ASSUME Init PROVE Typed
  OBVIOUS
<1>1. Places
  BY DEF Init, Places
<1>2. FlagsTyped
  BY DEF Init, FlagsTyped
<1>3. TimesTyped
  BY TimesAssumption, HalfAssumption DEF Init, TimesTyped, Tick, W
<1>4. Counts
  BY TimesAssumption DEF Init, Counts, InRead, InLoop
<1>5. InStream
  <2>1. records = <<>> /\ taken = 0 /\ arrived = 0 /\ (~split) = TRUE
    BY DEF Init
  <2>2. Stream(records, taken, arrived, ~split)
    BY <2>1, EmptyStream
  <2>3. arrived + 1 \in Boundaries
    BY <2>1, BoundariesTyped
  <2>4. records \in Seq(1..Total) /\ arrived \in 0..Total
    BY <2>1, BoundariesTyped
  <2>5. QED BY <2>2, <2>3, <2>4 DEF InStream
<1>6. QED BY <1>1, <1>2, <1>3, <1>4, <1>5 DEF Typed

LEMMA RemLenTyped == RemLen \subseteq Lengths \cup {0} /\ RemLen \subseteq Nat
<1>1. RemLen \subseteq Lengths \cup {0}
  <2>1. CASE buf # <<>> /\ buf[1]-1 \in Boundaries \ {Total+1}
    <3>1. PICK b \in Boundaries : b = buf[1]-1 /\ b # Total + 1
      BY <2>1
    <3>2. \E i \in Packets : First[i] = b
      BY <3>1, PacketOfStart
    <3>3. PICK j \in Packets : j = CHOOSE i \in Packets : First[i] = buf[1]-1
      BY <3>1, <3>2
    <3>4. RemLen = {Bodies[j]}
      BY <2>1, <3>3 DEF RemLen
    <3>5. QED BY <3>4, PacketTyped
  <2>2. CASE ~(buf # <<>> /\ buf[1]-1 \in Boundaries \ {Total+1})
    BY <2>2 DEF RemLen
  <2>3. QED BY <2>1, <2>2
<1>2. QED BY <1>1, LengthsTyped

LEMMA PlacesStep == Places /\ [Next]_vars => Places'
<1> SUFFICES ASSUME Places, [Next]_vars PROVE Places'
  OBVIOUS
<1> USE DEF Places, InRead, InLoop, LoopOrReturn, Returns, Done, Begin
<1>1. CASE ClockTicks \/ RecordArrives \/ SessionBreaks \/ UNCHANGED vars
  BY <1>1 DEF ClockTicks, RecordArrives, SessionBreaks, vars
<1>2. CASE ReadSome
  BY <1>2 DEF ReadSome
<1>3. CASE ReadNothing \/ ReadError
  BY <1>3 DEF ReadNothing, ReadError
<1>4. CASE ReadPacket \/ ReadFails \/ HeaderRead
  BY <1>4 DEF ReadPacket, ReadFails, HeaderRead
<1>5. CASE LengthRead
  BY <1>5 DEF LengthRead
<1>6. CASE BodyRead \/ DropRead
  BY <1>6 DEF BodyRead, DropRead
<1>7. CASE SockRecv
  BY <1>7 DEF SockRecv, Recv, RecvTurn, RecvRetries, RecvWantsRead, RecvReturns, RecvTimesOut
<1>8. QED
  BY <1>1, <1>2, <1>3, <1>4, <1>5, <1>6, <1>7 DEF Next, TlsRead, PacketRead

LEMMA FlagsStep == FlagsTyped /\ [Next]_vars => FlagsTyped'
<1> SUFFICES ASSUME FlagsTyped, [Next]_vars PROVE FlagsTyped'
  OBVIOUS
<1> USE DEF FlagsTyped, data, network, timers, Done, Begin
<1>1. CASE ClockTicks
  BY <1>1, Zenon DEF ClockTicks
<1>2. CASE RecordArrives
  BY <1>2, Zenon DEF RecordArrives
<1>3. CASE SessionBreaks \/ UNCHANGED vars
  BY <1>3, Zenon DEF SessionBreaks, vars
<1>4. CASE ReadSome
  BY <1>4, Zenon DEF ReadSome
<1>5. CASE ReadNothing \/ ReadError
  BY <1>5, Zenon DEF ReadNothing, ReadError
<1>6. CASE ReadPacket \/ ReadFails \/ HeaderRead
  BY <1>6, Zenon DEF ReadPacket, ReadFails, HeaderRead
<1>7. CASE LengthRead
  BY <1>7, Zenon DEF LengthRead
<1>8. CASE BodyRead \/ DropRead
  BY <1>8, Zenon DEF BodyRead, DropRead
<1>9. CASE SockRecv
  BY <1>9, Zenon DEF SockRecv, Recv, RecvTurn, RecvRetries, RecvWantsRead, RecvReturns, RecvTimesOut
<1>10. QED
  BY <1>1, <1>2, <1>3, <1>4, <1>5, <1>6, <1>7, <1>8, <1>9, Zenon DEF Next, TlsRead, PacketRead

LEMMA TicksTyped ==
  /\ Timeout \in Nat /\ PacketTimeout \in Nat /\ RecvTimeout \in Nat /\ TcpTimeout \in Nat
  /\ Poll \in Nat \ {0}
  /\ Timeout < Half /\ PacketTimeout < Half /\ RecvTimeout < Half /\ Half \in Nat \ {0}
  /\ MaxTime \in Nat /\ BufSize \in Nat \ {0} /\ 0 \in Tick
  /\ \A n \in Tick : Wrap(n + 1) \in Tick
  /\ \A n \in Tick, t \in Nat : t < Half => CountdownMs(n, t) \in Tick
  BY TimesAssumption, HalfAssumption DEF Tick, W, Wrap, CountdownMs

LEMMA TimesStep == Places /\ TimesTyped /\ [Next]_vars => TimesTyped'
<1> SUFFICES ASSUME Places, TimesTyped, [Next]_vars PROVE TimesTyped'
  OBVIOUS
<1> USE TicksTyped DEF TimesTyped, Places, Patience, time, ends, timers, LoopOrReturn, Done, Begin
<1>1. CASE ClockTicks
  BY <1>1 DEF ClockTicks
<1>2. CASE RecordArrives \/ SessionBreaks \/ UNCHANGED vars
  BY <1>2 DEF RecordArrives, SessionBreaks, vars
<1>3. CASE ReadSome
  BY <1>3 DEF ReadSome
<1>4. CASE ReadNothing \/ ReadError
  BY <1>4 DEF ReadNothing, ReadError
<1>5. CASE ReadPacket
  BY <1>5 DEF ReadPacket
<1>6. CASE ReadFails \/ HeaderRead \/ BodyRead
  BY <1>6 DEF ReadFails, HeaderRead, BodyRead
<1>7. CASE LengthRead
  BY <1>7 DEF LengthRead
<1>8. CASE DropRead
  BY <1>8 DEF DropRead
<1>9. CASE Recv
  BY <1>9 DEF Recv
<1>10. CASE RecvTurn \/ RecvRetries \/ RecvWantsRead
  BY <1>10 DEF RecvTurn, RecvRetries, RecvWantsRead
<1>11. CASE RecvReturns \/ RecvTimesOut
  BY <1>11 DEF RecvReturns, RecvTimesOut
<1>12. QED
  BY <1>1, <1>2, <1>3, <1>4, <1>5, <1>6, <1>7, <1>8, <1>9, <1>10, <1>11
     DEF Next, TlsRead, PacketRead, SockRecv

-----------------------------------------------------------------------------
(* One mbedtls_ssl_read.                                                     *)

LEMMA HeadTyped == ASSUME NEW S, NEW s \in Seq(S), s # <<>> PROVE Head(s) \in S
  OBVIOUS

LEMMA FunctionIsSeq ==
  ASSUME NEW S, NEW k \in Nat, NEW f \in [1..k -> S]
  PROVE  f \in Seq(S) /\ Len(f) = k
  OBVIOUS

RecordsLeft(n) ==
  IF n = Head(records) THEN Tail(records) ELSE [records EXCEPT ![1] = @ - n]

\* n bytes are read.
ReadBytes(n) ==
  /\ records # <<>> /\ Head(records) \in Nat
  /\ n \in 1..want /\ n <= Head(records) /\ n = Least(want, Head(records))
  /\ taken \in Nat /\ taken' = taken + n /\ taken + Head(records) <= arrived
  /\ records' = RecordsLeft(n) /\ got' = got + n
  /\ buf' = [i \in 1..Later(n, Len(buf)) |-> IF i <= n THEN taken + i ELSE buf[i]]

LEMMA InStreamTyped ==
  ASSUME InStream
  PROVE  /\ records \in Seq(Nat) /\ arrived \in Nat /\ arrived <= Total /\ Total \in Nat
         /\ taken \in Nat /\ taken <= arrived /\ Stream(records, taken, arrived, ~split)
<1>1. records \in Seq(Nat) /\ arrived \in Nat /\ arrived <= Total /\ Total \in Nat
  <2>1. records \in Seq(1..Total) /\ 1..Total \subseteq Nat
    BY DEF InStream
  <2>2. QED BY <2>1, BoundariesTyped DEF InStream
<1>2. Stream(records, taken, arrived, ~split)
  BY DEF InStream
<1>3. QED BY <1>1, <1>2, StreamOrdered

LEMMA ReadSomeReads ==
  ASSUME Counts, InStream, ReadSome
  PROVE  \E n \in Nat : ReadBytes(n)
<1>1. PICK n : n = Least(want, Head(records))
  OBVIOUS
<1>2. records # <<>> /\ InLoop /\ InRead
  BY DEF ReadSome, InLoop
<1>3. PICK h : h = Head(records)
  OBVIOUS
<1>4. h \in 1..Total /\ taken + h <= arrived /\ taken \in Nat
  <2>1. h \in 1..Total
    BY <1>2, <1>3, HeadTyped DEF InStream
  <2>2. taken + h <= arrived /\ taken \in Nat
    BY <1>2, <1>3, InStreamTyped, StreamHead
  <2>3. QED BY <2>1, <2>2
<1>5. want \in Nat /\ want >= 1
  BY <1>2 DEF Counts
<1>6. n \in 1..want /\ n <= h /\ n \in Nat
  BY <1>1, <1>3, <1>4, <1>5 DEF Least
<1>7. taken' = taken + n /\ records' = RecordsLeft(n) /\ got' = got + n
      /\ buf' = [i \in 1..Later(n, Len(buf)) |-> IF i <= n THEN taken + i ELSE buf[i]]
  BY <1>1 DEF ReadSome, RecordsLeft
<1>8. ReadBytes(n)
  BY <1>1, <1>2, <1>3, <1>4, <1>6, <1>7 DEF ReadBytes
<1>9. QED BY <1>6, <1>8

LEMMA BytesFit ==
  ASSUME Counts, InStream, NEW n \in Nat, ReadBytes(n)
  PROVE  buf' \in Seq(1..Total) /\ Len(buf') <= want
<1>1. PICK m \in Nat : m = Len(buf)
  BY DEF Counts
<1>2. m <= want /\ \A i \in 1..m : buf[i] \in 1..Total
  BY <1>1, ElementOfSeq DEF Counts
<1>3. want \in Nat /\ n \in 1..want
  BY DEF Counts, ReadBytes
<1>4. PICK k \in Nat : k = Later(n, m) /\ k <= want
  BY <1>2, <1>3 DEF Later
<1>5. taken \in Nat /\ taken + n <= Total /\ Total \in Nat
  <2>1. PICK h : h = Head(records)
    OBVIOUS
  <2>2. n <= h /\ taken + h <= arrived /\ h \in Nat
    BY <2>1 DEF ReadBytes
  <2>3. QED BY <2>2, InStreamTyped DEF ReadBytes
<1>6. \A i \in 1..k : (IF i <= n THEN taken + i ELSE buf[i]) \in 1..Total
  BY <1>2, <1>4, <1>5 DEF Later
<1>7. buf' = [i \in 1..k |-> IF i <= n THEN taken + i ELSE buf[i]]
  BY <1>1, <1>4 DEF ReadBytes
<1>8. buf' \in [1..k -> 1..Total]
  BY <1>6, <1>7
<1>9. QED BY <1>4, <1>8, FunctionIsSeq

-----------------------------------------------------------------------------
(* The counts and the stream.                                                *)

LEMMA LeastTyped ==
  ASSUME NEW a \in Nat \ {0}, NEW b \in Nat \ {0}
  PROVE  Least(a, b) \in Nat \ {0} /\ Least(a, b) <= a /\ Least(a, b) <= b
  BY DEF Least

\* A read begins with nothing read; a read_packet that is done reads nothing.
LEMMA BeginCounts ==
  ASSUME Counts, NEW what, NEW len \in Nat \ {0}, len <= BufSize, Begin(what, len), rest' \in Nat,
         what = "drop" => rest' >= 1 /\ len = Least(rest', BufSize)
  PROVE  Counts'
  BY TicksTyped DEF Counts, Begin, InRead, InLoop

LEMMA DoneCounts == ASSUME Done PROVE Counts'
  BY TicksTyped DEF Counts, Done, InRead, InLoop

LEMMA SameCounts ==
  ASSUME Counts, UNCHANGED <<pc, data>>, InLoop' => InLoop, broken => broken'
  PROVE  Counts'
  BY DEF Counts, data, InRead

LEMMA CountsStep == Places /\ Counts /\ InStream /\ [Next]_vars => Counts'
<1> SUFFICES ASSUME Places, Counts, InStream, [Next]_vars PROVE Counts'
  OBVIOUS
<1>1. CASE ClockTicks \/ RecordArrives \/ SessionBreaks \/ UNCHANGED vars
  <2>1. UNCHANGED <<pc, data, step>> /\ (broken => broken')
    BY <1>1 DEF ClockTicks, RecordArrives, SessionBreaks, vars, network
  <2>2. QED BY <2>1, SameCounts DEF InLoop, InRead
<1>2. CASE ReadSome
  <2>1. PICK n \in Nat : ReadBytes(n)
    BY <1>2, ReadSomeReads
  <2>2. buf' \in Seq(1..Total) /\ Len(buf') <= want
    BY <2>1, BytesFit
  <2>3. got' = got + n /\ n <= want /\ n >= 1
    BY <2>1 DEF ReadBytes
  <2>4. UNCHANGED <<pc, want, error, rest, broken>> /\ InLoop /\ LoopOrReturn(got + n >= want)
    BY <1>2, <2>1 DEF ReadSome, ReadBytes
  <2>5. (InLoop' => got' < want) /\ got < want
    BY <2>3, <2>4 DEF LoopOrReturn, InLoop, Counts
  <2>6. InRead /\ InRead'
    BY <2>4 DEF InLoop, InRead
  <2>7. QED BY <2>2, <2>3, <2>4, <2>5, <2>6 DEF Counts
<1>3. CASE ReadNothing
  <2>1. UNCHANGED <<pc, data>> /\ InLoop /\ broken' = broken
    BY <1>3 DEF ReadNothing, network
  <2>2. QED BY <2>1, SameCounts
<1>4. CASE ReadError
  BY <1>4 DEF ReadError, Counts, LoopOrReturn, InLoop, InRead, network
<1>5. CASE ReadPacket
  <2>1. Begin("header", 1) /\ rest' = rest
    BY <1>5 DEF ReadPacket
  <2>2. QED BY <2>1, BeginCounts, TicksTyped DEF Counts
<1>6. CASE ReadFails \/ BodyRead
  BY <1>6, DoneCounts DEF ReadFails, BodyRead
<1>7. CASE HeaderRead
  <2>1. Begin("length", 1) /\ rest' = rest
    BY <1>7 DEF HeaderRead
  <2>2. QED BY <2>1, BeginCounts, TicksTyped DEF Counts
<1>8. CASE LengthRead
  <2>1. PICK len \in RemLen :
          \/ len = 0 /\ Done
          \/ len \in 1..BufSize-1 /\ Begin("body", len) /\ UNCHANGED <<ends, rest>>
          \/ len >= BufSize /\ Begin("drop", BufSize) /\ rest' = len /\ UNCHANGED ends
    BY <1>8 DEF LengthRead
  <2>2. len \in Nat
    BY <2>1, RemLenTyped
  <2>3. CASE Done
    BY <2>3, DoneCounts
  <2>4. CASE len \in 1..BufSize-1 /\ Begin("body", len) /\ UNCHANGED <<ends, rest>>
    <3>1. len \in Nat \ {0} /\ len <= BufSize
      BY <2>4, TicksTyped
    <3>2. Begin("body", len) /\ rest' \in Nat
      BY <2>4 DEF Counts
    <3>3. QED BY <3>1, <3>2, BeginCounts
  <2>5. CASE len >= BufSize /\ Begin("drop", BufSize) /\ rest' = len /\ UNCHANGED ends
    <3>1. Begin("drop", BufSize) /\ rest' \in Nat /\ rest' >= 1 /\ BufSize = Least(rest', BufSize)
      BY <2>2, <2>5, TicksTyped DEF Least
    <3>2. QED BY <3>1, BeginCounts, TicksTyped
  <2>6. QED BY <2>1, <2>3, <2>4, <2>5
<1>9. CASE DropRead
  <2>1. CASE Done
    BY <2>1, DoneCounts
  <2>2. CASE got < rest /\ Begin("drop", Least(rest - got, BufSize)) /\ rest' = rest - got
    <3>1. PICK r \in Nat \ {0} : r = rest - got
      BY <2>2 DEF Counts
    <3>2. Begin("drop", Least(r, BufSize)) /\ rest' = r
      BY <2>2, <3>1
    <3>3. Least(r, BufSize) \in Nat \ {0} /\ Least(r, BufSize) <= BufSize
      BY LeastTyped, TicksTyped
    <3>4. QED BY <3>2, <3>3, BeginCounts
  <2>3. QED BY <1>9, <2>1, <2>2 DEF DropRead
<1>10. CASE Recv
  BY <1>10, TicksTyped DEF Recv, Begin, Counts, InRead, InLoop
<1>11. CASE RecvTurn \/ RecvRetries \/ RecvWantsRead
  <2>1. UNCHANGED <<pc, data>> /\ ~InRead /\ broken' = broken
    BY <1>11 DEF RecvTurn, RecvRetries, RecvWantsRead, network, InRead
  <2>2. QED BY <2>1, SameCounts DEF InLoop, InRead
<1>12. CASE RecvReturns \/ RecvTimesOut
  BY <1>12, DoneCounts DEF RecvReturns, RecvTimesOut
<1>13. QED
  BY <1>1, <1>2, <1>3, <1>4, <1>5, <1>6, <1>7, <1>8, <1>9, <1>10, <1>11, <1>12
     DEF Next, TlsRead, PacketRead, SockRecv

LEMMA RecordsLeftTyped ==
  ASSUME NEW rs \in Seq(1..Total), rs # <<>>, NEW n \in Nat, n <= Head(rs), n >= 1,
         NEW qs, qs = IF n = Head(rs) THEN Tail(rs) ELSE [rs EXCEPT ![1] = @ - n]
  PROVE  qs \in Seq(1..Total)
<1>1. PICK h : h = Head(rs) /\ h = rs[1] /\ 1 \in 1..Len(rs)
  OBVIOUS
<1>2. h \in 1..Total /\ Total \in Nat
  BY <1>1, BoundariesTyped
<1>3. CASE n = h
  BY <1>1, <1>3
<1>4. CASE n # h
  <2>1. PICK k \in 1..Total : k = h - n
    BY <1>1, <1>2, <1>4
  <2>2. qs = [rs EXCEPT ![1] = k]
    BY <1>1, <1>4, <2>1
  <2>3. 1 \in 1..Len(rs) /\ k \in 1..Total
    BY <1>1, <2>1
  <2>4. [rs EXCEPT ![1] = k] \in Seq(1..Total)
    BY <2>3, ExceptSeq
  <2>5. QED BY <2>2, <2>4
<1>5. QED BY <1>3, <1>4

LEMMA InStreamStep == Places /\ FlagsTyped /\ Counts /\ InStream /\ [Next]_vars => InStream'
<1> SUFFICES ASSUME FlagsTyped, Counts, InStream, [Next]_vars PROVE InStream'
  OBVIOUS
<1>1. CASE UNCHANGED <<records, arrived, taken, split>>
  BY <1>1 DEF InStream
<1>2. CASE RecordArrives
  <2>1. PICK n \in 1..Total - arrived :
          /\ arrived' = arrived + n /\ records' = Append(records, n)
          /\ split' = (split \/ arrived + n + 1 \notin Boundaries)
    BY <1>2 DEF RecordArrives
  <2>2. n \in 1..Total /\ arrived + n \in 0..Total /\ n \in Nat
    BY InStreamTyped
  <2>3. records' \in Seq(1..Total) /\ arrived' \in 0..Total
    BY <2>1, <2>2 DEF InStream
  <2>4. PICK still : still = ~split'
    OBVIOUS
  <2>5. still => ~split /\ arrived + n + 1 \in Boundaries
    BY <2>1, <2>4
  <2>6. PICK qs : qs = records' /\ qs = Append(records, n)
    BY <2>1
  <2>7. Stream(qs, taken, arrived + n, still)
    BY <2>2, <2>5, <2>6, InStreamTyped, StreamGrows
  <2>8. taken' = taken
    BY <1>2 DEF RecordArrives
  <2>9. Stream(records', taken', arrived', ~split')
    BY <2>1, <2>4, <2>6, <2>7, <2>8
  <2>10. ~split' => arrived' + 1 \in Boundaries
    BY <2>1
  <2>11. QED BY <2>3, <2>9, <2>10 DEF InStream
<1>3. CASE ReadSome
  <2>1. PICK n \in Nat : ReadBytes(n)
    BY <1>3, ReadSomeReads
  <2>2. PICK qs : qs = records' /\ qs = IF n = Head(records) THEN Tail(records)
                                        ELSE [records EXCEPT ![1] = @ - n]
    BY <2>1 DEF ReadBytes, RecordsLeft
  <2>3. n >= 1 /\ n <= Head(records) /\ records # <<>> /\ taken' = taken + n
    BY <2>1 DEF ReadBytes
  <2>4. Stream(qs, taken + n, arrived, ~split)
    BY <2>2, <2>3, InStreamTyped, StreamTaken
  <2>5. qs \in Seq(1..Total)
    BY <2>2, <2>3, RecordsLeftTyped DEF InStream
  <2>6. UNCHANGED <<arrived, split>>
    BY <1>3 DEF ReadSome
  <2>7. QED BY <2>2, <2>3, <2>4, <2>5, <2>6 DEF InStream
<1>4. CASE ClockTicks \/ SessionBreaks \/ UNCHANGED vars
  BY <1>1, <1>4 DEF ClockTicks, SessionBreaks, vars, network
<1>5. CASE ReadNothing \/ ReadError
  BY <1>1, <1>5 DEF ReadNothing, ReadError, network
<1>6. CASE PacketRead
  BY <1>1, <1>6 DEF PacketRead, ReadPacket, ReadFails, HeaderRead, LengthRead, BodyRead, DropRead, network
<1>7. CASE SockRecv
  BY <1>1, <1>7 DEF SockRecv, Recv, RecvTurn, RecvRetries, RecvWantsRead, RecvReturns, RecvTimesOut, network
<1>8. QED BY <1>2, <1>3, <1>4, <1>5, <1>6, <1>7 DEF Next, TlsRead

-----------------------------------------------------------------------------
LEMMA TypedInductive == Spec => []Typed
<1>1. Init => Typed
  BY InitTyped
<1>2. Typed /\ [Next]_vars => Typed'
  BY PlacesStep, FlagsStep, TimesStep, CountsStep, InStreamStep DEF Typed
<1>3. QED BY <1>1, <1>2, PTL DEF Spec

LEMMA TypedIsTypeOK == Typed => TypeOK
<1> SUFFICES ASSUME Typed PROVE TypeOK
  OBVIOUS
<1>1. now \in Tick /\ clock \in 0..MaxTime /\ timer \in Tick /\ packet \in Tick
      /\ due \in Nat /\ packetDue \in Nat /\ begun \in 0..clock
  BY TicksTyped DEF Typed, TimesTyped
<1>2. waited \in 0..Later(Poll, TcpTimeout)
  BY TicksTyped DEF Typed, TimesTyped, Patience, Later
<1>3. pc \in {"idle", "header", "length", "body", "drop", "recv"} /\ step \in {"loop", "return", "wait"}
  BY DEF Typed, Places
<1>4. want \in 0..Later(BufSize, 1) /\ got \in 0..2*BufSize /\ rest \in Nat
      /\ buf \in Seq(1..Total) /\ Len(buf) <= want
  BY TicksTyped DEF Typed, Counts, Later
<1>5. records \in Seq(1..Total) /\ arrived \in 0..Total /\ taken \in 0..arrived
  <2>1. InStream
    BY DEF Typed
  <2>2. taken \in Nat /\ taken <= arrived /\ arrived \in Nat
    BY <2>1, InStreamTyped
  <2>3. QED BY <2>1, <2>2 DEF InStream
<1>6. early \in BOOLEAN /\ error \in BOOLEAN /\ split \in BOOLEAN /\ broken \in BOOLEAN
  BY DEF Typed, FlagsTyped
<1>7. QED BY <1>1, <1>2, <1>3, <1>4, <1>5, <1>6 DEF TypeOK

\* The types hold for every stream, every time and every size: in particular no byte
\* is taken from a record that does not hold it, and iot_tls_read puts no more into
\* pMsg than it was told of, though each turn of its loop may read as much again.
THEOREM TypeCorrect == Spec => []TypeOK
  BY TypedInductive, TypedIsTypeOK, PTL

-----------------------------------------------------------------------------
(* The times of iot_tls_read.                                                *)

LEMMA LeftTyped ==
  ASSUME NEW t \in Tick, NEW n \in Tick
  PROVE  Left(t, n) \in Int /\ -Half <= Left(t, n)
  BY HalfAssumption, SMT DEF Left, Signed, Wrap, W, Tick

\* What is left falls by one with each tick, for half the counter's range behind the end.
LEMMA LeftFalls ==
  ASSUME NEW t \in Tick, NEW n \in Tick, -Half < Left(t, n)
  PROVE  Left(t, Wrap(n + 1)) = Left(t, n) - 1
  BY HalfAssumption, SMT DEF Left, Signed, Wrap, W, Tick

LEMMA LeftAtBegin ==
  ASSUME NEW n \in Tick, NEW t \in Nat, t < Half
  PROVE  Left(CountdownMs(n, t), n) = t
  BY HalfAssumption, SMT DEF Left, CountdownMs, Signed, Wrap, W, Tick

\* What n more reads take at most.
Delay(n) == 2 * Poll * n

LEMMA DelayGrows ==
  ASSUME NEW k \in Nat, NEW j \in Nat, k < j
  PROVE  Delay(k) + 2 * Poll <= Delay(j)
<1>1. PICK d \in Nat, q \in Nat : d = j - k - 1 /\ q = 2 * Poll
  BY TicksTyped
<1>2. q * d \in Nat /\ q * (k + 1 + d) = q * k + q + q * d
  BY <1>1
<1>3. j = k + 1 + d
  BY <1>1
<1>4. Delay(k) = q * k /\ Delay(j) = q * (k + 1 + d)
  BY <1>1, <1>3 DEF Delay
<1>5. q * k \in Nat
  BY <1>1
<1>6. QED BY <1>1, <1>2, <1>4, <1>5

LEMMA DelayTyped == Delay(0) = 0 /\ \A k \in Nat : Delay(k) \in Nat
  BY TicksTyped DEF Delay

LEMMA DelayIsShort ==
  ASSUME NEW n \in Lengths \cup {0}
  PROVE  n \in Nat /\ Timeout + 6 * Poll + Delay(n) <= Half
<1>1. n \in Nat /\ Timeout + 2 * Poll * (n + 3) <= Half
  BY LengthsTyped, TimesAssumption
<1>2. PICK q \in Nat : q = 2 * Poll
  BY TicksTyped
<1>3. q * (n + 3) = q * n + 3 * q /\ q * n \in Nat
  BY <1>1, <1>2
<1>4. 2 * Poll * (n + 3) = q * (n + 3) /\ Delay(n) = q * n /\ 3 * q = 6 * Poll
  BY <1>2, TicksTyped DEF Delay
<1>5. QED BY <1>1, <1>2, <1>3, <1>4, TicksTyped

\* A read of a packet begins late by the reads before it at most.
BegunInTime ==
  /\ pc = "header" => due = begun + Timeout
  /\ pc = "length" => begun <= due + Timeout + 2 * Poll
  /\ pc = "body" => begun <= due + Timeout + 4 * Poll
  /\ pc = "drop" => \E n \in Lengths \cup {0} :
                      rest <= n /\ begun <= due + Timeout + 4 * Poll + Delay(n - rest)

\* The timer tells what is left, and no step begins behind the time, but the return.
Reading ==
  InRead =>
    /\ waited <= Poll
    /\ clock - waited <= Later(due, begun) + IF step = "loop" THEN 0 ELSE Poll
    /\ Left(timer, now) = due - clock
    /\ BegunInTime
    /\ pc = "header" => packetDue = begun + PacketTimeout /\ Left(packet, now) = packetDue - clock

LEMMA BegunSoon ==
  ASSUME Typed, InRead, BegunInTime
  PROVE  begun + 2 * Poll <= due + Half
<1>1. due \in Nat /\ begun \in Nat /\ Poll \in Nat /\ Timeout \in Nat /\ Half \in Nat
  BY TicksTyped DEF Typed, TimesTyped
<1>2. Timeout + 6 * Poll <= Half
  BY <1>1, DelayIsShort, DelayTyped
<1>3. CASE pc # "drop"
  BY <1>1, <1>2, <1>3 DEF BegunInTime, InRead
<1>4. CASE pc = "drop"
  <2>1. PICK n \in Lengths \cup {0} :
          rest <= n /\ begun <= due + Timeout + 4 * Poll + Delay(n - rest)
    BY <1>4 DEF BegunInTime
  <2>2. rest \in Nat /\ rest >= 1
    BY <1>4 DEF Typed, Counts
  <2>3. n \in Nat /\ Timeout + 6 * Poll + Delay(n) <= Half
    BY DelayIsShort
  <2>4. PICK k \in Nat : k = n - rest /\ k < n
    BY <2>1, <2>2, <2>3
  <2>5. Delay(k) + 2 * Poll <= Delay(n) /\ Delay(k) \in Nat /\ Delay(n) \in Nat
    BY <2>3, <2>4, DelayGrows, DelayTyped
  <2>6. begun <= due + Timeout + 4 * Poll + Delay(k)
    BY <2>1, <2>4
  <2>7. QED BY <1>1, <2>3, <2>5, <2>6
<1>5. QED BY <1>3, <1>4

\* When a read returns, it is at most two steps behind its time or its begin.
LEMMA ReturnsInTime ==
  ASSUME Typed, Reading, InRead
  PROVE  clock <= Later(due, begun) + 2 * Poll
  BY TicksTyped DEF Reading, Typed, TimesTyped, Later

LEMMA ReadingTicks ==
  ASSUME Typed, Reading, ClockTicks
  PROVE  Reading'
<1> SUFFICES ASSUME InRead PROVE Reading'
  BY DEF Reading, ClockTicks, InRead, BegunInTime
<1>1. waited < Poll /\ now' = Wrap(now + 1) /\ clock' = clock + 1 /\ waited' = waited + 1
      /\ UNCHANGED <<pc, step, timer, packet, due, packetDue, begun, rest>>
  BY DEF ClockTicks, Patience, InRead, timers, ends, data
<1>2. InRead' /\ BegunInTime'
  BY <1>1 DEF Reading, InRead, BegunInTime
<1>3. /\ clock \in Nat /\ waited \in Nat /\ due \in Nat /\ begun \in Nat /\ packetDue \in Nat
      /\ Poll \in Nat /\ Timeout \in Nat /\ PacketTimeout \in Nat /\ Half \in Nat
      /\ now \in Tick /\ timer \in Tick /\ packet \in Tick
  BY TicksTyped DEF Typed, TimesTyped
<1>4. clock - waited <= Later(due, begun) + Poll
  BY <1>3 DEF Reading, Later
<1>5. clock < due + Half
  <2>1. begun + 2 * Poll <= due + Half
    BY BegunSoon DEF Reading
  <2>2. 2 * Poll <= Half
    BY <1>3, DelayIsShort, DelayTyped
  <2>3. QED BY <1>1, <1>3, <1>4, <2>1, <2>2 DEF Later
<1>6. Left(timer, now)' = due' - clock'
  <2>1. Left(timer, now) = due - clock
    BY DEF Reading
  <2>2. -Half < Left(timer, now)
    BY <1>3, <1>5, <2>1
  <2>3. Left(timer, Wrap(now + 1)) = Left(timer, now) - 1
    BY <1>3, <2>2, LeftFalls
  <2>4. QED BY <1>1, <1>3, <2>1, <2>3
<1>7. (pc = "header" => packetDue = begun + PacketTimeout /\ Left(packet, now) = packetDue - clock)'
  <2> SUFFICES ASSUME pc = "header" PROVE (packetDue = begun + PacketTimeout /\ Left(packet, now) = packetDue - clock)'
    BY <1>1
  <2>1. Left(packet, now) = packetDue - clock /\ packetDue = begun + PacketTimeout /\ due = begun + Timeout
    BY DEF Reading, BegunInTime
  <2>2. Timeout + 6 * Poll <= Half
    BY <1>3, DelayIsShort, DelayTyped
  <2>3. -Half < Left(packet, now)
    BY <1>1, <1>3, <1>4, <2>1, <2>2 DEF Later
  <2>4. Left(packet, Wrap(now + 1)) = Left(packet, now) - 1
    BY <1>3, <2>3, LeftFalls
  <2>5. QED BY <1>1, <1>3, <2>1, <2>4
<1>8. waited' <= Poll
  BY <1>1, <1>3
<1>9. clock' - waited' <= Later(due', begun') + IF step' = "loop" THEN 0 ELSE Poll
  <2>1. clock' - waited' = clock - waited
    BY <1>1, <1>3
  <2>2. QED BY <1>1, <2>1 DEF Reading
<1>10. QED BY <1>2, <1>6, <1>7, <1>8, <1>9 DEF Reading

LEMMA LeftMsZero ==
  ASSUME NEW t \in Tick, NEW n \in Tick, LeftMs(t, n) # 0
  PROVE  Left(t, n) > 0
  BY LeftTyped, TicksTyped DEF LeftMs

\* A turn of the loop: the loop goes on only before the timer's end.
LEMMA ReadingTurn ==
  ASSUME Typed, Reading, InLoop, NEW done, LoopOrReturn(done),
         UNCHANGED <<time, pc, timers, rest>>
  PROVE  Reading'
<1>1. /\ clock \in Nat /\ waited \in Nat /\ due \in Nat /\ begun \in Nat /\ Poll \in Nat
      /\ now \in Tick /\ timer \in Tick
  BY TicksTyped DEF Typed, TimesTyped
<1>2. /\ UNCHANGED <<now, clock, timer, packet, due, packetDue, begun>>
      /\ waited' = 0 /\ InRead /\ InRead' /\ step = "loop"
  BY DEF time, timers, ends, LoopOrReturn, InLoop, InRead
<1>3. waited <= Poll /\ clock - waited <= Later(due, begun) /\ Left(timer, now) = due - clock
  <2>1. clock - waited <= Later(due, begun) + 0
    BY <1>2 DEF Reading
  <2>2. QED BY <1>1, <1>2, <2>1 DEF Reading, Later
<1>4. clock' - waited' <= Later(due', begun') + IF step' = "loop" THEN 0 ELSE Poll
  <2>1. CASE step' = "loop"
    <3>1. LeftMs(timer, now) # 0
      BY <2>1 DEF LoopOrReturn
    <3>2. clock < due
      BY <1>1, <1>3, <3>1, LeftMsZero
    <3>3. QED BY <1>1, <1>2, <2>1, <3>2 DEF Later
  <2>2. CASE step' # "loop"
    BY <1>1, <1>2, <1>3, <2>2 DEF Later
  <2>3. QED BY <2>1, <2>2
<1>5. BegunInTime'
  BY <1>2 DEF Reading, BegunInTime
<1>6. waited' <= Poll
  BY <1>1, <1>2
<1>7. QED BY <1>2, <1>4, <1>5, <1>6 DEF Reading

\* A read that begins is in time, if its timer tells what is left.
LEMMA ReadingBegins ==
  ASSUME Typed, NEW what, NEW len, Begin(what, len), what # "header", now' = now, clock' = clock,
         due' \in Nat, Left(timer', now) = due' - clock, BegunInTime'
  PROVE  Reading'
<1>1. clock \in Nat /\ Poll \in Nat
  BY TicksTyped DEF Typed, TimesTyped
<1>2. waited' = 0 /\ begun' = clock /\ pc' = what /\ step' = "loop"
  BY DEF Begin
<1>3. PICK d \in Nat, c \in Nat : d = due' /\ c = clock /\ c = clock'
  BY <1>1
<1>4. c - 0 <= Later(d, c) + 0
  BY DEF Later
<1>5. clock' - waited' <= Later(due', begun') + 0
  BY <1>2, <1>3, <1>4
<1>6. QED BY <1>1, <1>2, <1>5 DEF Reading

LEMMA ReadingNot == ASSUME pc' \in {"idle", "recv"} PROVE Reading'
  BY DEF Reading, InRead

LEMMA ReadingStep == Typed /\ Reading /\ [Next]_vars => Reading'
<1> SUFFICES ASSUME Typed, Reading, [Next]_vars PROVE Reading'
  OBVIOUS
<1>1. CASE ClockTicks
  BY <1>1, ReadingTicks
<1>2. CASE RecordArrives \/ SessionBreaks \/ UNCHANGED vars
  BY <1>2 DEF RecordArrives, SessionBreaks, vars, time, timers, ends, data, Reading, InRead, BegunInTime
<1>3. CASE ReadSome
  <2>1. PICK d : LoopOrReturn(d) /\ InLoop /\ UNCHANGED <<time, pc, timers, rest>>
    BY <1>3 DEF ReadSome
  <2>2. QED BY <2>1, ReadingTurn
<1>4. CASE ReadNothing \/ ReadError
  <2>1. PICK d : LoopOrReturn(d) /\ InLoop /\ UNCHANGED <<time, pc, timers, rest>>
    BY <1>4 DEF ReadNothing, ReadError, data
  <2>2. QED BY <2>1, ReadingTurn
<1>5. CASE ReadPacket
  <2>1. /\ timer' = CountdownMs(now, Timeout) /\ due' = clock + Timeout
        /\ packet' = CountdownMs(now, PacketTimeout) /\ packetDue' = clock + PacketTimeout
        /\ pc' = "header" /\ step' = "loop" /\ waited' = 0 /\ begun' = clock
        /\ now' = now /\ clock' = clock
    BY <1>5 DEF ReadPacket, Begin, time
  <2>2. now \in Tick /\ clock \in Nat /\ Poll \in Nat /\ Timeout \in Nat /\ PacketTimeout \in Nat
    BY TicksTyped DEF Typed, TimesTyped
  <2>3. Left(timer', now') = Timeout /\ Left(packet', now') = PacketTimeout
    BY <2>1, <2>2, LeftAtBegin, TicksTyped
  <2>4. Left(timer', now') = due' - clock' /\ Left(packet', now') = packetDue' - clock'
    BY <2>1, <2>2, <2>3
  <2>5. clock' - waited' <= Later(due', begun') + 0
    BY <2>1, <2>2 DEF Later
  <2>6. BegunInTime'
    BY <2>1 DEF BegunInTime
  <2>7. QED BY <2>1, <2>2, <2>4, <2>5, <2>6 DEF Reading
<1>6. ASSUME Returns
      PROVE  /\ clock \in Nat /\ due \in Nat /\ begun \in Nat /\ Poll \in Nat /\ Timeout \in Nat
             /\ clock <= Later(due, begun) + 2 * Poll
             /\ Left(timer, now) = due - clock /\ BegunInTime /\ InRead
  <2>1. InRead
    BY <1>6 DEF Returns
  <2>2. clock <= Later(due, begun) + 2 * Poll
    BY <2>1, ReturnsInTime
  <2>3. Left(timer, now) = due - clock /\ BegunInTime
    BY <2>1 DEF Reading
  <2>4. QED BY <2>1, <2>2, <2>3, TicksTyped DEF Typed, TimesTyped
<1>7. CASE HeaderRead
  <2>1. /\ Returns /\ pc = "header" /\ timer' = packet /\ due' = packetDue /\ Begin("length", 1)
        /\ now' = now /\ clock' = clock /\ begun' = clock /\ pc' = "length"
    BY <1>7 DEF HeaderRead, time, Begin
  <2>2. due = begun + Timeout /\ packetDue = begun + PacketTimeout /\ Left(packet, now) = packetDue - clock
    BY <1>6, <2>1 DEF BegunInTime, Reading
  <2>3. PacketTimeout \in Nat /\ due' \in Nat
    BY <2>1, TicksTyped DEF Typed, TimesTyped
  <2>4. begun' <= due' + Timeout + 2 * Poll
    BY <1>6, <2>1, <2>2, <2>3 DEF Later
  <2>5. BegunInTime'
    BY <2>1, <2>4 DEF BegunInTime
  <2>6. Left(timer', now) = due' - clock
    BY <2>1, <2>2
  <2>7. "length" # "header"
    OBVIOUS
  <2>8. QED BY <2>1, <2>3, <2>5, <2>6, <2>7, ReadingBegins
<1>8. ASSUME NEW what, what \in {"body", "drop"}, NEW len, Begin(what, len), UNCHANGED <<time, ends>>,
             Returns, BegunInTime'
      PROVE  Reading'
  <2>1. now' = now /\ clock' = clock /\ timer' = timer /\ due' = due
    BY <1>8 DEF time, ends
  <2>2. Left(timer', now) = due' - clock /\ due' \in Nat
    BY <1>6, <1>8, <2>1
  <2>3. QED BY <1>8, <2>1, <2>2, ReadingBegins
<1>9. CASE LengthRead
  <2>1. Returns /\ pc = "length" /\ UNCHANGED time
    BY <1>9 DEF LengthRead
  <2>2. PICK len \in RemLen :
          \/ len = 0 /\ Done
          \/ len \in 1..BufSize-1 /\ Begin("body", len) /\ UNCHANGED <<ends, rest>>
          \/ len >= BufSize /\ Begin("drop", BufSize) /\ rest' = len /\ UNCHANGED ends
    BY <1>9 DEF LengthRead
  <2>3. clock <= due + Timeout + 4 * Poll
    BY <1>6, <2>1 DEF BegunInTime, Later
  <2>4. CASE Done
    BY <2>4, ReadingNot DEF Done
  <2>5. CASE Begin("body", len) /\ UNCHANGED <<ends, rest>>
    <3>1. begun' = clock /\ due' = due /\ pc' = "body"
      BY <2>5 DEF Begin, ends
    <3>2. BegunInTime'
      BY <2>3, <3>1 DEF BegunInTime
    <3>3. QED BY <1>8, <2>1, <2>5, <3>2
  <2>6. CASE Begin("drop", BufSize) /\ rest' = len /\ UNCHANGED ends
    <3>1. begun' = clock /\ due' = due /\ pc' = "drop" /\ rest' = len
      BY <2>6 DEF Begin, ends
    <3>2. len \in Lengths \cup {0} /\ len \in Nat /\ len - len = 0
      BY RemLenTyped
    <3>3. due' + Timeout + 4 * Poll + Delay(len - rest') = due + Timeout + 4 * Poll
      BY <1>6, <2>1, <3>1, <3>2, DelayTyped
    <3>4. BegunInTime'
      BY <2>3, <3>1, <3>2, <3>3 DEF BegunInTime
    <3>5. QED BY <1>8, <2>1, <2>6, <3>4
  <2>7. QED BY <2>2, <2>4, <2>5, <2>6
<1>10. CASE DropRead
  <2>1. Returns /\ Success /\ pc = "drop" /\ UNCHANGED time
    BY <1>10 DEF DropRead
  <2>2. CASE got >= rest /\ Done
    BY <2>2, ReadingNot DEF Done
  <2>3. CASE /\ got < rest /\ Begin("drop", Least(rest - got, BufSize)) /\ rest' = rest - got
             /\ UNCHANGED ends
    <3>1. PICK n \in Lengths \cup {0} :
            rest <= n /\ begun <= due + Timeout + 4 * Poll + Delay(n - rest)
      BY <1>6, <2>1 DEF BegunInTime
    <3>2. n \in Nat /\ rest \in Nat /\ got \in Nat
      BY DelayIsShort DEF Typed, Counts
    <3>3. PICK k \in Nat, j \in Nat : k = n - rest /\ j = n - rest' /\ j = k + got
      BY <2>3, <3>1, <3>2
    <3>4. Delay(k) \in Nat /\ Delay(j) \in Nat
      BY DelayTyped
    <3>5. clock <= due + Timeout + 4 * Poll + Delay(j)
      <4>1. CASE got = 0
        <5>1. Left(timer, now) >= 0
          <6>1. want >= 1 /\ want \in Nat
            BY <1>6, <2>1 DEF Typed, Counts
          <6>2. ~HasTimerExpired(timer, now)
            BY <2>1, <4>1, <6>1 DEF Success, NothingToRead, ReadTimeout
          <6>3. QED BY <6>2, LeftTyped, TicksTyped DEF HasTimerExpired, Typed, TimesTyped
        <5>2. QED BY <1>6, <2>1, <3>4, <5>1
      <4>2. CASE got # 0
        <5>1. Delay(k) + 2 * Poll <= Delay(j)
          BY <3>2, <3>3, <4>2, DelayGrows
        <5>2. begun <= due + Timeout + 4 * Poll + Delay(k)
          BY <3>1, <3>3
        <5>3. QED BY <1>6, <2>1, <3>4, <5>1, <5>2 DEF Later
      <4>3. QED BY <4>1, <4>2
    <3>6. begun' = clock /\ due' = due /\ pc' = "drop" /\ rest' <= n
      BY <2>3, <3>1, <3>2 DEF Begin, ends
    <3>7. begun' <= due' + Timeout + 4 * Poll + Delay(n - rest')
      BY <3>3, <3>5, <3>6
    <3>8. BegunInTime'
      BY <3>6, <3>7 DEF BegunInTime
    <3>9. Begin("drop", Least(rest - got, BufSize)) /\ UNCHANGED <<time, ends>>
      BY <2>1, <2>3
    <3>10. QED BY <1>8, <2>1, <3>8, <3>9
  <2>4. QED BY <1>10, <2>2, <2>3 DEF DropRead
<1>11. CASE ReadFails \/ BodyRead
  BY <1>11, ReadingNot DEF ReadFails, BodyRead, Done
<1>12. CASE SockRecv
  BY <1>12, ReadingNot DEF SockRecv, Recv, RecvTurn, RecvRetries, RecvWantsRead, RecvReturns, RecvTimesOut, Done, Begin
<1>13. QED
  BY <1>1, <1>2, <1>3, <1>4, <1>5, <1>7, <1>9, <1>10, <1>11, <1>12 DEF Next, TlsRead, PacketRead

-----------------------------------------------------------------------------
(* The times of net_sock_recv_mbedtls.                                       *)

\* As long as the time of a receive is not over, the counter tells its age; a wait
\* may then go on for as long as it likes.
Receiving ==
  pc = "recv" =>
    /\ due = begun + RecvTimeout
    /\ clock - begun < Half => now = Wrap(timer + (clock - begun))

LEMMA WrapTicks ==
  ASSUME NEW t \in Tick, NEW e \in Nat, e < Half
  PROVE  Wrap(Wrap(t + e) + 1) = Wrap(t + (e + 1))
  BY HalfAssumption, SMT DEF Wrap, W, Tick

LEMMA WrapOfTick == ASSUME NEW t \in Tick PROVE Wrap(t + 0) = t
  BY HalfAssumption, SMT DEF Wrap, W, Tick

LEMMA ReceivingNot == ASSUME pc' # "recv" PROVE Receiving'
  BY DEF Receiving

LEMMA ReceivingTicks ==
  ASSUME Typed, Receiving, ClockTicks
  PROVE  Receiving'
<1>1. now' = Wrap(now + 1) /\ clock' = clock + 1 /\ UNCHANGED <<pc, timer, due, begun>>
  BY DEF ClockTicks, timers, ends
<1>2. SUFFICES ASSUME pc = "recv", clock' - begun' < Half
               PROVE  due' = begun' + RecvTimeout /\ now' = Wrap(timer' + (clock' - begun'))
  BY <1>1 DEF Receiving
<1>3. PICK e \in Nat : e = clock - begun /\ clock' - begun' = e + 1 /\ e < Half
  BY <1>1, <1>2, TicksTyped DEF Typed, TimesTyped
<1>4. now = Wrap(timer + e) /\ due = begun + RecvTimeout
  BY <1>2, <1>3 DEF Receiving
<1>5. Wrap(Wrap(timer + e) + 1) = Wrap(timer + (e + 1))
  BY <1>3, WrapTicks DEF Typed, TimesTyped
<1>6. QED BY <1>1, <1>3, <1>4, <1>5

LEMMA ReceivingStep == Typed /\ Receiving /\ [Next]_vars => Receiving'
<1> SUFFICES ASSUME Typed, Receiving, [Next]_vars PROVE Receiving'
  OBVIOUS
<1>1. CASE ClockTicks
  BY <1>1, ReceivingTicks
<1>2. CASE RecordArrives \/ SessionBreaks \/ UNCHANGED vars
  BY <1>2 DEF RecordArrives, SessionBreaks, vars, time, timers, ends, Receiving
<1>3. CASE TlsRead \/ PacketRead
  <2>1. pc' # "recv"
    BY <1>3 DEF TlsRead, PacketRead, ReadSome, ReadNothing, ReadError, ReadPacket, ReadFails,
       HeaderRead, LengthRead, BodyRead, DropRead, Done, Begin, Returns, InLoop, InRead
  <2>2. QED BY <2>1, ReceivingNot
<1>4. CASE Recv
  <2>1. /\ timer' = now /\ due' = clock + RecvTimeout
        /\ begun' = clock /\ now' = now /\ clock' = clock
    BY <1>4 DEF Recv, Begin, time
  <2>2. clock' - begun' = 0 /\ now' = Wrap(timer' + 0)
    BY <2>1, WrapOfTick DEF Typed, TimesTyped
  <2>3. QED BY <2>1, <2>2 DEF Receiving
<1>5. CASE RecvTurn \/ RecvRetries \/ RecvWantsRead
  BY <1>5 DEF RecvTurn, RecvRetries, RecvWantsRead, time, timers, ends, Receiving
<1>6. CASE RecvReturns \/ RecvTimesOut
  BY <1>6, ReceivingNot DEF RecvReturns, RecvTimesOut, Done
<1>7. QED BY <1>1, <1>2, <1>3, <1>4, <1>5, <1>6 DEF Next, SockRecv

\* No read is told too soon that its time is over.
LEMMA NeverEarly == Typed /\ Reading /\ Receiving /\ ~early /\ [Next]_vars => ~early'
<1> SUFFICES ASSUME Typed, Reading, Receiving, ~early, [Next]_vars PROVE ~early'
  OBVIOUS
<1>1. CASE ReadFails
  <2>1. ASSUME ReadTimeout, InRead PROVE ~(clock < due)
    <3>1. Left(timer, now) < 0 /\ Left(timer, now) = due - clock
      BY <2>1 DEF ReadTimeout, HasTimerExpired, Reading
    <3>2. QED BY <3>1 DEF Typed, TimesTyped
  <2>2. QED BY <1>1, <2>1 DEF ReadFails, Returns
<1>2. CASE RecvTimesOut
  <2>1. pc = "recv" /\ RecvOver
    BY <1>2 DEF RecvTimesOut
  <2>2. SUFFICES ASSUME clock < due PROVE FALSE
    BY <1>2 DEF RecvTimesOut
  <2>3. PICK e \in Nat : e = clock - begun
    BY DEF Typed, TimesTyped
  <2>4. due = begun + RecvTimeout /\ e < RecvTimeout /\ e < Half
    BY <2>1, <2>2, <2>3, TicksTyped DEF Receiving, Typed, TimesTyped
  <2>5. now = Wrap(timer + e)
    BY <2>1, <2>3, <2>4 DEF Receiving
  <2>6. NetTimeoutLeftMs(timer, Wrap(timer + e), RecvTimeout) <= 0
    BY <2>1, <2>5 DEF RecvOver
  <2>7. e >= RecvTimeout
    BY <2>4, <2>6, NetTimeoutNeverEarly, TicksTyped DEF Typed, TimesTyped
  <2>8. QED BY <2>4, <2>7, TicksTyped
<1>3. CASE UNCHANGED early
  BY <1>3
<1>4. CASE ClockTicks \/ RecordArrives \/ SessionBreaks \/ UNCHANGED vars
  BY <1>3, <1>4 DEF ClockTicks, RecordArrives, SessionBreaks, vars, timers
<1>5. CASE TlsRead
  BY <1>3, <1>5 DEF TlsRead, ReadSome, ReadNothing, ReadError, timers
<1>6. CASE ReadPacket \/ HeaderRead \/ LengthRead \/ BodyRead \/ DropRead
  BY <1>3, <1>6 DEF ReadPacket, HeaderRead, LengthRead, BodyRead, DropRead
<1>7. CASE Recv \/ RecvTurn \/ RecvRetries \/ RecvWantsRead \/ RecvReturns
  BY <1>3, <1>7 DEF Recv, RecvTurn, RecvRetries, RecvWantsRead, RecvReturns, timers
<1>8. QED BY <1>1, <1>2, <1>4, <1>5, <1>6, <1>7 DEF Next, PacketRead, SockRecv

InTime == Reading /\ Receiving /\ ~early

LEMMA InTimeInductive == Spec => []InTime
<1>1. Init => InTime
  BY DEF Init, InTime, Reading, Receiving, InRead
<1>2. Typed /\ InTime /\ [Next]_vars => InTime'
  BY ReadingStep, ReceivingStep, NeverEarly DEF InTime
<1>3. QED BY <1>1, <1>2, TypedInductive, PTL DEF Spec

\* aws_timer.c and net.c: whatever the tick counter begins with and wherever it
\* wraps, no read and no receive ends as timed out before its time is over, however
\* often a receive is tried again; and a read of read_packet ends two steps behind
\* its time at most.
THEOREM TimeoutsKept == Spec => []TimeoutsAreKept
<1>1. Typed /\ InTime => TimeoutsAreKept
  BY ReturnsInTime DEF InTime, TimeoutsAreKept
<1>2. QED BY <1>1, TypedInductive, InTimeInductive, PTL

-----------------------------------------------------------------------------
(* In step with the broker.                                                  *)

Unspoilt == ~split /\ ~broken

\* A read found all it wanted in one record.
Whole == got = want /\ buf = [i \in 1..want |-> taken - want + i]

\* Where in a packet the reader stands.
Standing ==
  /\ pc \in {"idle", "recv"} => ToCome(taken, 0)
  /\ InLoop => got = 0 /\ buf = <<>>
  /\ Returns => Whole \/ (pc = "header" /\ got = 0)
  /\ pc \in {"header", "length"} => want = 1
  /\ pc = "header" => IF got = 0 THEN ToCome(taken, 0) ELSE \E i \in Packets : First[i] = taken
  /\ pc = "length" => \E i \in Packets :
                        IF step = "loop" THEN First[i] = taken
                        ELSE First[i] = taken - 1 /\ ToCome(taken, Bodies[i])
  /\ pc = "body" => ToCome(taken, IF step = "loop" THEN want ELSE 0)
  /\ pc = "drop" => IF step = "loop" THEN ToCome(taken, rest)
                    ELSE got <= rest /\ ToCome(taken, rest - got)

Positions == Unspoilt => Standing

LEMMA HeadHoldsPacket ==
  ASSUME Typed, Unspoilt, NEW k, Mid(taken, k)
  PROVE  records # <<>> /\ k <= Head(records)
<1>1. InStream /\ ~split
  BY DEF Typed, Unspoilt
<1>2. /\ records \in Seq(Nat) /\ taken \in Nat /\ arrived \in Nat
      /\ Stream(records, taken, arrived, TRUE) /\ arrived + 1 \in Boundaries
  <2>1. (~split) = TRUE
    BY <1>1
  <2>2. QED BY <1>1, <2>1, InStreamTyped DEF InStream
<1>3. records # <<>>
  <2>1. taken + 1 \notin Boundaries
    <3>1. 0 \in 0..k-1 /\ taken + 1 + 0 = taken + 1
      BY <1>2 DEF Mid
    <3>2. taken + 1 + 0 \notin Boundaries
      BY <3>1 DEF Mid
    <3>3. QED BY <3>1, <3>2
  <2>2. records = <<>> => taken = arrived
    BY <1>2, StreamOrdered
  <2>3. QED BY <1>2, <2>1, <2>2
<1>4. PICK h \in Nat : h = Head(records) /\ taken + h + 1 \in Boundaries
  <2>1. Head(records) \in Nat /\ taken + Head(records) + 1 \in Boundaries
    BY <1>2, <1>3, StreamHead
  <2>2. QED BY <2>1
<1>5. h # 0
  <2>1. h \in 1..Total
    BY <1>1, <1>3, <1>4, HeadTyped DEF InStream
  <2>2. QED BY <2>1
<1>6. k <= h
  BY <1>2, <1>4, <1>5, PacketIsHere
<1>7. QED BY <1>3, <1>4, <1>6

\* What is read when the head of the queue holds all that is wanted.
LEMMA ReadsWhole ==
  ASSUME Typed, Unspoilt, Standing, ReadSome, want <= Head(records)
  PROVE  /\ taken' = taken + want /\ got' = want /\ step' = "return" /\ pc' = pc /\ want' = want
         /\ rest' = rest /\ buf' = [i \in 1..want |-> taken + i]
         /\ Whole' /\ taken \in Nat /\ want \in Nat \ {0} /\ InRead /\ InRead'
<1>1. PICK n \in Nat : ReadBytes(n)
  BY ReadSomeReads DEF Typed
<1>2. InLoop /\ InRead /\ step = "loop" /\ got = 0 /\ buf = <<>>
  BY DEF ReadSome, InLoop, Standing
<1>3. want \in Nat /\ want >= 1
  BY <1>2 DEF Typed, Counts
<1>4. PICK h \in Nat : h = Head(records)
  BY <1>1 DEF ReadBytes
<1>5. n = want
  <2>1. n = Least(want, h) /\ want <= h
    BY <1>1, <1>4 DEF ReadBytes
  <2>2. QED BY <1>3, <2>1 DEF Least
<1>6. taken \in Nat /\ taken' = taken + want /\ got' = want
  BY <1>1, <1>2, <1>3, <1>5 DEF ReadBytes
<1>7. pc' = pc /\ want' = want /\ rest' = rest
  BY DEF ReadSome
<1>8. step' = "return"
  <2>1. LoopOrReturn(got + Least(want, Head(records)) >= want)
    BY DEF ReadSome
  <2>2. Least(want, Head(records)) = want
    BY <1>1, <1>5 DEF ReadBytes
  <2>3. got + Least(want, Head(records)) >= want
    BY <1>2, <1>3, <2>2
  <2>4. QED BY <2>1, <2>3 DEF LoopOrReturn
<1>9. buf' = [i \in 1..want |-> taken + i]
  <2>1. Later(n, Len(buf)) = want
    BY <1>2, <1>3, <1>5 DEF Later
  <2>2. buf' = [i \in 1..want |-> IF i <= n THEN taken + i ELSE buf[i]]
    BY <1>1, <2>1 DEF ReadBytes
  <2>3. \A i \in 1..want : (IF i <= n THEN taken + i ELSE buf[i]) = taken + i
    BY <1>5
  <2>4. QED BY <2>2, <2>3
<1>10. Whole'
  <2>1. \A i \in 1..want : taken + i = taken' - want' + i
    BY <1>3, <1>6, <1>7
  <2>2. buf' = [i \in 1..want' |-> taken' - want' + i]
    BY <1>7, <1>9, <2>1
  <2>3. QED BY <1>6, <1>7, <2>2 DEF Whole
<1>11. QED BY <1>2, <1>3, <1>6, <1>7, <1>8, <1>9, <1>10 DEF InRead

LEMMA StandingReads ==
  ASSUME Typed, Unspoilt, Standing, ReadSome
  PROVE  Standing'
<1>1. InLoop /\ InRead /\ step = "loop" /\ got = 0 /\ records # <<>>
  BY DEF ReadSome, InLoop, Standing
<1>2. taken \in Nat /\ Total \in Nat /\ arrived <= Total /\ arrived \in Nat
  BY InStreamTyped DEF Typed
<1>3. want \in Nat /\ want >= 1 /\ rest \in Nat
  BY <1>1 DEF Typed, Counts
<1>4. PICK h \in Nat : h = Head(records) /\ h >= 1 /\ taken + h <= arrived
  <2>1. PICK n \in Nat : ReadBytes(n)
    BY ReadSomeReads DEF Typed
  <2>2. Head(records) \in Nat /\ taken + Head(records) <= arrived /\ n \in 1..want /\ n <= Head(records)
    BY <2>1 DEF ReadBytes
  <2>3. QED BY <2>2
<1>5. ASSUME want <= Head(records)
      PROVE  /\ taken' = taken + want /\ got' = want /\ step' = "return" /\ pc' = pc
             /\ want' = want /\ rest' = rest /\ Whole' /\ Returns' /\ ~InLoop'
  BY <1>5, ReadsWhole DEF Returns, InLoop
<1>6. CASE pc = "header"
  <2>1. want = 1 /\ want <= Head(records) /\ ToCome(taken, 0)
    BY <1>1, <1>4, <1>6 DEF Standing
  <2>2. taken + 1 \in Boundaries /\ taken + 1 # Total + 1
    BY <1>2, <1>4, <2>1 DEF ToCome
  <2>3. \E i \in Packets : First[i] = taken + 1
    BY <2>2, PacketOfStart
  <2>4. taken' = taken + 1 /\ got' = 1 /\ pc' = "header" /\ want' = 1
    BY <1>5, <1>6, <2>1
  <2>5. QED BY <1>5, <2>1, <2>3, <2>4 DEF Standing
<1>7. CASE pc = "length"
  <2>1. PICK i \in Packets : First[i] = taken
    BY <1>1, <1>7 DEF Standing
  <2>2. PICK b \in Nat : b = Bodies[i]
    BY PacketTyped
  <2>3. Mid(taken, 1 + b)
    BY <1>2, <2>1, <2>2, TypeByteRead
  <2>4. 1 + b <= h /\ want = 1 /\ want <= Head(records)
    BY <1>4, <1>7, <2>2, <2>3, HeadHoldsPacket DEF Standing
  <2>5. 1 \in 1..(1 + b) /\ (1 + b) - 1 = b
    BY <2>2
  <2>6. ToCome(taken + 1, (1 + b) - 1)
    BY <1>2, <2>3, <2>5, BytesRead
  <2>7. taken' = taken + 1 /\ pc' = "length" /\ want' = 1 /\ step' = "return"
    BY <1>5, <1>7, <2>4
  <2>8. First[i] = taken' - 1 /\ ToCome(taken', Bodies[i])
    BY <1>2, <2>1, <2>2, <2>5, <2>6, <2>7
  <2>9. QED BY <1>5, <2>4, <2>7, <2>8 DEF Standing
<1>8. CASE pc = "body"
  <2>1. Mid(taken, want)
    BY <1>1, <1>3, <1>8 DEF Standing, ToCome
  <2>2. want <= Head(records)
    BY <2>1, HeadHoldsPacket
  <2>3. want \in 1..want /\ want - want = 0
    BY <1>3
  <2>4. ToCome(taken + want, want - want)
    BY <1>2, <2>1, <2>3, BytesRead
  <2>5. ToCome(taken', 0) /\ pc' = "body" /\ step' = "return"
    BY <1>5, <1>8, <2>2, <2>3, <2>4
  <2>6. QED BY <1>5, <2>2, <2>5 DEF Standing
<1>9. CASE pc = "drop"
  <2>1. rest >= 1 /\ want = Least(rest, BufSize)
    BY <1>9 DEF Typed, Counts
  <2>2. Mid(taken, rest)
    BY <1>1, <1>3, <1>9, <2>1 DEF Standing, ToCome
  <2>3. want <= rest
    BY <1>3, <2>1, TicksTyped DEF Least
  <2>4. rest <= h
    BY <1>4, <2>2, HeadHoldsPacket
  <2>5. want <= Head(records) /\ want \in 1..rest
    BY <1>3, <1>4, <2>3, <2>4
  <2>6. ToCome(taken + want, rest - want)
    BY <1>2, <2>2, <2>5, BytesRead
  <2>7. ToCome(taken', rest' - got') /\ got' <= rest' /\ pc' = "drop" /\ step' = "return"
    BY <1>5, <1>9, <2>3, <2>5, <2>6
  <2>8. QED BY <1>5, <2>5, <2>7 DEF Standing
<1>10. QED BY <1>1, <1>6, <1>7, <1>8, <1>9 DEF InRead

\* A read that begins wants something and has nothing yet.
LEMMA StandingBegins ==
  ASSUME NEW what, NEW len, Begin(what, len),
         what = "header" => len = 1 /\ ToCome(taken', 0),
         what = "length" => len = 1 /\ \E i \in Packets : First[i] = taken',
         what = "body" => ToCome(taken', len),
         what = "drop" => ToCome(taken', rest'),
         what = "recv" => ToCome(taken', 0),
         what \in {"header", "length", "body", "drop", "recv"}
  PROVE  Standing'
<1>1. pc' = what /\ step' = "loop" /\ want' = len /\ got' = 0 /\ buf' = <<>>
  BY DEF Begin
<1>2. ~Returns' /\ step' # "return"
  BY <1>1 DEF Returns
<1>3. QED BY <1>1, <1>2 DEF Standing

LEMMA StandingDone == ASSUME Done, ToCome(taken', 0) PROVE Standing'
<1>1. pc' = "idle" /\ ~InLoop' /\ ~Returns'
  BY DEF Done, InLoop, Returns, InRead
<1>2. QED BY <1>1 DEF Standing

LEMMA StandingSame ==
  ASSUME Standing, UNCHANGED <<pc, step, want, got, buf, rest, taken>>
  PROVE  Standing'
  BY DEF Standing, Whole, InLoop, Returns, InRead

\* While the session lives only the read of a header may find nothing.
LEMMA ReadSucceeds ==
  ASSUME Typed, Unspoilt, Standing, Returns
  PROVE  /\ Success => Whole /\ got # 0
         /\ ~Success => pc = "header" /\ got = 0
<1>1. want \in Nat /\ want >= 1 /\ got \in Nat /\ ~error
  BY DEF Typed, Counts, Returns, Unspoilt
<1>2. Whole \/ (pc = "header" /\ got = 0)
  BY DEF Standing
<1>3. CASE Whole
  BY <1>1, <1>3 DEF Whole, Success, NothingToRead, ReadTimeout
<1>4. CASE ~Whole
  BY <1>1, <1>2, <1>4 DEF Success, NothingToRead
<1>5. QED BY <1>3, <1>4

LEMMA RemLenInStep ==
  ASSUME Typed, Standing, Whole, pc = "length", step = "return"
  PROVE  \E i \in Packets : RemLen = {Bodies[i]} /\ ToCome(taken, Bodies[i])
<1>1. PICK i \in Packets : First[i] = taken - 1 /\ ToCome(taken, Bodies[i])
  BY DEF Standing
<1>2. taken \in Nat
  BY InStreamTyped DEF Typed
<1>3. want = 1 /\ buf = [j \in 1..want |-> taken - want + j]
  BY DEF Standing, Whole
<1>4. buf # <<>> /\ buf[1] = taken
  <2>1. 1 \in 1..want /\ taken - want + 1 = taken
    BY <1>2, <1>3
  <2>2. buf[1] = taken
    BY <1>3, <2>1
  <2>3. Len(buf) = 1
    BY <1>3
  <2>4. QED BY <2>2, <2>3
<1>5. PICK b : b = taken - 1 /\ b = First[i] /\ b = buf[1] - 1
  BY <1>1, <1>4
<1>6. b \in Boundaries \ {Total + 1}
  <2>1. b \in Boundaries /\ b \in Nat /\ Bodies[i] \in Nat /\ b + 2 + Bodies[i] \in Boundaries
    BY <1>5, PacketTyped
  <2>2. PICK q \in Nat : q = b + 2 + Bodies[i] /\ q \in Boundaries
    BY <2>1
  <2>3. q <= Total + 1
    BY <2>2, BoundariesTyped
  <2>4. QED BY <2>1, <2>2, <2>3, BoundariesTyped
<1>7. (CHOOSE j \in Packets : First[j] = b) = i
  <2>1. PICK c : c = CHOOSE j \in Packets : First[j] = b
    OBVIOUS
  <2>2. c \in Packets /\ First[c] = b
    BY <1>5, <2>1
  <2>3. c = i
    BY <1>5, <2>2, PacketIsUnique
  <2>4. QED BY <2>1, <2>3
<1>8. RemLen = {Bodies[i]}
  BY <1>4, <1>5, <1>6, <1>7 DEF RemLen
<1>9. QED BY <1>1, <1>8

LEMMA StandingStep == Typed /\ Positions /\ [Next]_vars => Positions'
<1> SUFFICES ASSUME Typed, Positions, [Next]_vars, Unspoilt' PROVE Standing'
  BY DEF Positions
<1>1. Unspoilt /\ FlagsTyped
  <2>1. (split => split') /\ (broken => broken')
    <3>1. CASE RecordArrives
      BY <3>1 DEF RecordArrives
    <3>2. CASE ClockTicks \/ SessionBreaks \/ UNCHANGED vars
      BY <3>2 DEF ClockTicks, SessionBreaks, vars, network
    <3>3. CASE TlsRead
      <4>1. CASE ReadSome
        BY <4>1, Zenon DEF ReadSome
      <4>2. CASE ReadNothing \/ ReadError
        <5>1. UNCHANGED network
          BY <4>2 DEF ReadNothing, ReadError
        <5>2. QED BY <5>1, Zenon DEF network
      <4>3. QED BY <3>3, <4>1, <4>2 DEF TlsRead
    <3>4. CASE PacketRead
      BY <3>4 DEF PacketRead, ReadPacket, ReadFails, HeaderRead, LengthRead, BodyRead, DropRead, network
    <3>5. CASE SockRecv
      BY <3>5 DEF SockRecv, Recv, RecvTurn, RecvRetries, RecvWantsRead, RecvReturns, RecvTimesOut, network
    <3>6. QED BY <3>1, <3>2, <3>3, <3>4, <3>5 DEF Next
  <2>2. QED BY <2>1 DEF Unspoilt, Typed
<1>2. Standing
  BY <1>1 DEF Positions
<1>3. CASE ClockTicks \/ RecordArrives \/ SessionBreaks \/ UNCHANGED vars
  <2>1. UNCHANGED <<pc, step, want, got, buf, rest, taken>>
    BY <1>3 DEF ClockTicks, RecordArrives, SessionBreaks, vars, data, network
  <2>2. QED BY <1>2, <2>1, StandingSame
<1>4. CASE ReadSome
  BY <1>1, <1>2, <1>4, StandingReads
<1>5. CASE ReadNothing
  <2>1. InLoop /\ InRead /\ records = <<>> /\ step = "loop"
        /\ UNCHANGED <<pc, want, got, buf, rest, taken>>
    BY <1>5 DEF ReadNothing, InLoop, data, network
  <2>2. ASSUME NEW k \in Nat, k # 0, ToCome(taken, k) PROVE FALSE
    BY <1>1, <2>1, <2>2, HeadHoldsPacket DEF ToCome
  <2>3. want \in Nat /\ want >= 1 /\ rest \in Nat /\ (pc = "drop" => rest >= 1)
    BY <2>1 DEF Typed, Counts
  <2>4. pc # "length"
    <3> SUFFICES ASSUME pc = "length" PROVE FALSE
      OBVIOUS
    <3>1. PICK i \in Packets : First[i] = taken
      BY <1>2, <2>1 DEF Standing
    <3>2. PICK k \in Nat : k = 1 + Bodies[i] /\ k # 0
      BY PacketTyped
    <3>3. taken \in Nat
      BY InStreamTyped DEF Typed
    <3>4. Mid(taken, k)
      BY <3>1, <3>2, <3>3, TypeByteRead
    <3>5. QED BY <2>2, <3>2, <3>4 DEF ToCome
  <2>5. pc = "header"
    BY <1>2, <2>1, <2>2, <2>3, <2>4 DEF Standing, InRead
  <2>6. got = 0 /\ ToCome(taken, 0) /\ want = 1 /\ buf = <<>>
    BY <1>2, <2>1, <2>5 DEF Standing
  <2>7. pc' = "header" /\ got' = 0 /\ ToCome(taken', 0) /\ want' = 1 /\ buf' = <<>>
    BY <2>1, <2>5, <2>6
  <2>8. QED BY <2>7 DEF Standing
<1>6. CASE ReadError
  BY <1>1, <1>6 DEF ReadError, Unspoilt
<1>7. CASE ReadPacket
  <2>1. Begin("header", 1) /\ pc = "idle" /\ taken' = taken
    BY <1>7 DEF ReadPacket, network
  <2>2. ToCome(taken', 0)
    BY <1>2, <2>1 DEF Standing
  <2>3. QED BY <2>1, <2>2, StandingBegins
<1>8. CASE ReadFails
  <2>1. Done /\ taken' = taken /\ Returns /\ ~Success
    BY <1>8 DEF ReadFails, network
  <2>2. pc = "header" /\ got = 0
    BY <1>1, <1>2, <2>1, ReadSucceeds
  <2>3. ToCome(taken', 0)
    BY <1>2, <2>1, <2>2 DEF Standing
  <2>4. QED BY <2>1, <2>3, StandingDone
<1>9. CASE HeaderRead
  <2>1. Begin("length", 1) /\ taken' = taken /\ Returns /\ Success /\ pc = "header"
    BY <1>9 DEF HeaderRead, network
  <2>2. got # 0
    BY <1>1, <1>2, <2>1, ReadSucceeds
  <2>3. \E i \in Packets : First[i] = taken'
    BY <1>2, <2>1, <2>2 DEF Standing
  <2>4. QED BY <2>1, <2>3, StandingBegins
<1>10. CASE LengthRead
  <2>1. Returns /\ Success /\ pc = "length" /\ taken' = taken /\ step = "return"
    BY <1>10 DEF LengthRead, network, Returns
  <2>2. Whole
    BY <1>1, <1>2, <2>1, ReadSucceeds
  <2>3. PICK i \in Packets : RemLen = {Bodies[i]} /\ ToCome(taken, Bodies[i])
    BY <1>2, <2>1, <2>2, RemLenInStep
  <2>4. PICK len \in RemLen :
          \/ len = 0 /\ Done
          \/ len \in 1..BufSize-1 /\ Begin("body", len) /\ UNCHANGED <<ends, rest>>
          \/ len >= BufSize /\ Begin("drop", BufSize) /\ rest' = len /\ UNCHANGED ends
    BY <1>10 DEF LengthRead
  <2>5. ToCome(taken', len)
    BY <2>1, <2>3, <2>4
  <2>6. CASE len = 0 /\ Done
    BY <2>5, <2>6, StandingDone
  <2>7. CASE Begin("body", len)
    BY <2>5, <2>7, StandingBegins
  <2>8. CASE Begin("drop", BufSize) /\ rest' = len
    BY <2>5, <2>8, StandingBegins
  <2>9. QED BY <2>4, <2>6, <2>7, <2>8
<1>11. CASE BodyRead
  <2>1. Done /\ taken' = taken /\ pc = "body" /\ step = "return"
    BY <1>11 DEF BodyRead, network, Returns
  <2>2. ToCome(taken', 0)
    BY <1>2, <2>1 DEF Standing
  <2>3. QED BY <2>1, <2>2, StandingDone
<1>12. CASE DropRead
  <2>1. taken' = taken /\ pc = "drop" /\ step = "return"
    BY <1>12 DEF DropRead, network, Returns
  <2>2. got <= rest /\ ToCome(taken, rest - got) /\ got \in Nat /\ rest \in Nat
    BY <1>2, <2>1 DEF Standing, Typed, Counts
  <2>3. CASE got < rest /\ Begin("drop", Least(rest - got, BufSize)) /\ rest' = rest - got
    <3>1. ToCome(taken', rest')
      BY <2>1, <2>2, <2>3
    <3>2. QED BY <2>3, <3>1, StandingBegins
  <2>4. CASE got >= rest /\ Done
    <3>1. rest - got = 0
      BY <2>2, <2>4
    <3>2. ToCome(taken', 0)
      BY <2>1, <2>2, <3>1
    <3>3. QED BY <2>4, <3>2, StandingDone
  <2>5. QED BY <1>12, <2>3, <2>4 DEF DropRead
<1>13. CASE Recv
  <2>1. Begin("recv", 0) /\ pc = "idle" /\ taken' = taken
    BY <1>13 DEF Recv, network
  <2>2. ToCome(taken', 0)
    BY <1>2, <2>1 DEF Standing
  <2>3. QED BY <2>1, <2>2, StandingBegins
<1>14. CASE RecvTurn \/ RecvRetries \/ RecvWantsRead
  <2>1. pc = "recv" /\ pc' = "recv" /\ taken' = taken
    BY <1>14 DEF RecvTurn, RecvRetries, RecvWantsRead, network
  <2>2. ToCome(taken', 0) /\ ~InLoop' /\ ~Returns'
    BY <1>2, <2>1 DEF Standing, InLoop, Returns, InRead
  <2>3. QED BY <2>1, <2>2 DEF Standing
<1>15. CASE RecvReturns \/ RecvTimesOut
  <2>1. pc = "recv" /\ Done /\ taken' = taken
    BY <1>15 DEF RecvReturns, RecvTimesOut, network
  <2>2. ToCome(taken', 0)
    BY <1>2, <2>1 DEF Standing
  <2>3. QED BY <2>1, <2>2, StandingDone
<1>16. QED
  BY <1>3, <1>4, <1>5, <1>6, <1>7, <1>8, <1>9, <1>10, <1>11, <1>12, <1>13, <1>14, <1>15
     DEF Next, TlsRead, PacketRead, SockRecv

LEMMA PositionsInductive == Spec => []Positions
<1>1. Init => Positions
  BY BoundariesTyped DEF Init, Positions, Standing, ToCome, InLoop, Returns, InRead
<1>2. QED BY <1>1, StandingStep, TypedInductive, PTL DEF Spec

\* read_packet: as long as packets come whole in their records and the session
\* lives, it begins at a packet's first byte, after every timeout and every packet
\* it dropped.
THEOREM ReadsStayInStep == Spec => []InStep
<1>1. Positions => InStep
  BY DEF Positions, Standing, Unspoilt, InStep, ToCome
<1>2. QED BY <1>1, PositionsInductive, PTL

\* network_interface.h: of packets that come whole in their records what the comment
\* on pMsg says is right, the bytes that were read are there in their order.
THEOREM WholePacketsAreCopied == Spec => [](~split /\ ~broken => BytesAreCopied)
<1>1. Typed /\ Positions => (~split /\ ~broken => BytesAreCopied)
  <2> SUFFICES ASSUME Typed, Positions, ~split, ~broken, step = "return", got >= want,
                      NEW i \in 1..want
               PROVE  buf[i] = taken - got + i
    BY DEF BytesAreCopied
  <2>1. Returns /\ Standing /\ InRead
    BY DEF Typed, Places, Returns, Positions, Unspoilt
  <2>2. want \in Nat /\ want >= 1 /\ got \in Nat
    BY <2>1 DEF Typed, Counts
  <2>3. Whole
    BY <2>1, <2>2 DEF Standing
  <2>4. QED BY <2>3 DEF Whole
<1>2. QED BY <1>1, PositionsInductive, TypedInductive, PTL
=============================================================================
