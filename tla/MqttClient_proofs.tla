-------------------------- MODULE MqttClient_proofs --------------------------
(***************************************************************************)
(* Proofs about MqttClient, for any number of records, LED commands, broken *)
(* links, timeouts and attempts: the types, the state of the client, the    *)
(* network stack and the subscription; then the order of the PUBACKs, which *)
(* is that of AnswerOrder, and the delivery of the records.                 *)
(***************************************************************************)
EXTENDS MqttClient, SequenceTheorems, FiniteSetTheorems, TLAPS

-----------------------------------------------------------------------------
(* How calls nest: a read that gets a message calls the handler, and only   *)
(* the handler calls the client again, to publish.                          *)

Handler == {"callback", "deliver"}
Bases == {"connect", "reconnected", "subscribe", "resubscribe", "publish", "yield",
          "keepAlive"}
States == Connected \cup {"connecting"}
Frames(k) == [op : Bases \cup Handler, saved : States, of : 0..k]

StateOf(op) ==
  CASE op \in {"yield", "keepAlive"} -> "yield"
    [] op \in Handler                -> "cb"
    [] op = "connect"                -> "connecting"
    [] op = "reconnected"            -> "idle"
    [] OTHER                         -> op
SavedBy(op) == IF op = "connect" THEN "connecting" ELSE "idle"

\* Frame f may be above frame g: a handler above a read, a publish above a handler.
On(f, g) ==
  /\ f.saved = StateOf(g.op)
  /\ \/ f.op \in Handler /\ g.op \in Bases \ {"reconnected"}
     \/ f.op = "publish" /\ g.op = "deliver"
AtBottom(f) == f.op \in Bases /\ f.saved = SavedBy(f.op)

Nested(s, k) ==
  /\ s \in Seq(Frames(k))
  /\ \A i \in 1..Len(s)-1 : On(s[i], s[i+1])
  /\ s # <<>> => AtBottom(s[Len(s)])
Bottom(s) == s[Len(s)].op
Deep(s) == Len(s) > 1
Push(f, s) == <<f>> \o s
Pop(s) == Tail(s)

\* Twice the number of publishes on a nested stack.
Publishes(s) ==
  IF s = <<>> THEN 0
  ELSE Len(s) + (IF Bottom(s) = "publish" THEN 1 ELSE -1)
              - (IF Head(s).op \in Handler THEN 1 ELSE 0)

-----------------------------------------------------------------------------
(* The inductive invariant.                                                 *)

OutTypes == {"connect", "subscribe", "publish", "pingreq"}
InTypes  == AckTypes \cup {"refusal", "pingresp", "led"}

Scalars ==
  /\ pubPc \in {"connect", "subscribe", "yield", "receive", "publish", "stop",
                "disconnect", "ended"}
  /\ rc \in Goes \cup {"failure", "timeout", "timedOut", "disconnected"}
  /\ attempt \in 0..MaxAttempts /\ left \in 0..Records
  /\ clientState \in Connected \cup {"initialized", "connecting", "error",
                                     "pending", "manually"}
  /\ ping \in BOOLEAN /\ subscribed \in BOOLEAN /\ interval \in MinWait..2*MaxWait
  /\ lastType \in AckTypes \cup {"none", "pingresp", "led"}
  /\ link \in {"none", "up", "reset", "silent"}
  /\ leds \in 0..Leds /\ breaks \in 0..Breaks
Numbers ==
  /\ issued \in Nat /\ givenUp \in Nat /\ last \in 0..issued
  /\ delivered \subseteq 1..issued
  /\ Publishes(stack) \in Nat /\ 2 * givenUp + Publishes(stack) <= 2 * issued

\* Which calls the publisher makes where, and the state between them.
BottomOf(pc) ==
  CASE pc = "connect"             -> {"connect"}
    [] pc = "subscribe"           -> {"subscribe"}
    [] pc = "publish"             -> {"publish"}
    [] pc \in Yielding            -> {"yield", "keepAlive", "connect", "reconnected",
                                      "resubscribe"}
    [] OTHER                      -> {}
RestOf(pc) ==
  CASE pc = "connect"   -> {"initialized", "error"}
    [] pc = "subscribe" -> {"idle"}
    [] pc = "ended"     -> {"initialized", "error", "idle", "pending", "manually"}
    [] OTHER            -> {"idle", "pending"}

CallOfPlace ==
  IF stack = <<>> THEN clientState \in RestOf(pubPc)
  ELSE Bottom(stack) \in BottomOf(pubPc) /\ clientState = StateOf(Head(stack).op)
Reconnecting ==
  stack # <<>> /\ Bottom(stack) \in {"connect", "reconnected", "resubscribe"}
Tries ==
  /\ pubPc = "connect" /\ stack = <<>> => attempt < MaxAttempts
  /\ pubPc # "connect" /\ Reconnecting => interval <= MaxWait
Calls == Nested(stack, issued) /\ CallOfPlace /\ OpenWhileConnected /\ Tries

\* The broker answers in order, and a SUBSCRIBE goes before the publishes.
SubscribeUnderWay == \E j \in 1..Len(toBroker) : toBroker[j].type = "subscribe"
Answered ==
  \A i \in 1..Len(fromBroker) :
    fromBroker[i].type \in {"suback", "puback", "led"} => brokerSub
SubscribedFirst ==
  \A i \in 1..Len(toBroker) :
    toBroker[i].type = "publish" =>
      /\ toBroker[i].of >= 1
      /\ brokerSub \/ \E j \in 1..i-1 : toBroker[j].type = "subscribe"
Packeted ==
  /\ toBroker \in Seq(Packets(OutTypes)) /\ fromBroker \in Seq(Packets(InTypes))
  /\ brokerSub \in BOOLEAN
  /\ Answered /\ SubscribedFirst

\* Once the client has subscribed or subscribed again, and while it publishes.
Underway == brokerSub \/ SubscribeUnderWay
HasSubscribed ==
  \/ clientState \in {"idle", "publish"} /\ pubPc \in {"receive", "publish"}
  \/ stack # <<>> /\ Bottom(stack) = "resubscribe"
Subscribing ==
  link = "up" => (Deep(stack) => brokerSub) /\ (HasSubscribed => Underway)
\* Where only a client gets that has its subscription.
Subscribed ==
  link = "up" =>
    /\ pubPc = "yield" /\ (IF stack = <<>> THEN clientState = "idle"
                           ELSE Bottom(stack) \in {"yield", "keepAlive"}) => brokerSub
    /\ pubPc = "receive" /\ rc \in Goes => brokerSub \/ clientState # "idle"

IInv ==
  Scalars /\ Numbers /\ Calls /\ Packeted /\ Subscribing /\ Subscribed

-----------------------------------------------------------------------------
(* Nested stacks.                                                           *)

LEMMA StatesOfOps ==
  /\ \A op \in Bases \cup Handler : op # "connect" => StateOf(op) \in Connected
  /\ StateOf("connect") = "connecting"
  /\ \A op \in Bases : SavedBy(op) \in States
  BY DEF Bases, Handler, StateOf, Connected, SavedBy, States

LEMMA PublishesOf ==
  ASSUME NEW s, s # <<>>, NEW n \in Nat, Len(s) = n
  PROVE  Publishes(s) = n + (IF Bottom(s) = "publish" THEN 1 ELSE -1)
                          - (IF Head(s).op \in Handler THEN 1 ELSE 0)
  BY DEF Publishes

LEMMA LengthOf ==
  ASSUME NEW S, NEW s \in Seq(S), s # <<>>
  PROVE  /\ Head(s) = s[1] /\ s[1] \in S
         /\ \E n \in Nat : Len(s) = n /\ n >= 1 /\ (n = 1 <=> Tail(s) = <<>>)
<1>1. Head(s) = s[1] /\ s[1] \in S
  OBVIOUS
<1>2. PICK n \in Nat : n = Len(s)
  OBVIOUS
<1>3. n # 0
  BY <1>2
<1>4. Len(Tail(s)) = n - 1 /\ Tail(s) \in Seq(S)
  BY <1>2, <1>3
<1>5. Tail(s) = <<>> <=> n - 1 = 0
  BY <1>4, EmptySeq
<1>6. Len(s) = n /\ n >= 1 /\ (n = 1 <=> Tail(s) = <<>>)
  BY <1>2, <1>3, <1>5
<1>7. QED BY <1>1, <1>6

LEMMA NestedEmpty ==
  ASSUME NEW k
  PROVE  Nested(<<>>, k) /\ Publishes(<<>>) = 0 /\ ~Deep(<<>>)
  BY DEF Nested, Publishes, Deep

\* A call from the publisher, or inside a yield.
LEMMA NestedSingle ==
  ASSUME NEW op \in Bases, NEW k \in Nat, NEW n \in 0..k, NEW s,
         s = <<Frame(op, SavedBy(op), n)>>
  PROVE  /\ Nested(s, k) /\ s # <<>> /\ ~Deep(s) /\ Head(s) = Frame(op, SavedBy(op), n)
         /\ Bottom(s) = op
         /\ Publishes(s) = IF op = "publish" THEN 2 ELSE 0
<1>1. Frame(op, SavedBy(op), n) \in Frames(k)
  BY StatesOfOps DEF Frame, Frames
<1>2. s \in Seq(Frames(k)) /\ Len(s) = 1 /\ s # <<>> /\ s[1] = Frame(op, SavedBy(op), n)
      /\ Head(s) = s[1]
  BY <1>1
<1>3. Nested(s, k) /\ Bottom(s) = op
  BY <1>2 DEF Nested, AtBottom, Frame, Bottom
<1>4. op \notin Handler
  BY DEF Bases, Handler
<1>5. QED BY <1>2, <1>3, <1>4 DEF Publishes, Frame, Deep

\* The innermost call.
LEMMA NestedHead ==
  ASSUME NEW k \in Nat, NEW s, Nested(s, k), s # <<>>
  PROVE  /\ s \in Seq(Frames(k)) /\ Head(s) = s[1] /\ Head(s) \in Frames(k)
         /\ Head(s).op \in Bases \cup Handler /\ Head(s).saved \in States
         /\ Bottom(s) \in Bases
         /\ Head(s).op \in Bases \ {"publish"} =>
              /\ ~Deep(s) /\ Bottom(s) = Head(s).op /\ Head(s).saved = SavedBy(Head(s).op)
              /\ Publishes(s) = 0
         /\ Head(s).op \in Handler => Deep(s)
         /\ \A p \in Nat : Head(s).op = "publish" /\ p = Publishes(s) => p >= 2
<1>1. s \in Seq(Frames(k)) /\ Head(s) = s[1] /\ s[1] \in Frames(k)
  BY LengthOf DEF Nested
<1>0. PICK n \in Nat : Len(s) = n /\ n >= 1
  BY <1>1, LengthOf
<1>2. n > 1 => On(s[1], s[2])
  BY <1>0 DEF Nested
<1>3. AtBottom(s[n])
  BY <1>0 DEF Nested
<1>4. n > 1 => s[1].op \in Handler \cup {"publish"}
  BY <1>2 DEF On
<1>5. s[1].op \in Bases \ {"publish"} => n = 1
  <2>1. \A op \in Bases \ {"publish"} : op \notin Handler \cup {"publish"}
    BY DEF Bases, Handler
  <2>2. QED BY <1>0, <1>4, <2>1
<1>6. s[1].op \in Handler => n > 1
  BY <1>0, <1>3 DEF AtBottom, Bases, Handler
\* A handler is never the bottom, so below a nested publish there are two more.
<1>7. s[1].op = "publish" => s[n].op = "publish" \/ n > 2
  <2> SUFFICES ASSUME s[1].op = "publish", n = 2 PROVE s[n].op = "publish"
    BY <1>0
  <2>1. s[2].op \in Bases
    BY <1>3 DEF AtBottom
  <2>2. s[2].op = "deliver"
    BY <1>2 DEF On, Handler
  <2>3. QED BY <2>1, <2>2 DEF Bases
<1>8. \A p \in Nat : s[1].op = "publish" /\ p = Publishes(s) => p >= 2
  <2> SUFFICES ASSUME s[1].op = "publish" PROVE \A p \in Nat : p = Publishes(s) => p >= 2
    OBVIOUS
  <2>1. Head(s).op \notin Handler
    BY <1>1 DEF Handler
  <2>2. Publishes(s) = n + (IF Bottom(s) = "publish" THEN 1 ELSE -1)
    BY <1>0, <2>1, PublishesOf
  <2>3. CASE Bottom(s) = "publish"
    BY <1>0, <2>2, <2>3
  <2>4. CASE Bottom(s) # "publish"
    <3>1. n > 2
      BY <1>0, <1>7, <2>4 DEF Bottom
    <3>2. QED BY <2>2, <2>4, <3>1
  <2>5. QED BY <2>3, <2>4
<1>9. s[1].op \in Bases \cup Handler /\ s[1].saved \in States
  BY <1>1 DEF Frames
<1>11. s[1].op \in Bases \ {"publish"} => Publishes(s) = 0
  <2> SUFFICES ASSUME s[1].op \in Bases \ {"publish"} PROVE Publishes(s) = 0
    OBVIOUS
  <2>1. n = 1 /\ Bottom(s) # "publish" /\ Head(s).op \notin Handler
    BY <1>0, <1>1, <1>5 DEF Bottom, Bases, Handler
  <2>2. Publishes(s) = n + (IF Bottom(s) = "publish" THEN 1 ELSE -1)
                         - (IF Head(s).op \in Handler THEN 1 ELSE 0)
    BY <1>0, PublishesOf
  <2>3. QED BY <2>1, <2>2
<1>10. QED
  BY <1>0, <1>1, <1>3, <1>5, <1>6, <1>8, <1>9, <1>11 DEF AtBottom, Bottom, Deep

\* A call inside a call.
LEMMA NestedPush ==
  ASSUME NEW k \in Nat, NEW s, Nested(s, k), s # <<>>, NEW f \in Frames(k), On(f, Head(s)),
         NEW t, t = Push(f, s), NEW p \in Nat, p = Publishes(s)
  PROVE  /\ Nested(t, k) /\ t # <<>> /\ Head(t) = f /\ Deep(t)
         /\ Bottom(t) = Bottom(s)
         /\ f.op = "publish" => Publishes(t) = p + 2
         /\ f.op \in Handler /\ Head(s).op \notin Handler => Publishes(t) = p
<1>1. s \in Seq(Frames(k)) /\ Head(s) = s[1]
  BY NestedHead
<1>0. PICK n \in Nat : Len(s) = n /\ n >= 1
  BY <1>1, LengthOf
<1>2. t \in Seq(Frames(k)) /\ Len(t) = n + 1 /\ t # <<>> /\ t[1] = f /\ Head(t) = f
  BY <1>0, <1>1 DEF Push
<1>3. \A i \in 1..n : t[i+1] = s[i]
  BY <1>0, <1>1 DEF Push
<1>4. t[n+1] = s[n]
  BY <1>0, <1>3
<1>5. \A i \in 1..n : On(t[i], t[i+1])
  <2> SUFFICES ASSUME NEW i \in 1..n PROVE On(t[i], t[i+1])
    OBVIOUS
  <2>1. CASE i = 1
    BY <1>1, <1>2, <1>3, <2>1
  <2>2. CASE i # 1
    <3>1. i - 1 \in 1..n-1 /\ i - 1 \in 1..n /\ (i-1)+1 = i
      BY <2>2
    <3>2. t[(i-1)+1] = s[i-1] /\ t[i+1] = s[i]
      BY <1>3, <3>1
    <3>4. On(s[i-1], s[(i-1)+1])
      BY <1>0, <3>1 DEF Nested
    <3>3. QED BY <3>1, <3>2, <3>4
  <2>3. QED BY <2>1, <2>2
<1>6. Nested(t, k) /\ Bottom(t) = Bottom(s)
  BY <1>0, <1>2, <1>4, <1>5 DEF Nested, Bottom
<1>10. p = n + (IF Bottom(s) = "publish" THEN 1 ELSE -1)
                      - (IF Head(s).op \in Handler THEN 1 ELSE 0)
  BY <1>0, PublishesOf
<1>11. Publishes(t) = (n + 1) + (IF Bottom(t) = "publish" THEN 1 ELSE -1)
                        - (IF Head(t).op \in Handler THEN 1 ELSE 0)
  <2>1. n + 1 \in Nat
    OBVIOUS
  <2>2. QED BY <1>2, <2>1, PublishesOf
<1>7. f.op = "publish" => Publishes(t) = p + 2
  <2> SUFFICES ASSUME f.op = "publish" PROVE Publishes(t) = p + 2
    OBVIOUS
  <2>1. f.op \notin Handler /\ Head(s).op \in Handler
    BY DEF On, Handler
  <2>2. QED BY <1>2, <1>6, <1>10, <1>11, <2>1
<1>8. f.op \in Handler /\ Head(s).op \notin Handler => Publishes(t) = p
  <2> SUFFICES ASSUME f.op \in Handler, Head(s).op \notin Handler
               PROVE  Publishes(t) = p
    OBVIOUS
  <2>1. Publishes(t) = (n + 1) + (IF Bottom(s) = "publish" THEN 1 ELSE -1) - 1
    BY <1>2, <1>6, <1>11
  <2>2. p = n + (IF Bottom(s) = "publish" THEN 1 ELSE -1) - 0
    BY <1>10
  <2>3. QED BY <2>1, <2>2
<1>12. Deep(t)
  BY <1>0, <1>2 DEF Deep
<1>9. QED BY <1>2, <1>6, <1>7, <1>8, <1>12

\* The return of a publish or of a handler.
LEMMA NestedPop ==
  ASSUME NEW k \in Nat, NEW s, Nested(s, k), s # <<>>, Head(s).op \in Handler \cup {"publish"},
         NEW t, t = Pop(s), NEW p \in Nat, p = Publishes(s)
  PROVE  /\ Nested(t, k)
         /\ Head(s).op \in Handler => t # <<>> /\ Head(t).op \in Bases \ {"reconnected"}
         /\ t # <<>> => /\ Bottom(t) = Bottom(s) /\ Head(s).saved = StateOf(Head(t).op)
                        /\ Deep(s)
         /\ t = <<>> => Bottom(s) = "publish" /\ Head(s).saved = "idle"
         /\ Deep(t) => Deep(s)
         /\ Head(s).op = "publish" => Publishes(t) = p - 2 /\ p >= 2
         /\ Head(s).op \in Handler => Publishes(t) = p
<1> USE DEF Pop
<1>1. s \in Seq(Frames(k)) /\ Head(s) = s[1] /\ (s[1].op \in Handler => Len(s) > 1)
  BY NestedHead DEF Deep
<1>0. PICK n \in Nat : Len(s) = n /\ n >= 1 /\ (n = 1 <=> t = <<>>)
  BY <1>1, LengthOf
<1>2. t \in Seq(Frames(k)) /\ Len(t) = n - 1 /\ \A i \in 1..n-1 : t[i] = s[i+1]
  BY <1>0, <1>1
<1>4. t # <<>> => t[n-1] = s[n] /\ Head(t) = s[2] /\ On(s[1], s[2]) /\ n > 1
  <2> SUFFICES ASSUME t # <<>>
               PROVE  t[n-1] = s[n] /\ Head(t) = s[2] /\ On(s[1], s[2]) /\ n > 1
    OBVIOUS
  <2>1. n > 1
    BY <1>0
  <2>2. t[n-1] = s[n] /\ t[1] = s[2] /\ Head(t) = t[1]
    BY <1>2, <2>1, LengthOf
  <2>3. QED BY <1>0, <2>1, <2>2 DEF Nested
<1>5. \A i \in 1..(n-1)-1 : On(t[i], t[i+1])
  <2> SUFFICES ASSUME NEW i \in 1..(n-1)-1 PROVE On(t[i], t[i+1])
    OBVIOUS
  <2>1. t[i] = s[i+1] /\ t[i+1] = s[(i+1)+1] /\ i+1 \in 1..n-1
    BY <1>2
  <2>2. QED BY <1>0, <2>1 DEF Nested
<1>6. Nested(t, k)
  BY <1>0, <1>2, <1>4, <1>5 DEF Nested
<1>7. t = <<>> => Bottom(s) = "publish" /\ Head(s).saved = "idle"
  <2> SUFFICES ASSUME n = 1 PROVE Bottom(s) = "publish" /\ Head(s).saved = "idle"
    BY <1>0
  <2>1. AtBottom(s[1]) /\ Bottom(s) = s[1].op /\ s[1].op \notin Handler
    BY <1>0, <1>1 DEF Nested, Bottom
  <2>2. QED BY <1>1, <2>1 DEF AtBottom, SavedBy
<1>8. t # <<>> => Bottom(t) = Bottom(s) /\ Head(s).saved = StateOf(Head(t).op)
  BY <1>0, <1>1, <1>2, <1>4 DEF Bottom, On
<1>12. p = n + (IF Bottom(s) = "publish" THEN 1 ELSE -1)
                      - (IF Head(s).op \in Handler THEN 1 ELSE 0)
  BY <1>0, PublishesOf
<1>13. t # <<>> => Publishes(t) = (n - 1) + (IF Bottom(t) = "publish" THEN 1 ELSE -1)
                                   - (IF Head(t).op \in Handler THEN 1 ELSE 0)
  <2>1. n - 1 \in Nat
    BY <1>0
  <2>2. QED BY <1>2, <2>1, PublishesOf
<1>9. Head(s).op = "publish" => Publishes(t) = p - 2
  <2> SUFFICES ASSUME Head(s).op = "publish" PROVE Publishes(t) = p - 2
    OBVIOUS
  <2>1. Head(s).op \notin Handler
    BY DEF Handler
  <2>2. CASE t = <<>>
    <3>1. Publishes(t) = 0 /\ n = 1 /\ Bottom(s) = "publish"
      BY <1>0, <1>7, <2>2 DEF Publishes
    <3>2. QED BY <1>12, <2>1, <3>1
  <2>3. CASE t # <<>>
    <3>1. Head(t).op \in Handler
      BY <1>1, <1>4, <2>1, <2>3 DEF On, Handler
    <3>2. QED BY <1>8, <1>12, <1>13, <2>1, <2>3, <3>1
  <2>4. QED BY <2>2, <2>3
<1>10. Head(s).op \in Handler => Publishes(t) = p
  <2> SUFFICES ASSUME Head(s).op \in Handler PROVE Publishes(t) = p
    OBVIOUS
  <2>1. t # <<>>
    BY <1>0, <1>1
  <2>2. Head(t).op \notin Handler
    BY <1>1, <1>4, <2>1 DEF On, Handler, Bases
  <2>3. QED BY <1>8, <1>12, <1>13, <2>1, <2>2
<1>14. Head(s).op \in Handler => t # <<>> /\ Head(t).op \in Bases \ {"reconnected"}
  BY <1>0, <1>1, <1>4 DEF On, Handler
<1>15. Deep(t) => Deep(s)
  BY <1>0, <1>2 DEF Deep
<1>16. t # <<>> => Deep(s)
  BY <1>0, <1>4 DEF Deep
<1>17. Head(s).op = "publish" => p >= 2
  BY NestedHead
<1>11. QED BY <1>6, <1>7, <1>8, <1>9, <1>10, <1>14, <1>15, <1>16, <1>17

\* A handler on the stack that is left.
LEMMA NestedHandler ==
  ASSUME NEW k \in Nat, NEW s, Nested(s, k), s # <<>>,
         Head(s).op \in Bases \ {"reconnected"},
         NEW f \in Frames(k), f.op \in Handler, f.saved = StateOf(Head(s).op),
         NEW t, t = Push(f, s), NEW p \in Nat, p = Publishes(s)
  PROVE  /\ Nested(t, k) /\ t # <<>> /\ Head(t) = f /\ Bottom(t) = Bottom(s)
         /\ Deep(t) /\ Publishes(t) = p
<1>1. On(f, Head(s)) /\ Head(s).op \notin Handler
  BY DEF On, Handler, Bases
<1>2. QED BY <1>1, NestedPush

LEMMA NestedGrows ==
  ASSUME NEW k \in Nat, NEW m \in Nat, k <= m, NEW s, Nested(s, k)
  PROVE  Nested(s, m)
<1>1. Frames(k) \subseteq Frames(m)
  BY DEF Frames
<1>2. Seq(Frames(k)) \subseteq Seq(Frames(m))
  BY <1>1
<1>3. QED BY <1>2 DEF Nested

-----------------------------------------------------------------------------
(* What a step does to the packets under way.                               *)

Grows == issued \in Nat /\ issued' \in Nat /\ issued <= issued'

LEMMA PacketsGrow ==
  ASSUME NEW T, Grows
  PROVE  Packets(T) \subseteq Packets(T)' /\ Seq(Packets(T)) \subseteq Seq(Packets(T)')
<1>1. Packets(T) \subseteq Packets(T)'
  BY DEF Grows, Packets
<1>2. QED BY <1>1

LEMMA NetStays ==
  ASSUME Packeted, Grows, UNCHANGED <<toBroker, fromBroker, brokerSub>>
  PROVE  Packeted' /\ (Underway <=> Underway')
<1>1. toBroker' \in Seq(Packets(OutTypes)') /\ fromBroker' \in Seq(Packets(InTypes)')
  BY PacketsGrow DEF Packeted
<1>2. Answered' /\ SubscribedFirst' /\ brokerSub' \in BOOLEAN
  BY DEF Packeted, Answered, SubscribedFirst
<1>3. QED BY <1>1, <1>2 DEF Packeted, Underway, SubscribeUnderWay

LEMMA NetDestroyed ==
  ASSUME Destroy
  PROVE  Packeted' /\ link' = "none"
<1>1. toBroker' = <<>> /\ fromBroker' = <<>> /\ brokerSub' = FALSE /\ link' = "none"
  BY DEF Destroy
<1>2. toBroker' \in Seq(Packets(OutTypes)') /\ fromBroker' \in Seq(Packets(InTypes)')
  BY <1>1
<1>3. Answered' /\ SubscribedFirst'
  BY <1>1 DEF Answered, SubscribedFirst
<1>4. QED BY <1>1, <1>2, <1>3 DEF Packeted

LEMMA NetSent ==
  ASSUME Packeted, Grows, NEW p \in Packets(OutTypes)', Sent(p),
         p.type = "publish" => p.of >= 1 /\ (link = "up" => Underway)
  PROVE  /\ Packeted' /\ link' = link
         /\ brokerSub' = brokerSub
         /\ link = "up" /\ (p.type = "subscribe" \/ Underway) => Underway'
<1>1. UNCHANGED <<link, fromBroker, brokerSub>>
  BY DEF Sent
<1>2. CASE UNCHANGED toBroker /\ link = "silent"
  BY <1>1, <1>2, NetStays
<1>3. CASE link = "up" /\ toBroker' = Append(toBroker, p)
  <2>1. toBroker \in Seq(Packets(OutTypes)') /\ fromBroker' \in Seq(Packets(InTypes)')
    BY <1>1, PacketsGrow DEF Packeted
  <2>2. PICK n \in Nat : n = Len(toBroker)
    BY <2>1
  <2>3. /\ toBroker' \in Seq(Packets(OutTypes)') /\ Len(toBroker') = n + 1
        /\ toBroker'[n+1] = p
    BY <1>3, <2>1, <2>2
  <2>4. \A i \in 1..n : toBroker'[i] = toBroker[i]
    BY <1>3, <2>1, <2>2
  <2>5. Underway /\ brokerSub' = brokerSub => Underway'
    BY <2>2, <2>3, <2>4 DEF Underway, SubscribeUnderWay
  <2>6. p.type = "subscribe" => Underway'
    BY <2>3 DEF Underway, SubscribeUnderWay
  <2>7. SubscribedFirst'
    <3> SUFFICES ASSUME NEW i \in 1..Len(toBroker'), toBroker'[i].type = "publish"
                 PROVE  /\ toBroker'[i].of >= 1
                        /\ brokerSub' \/ \E j \in 1..i-1 : toBroker'[j].type = "subscribe"
      BY DEF SubscribedFirst
    <3>1. CASE i = n + 1
      <4>1. p.of >= 1 /\ Underway
        BY <1>3, <2>3, <3>1
      <4>2. brokerSub \/ \E j \in 1..n : toBroker[j].type = "subscribe"
        BY <4>1, <2>2 DEF Underway, SubscribeUnderWay
      <4>3. QED BY <1>1, <2>3, <2>4, <3>1, <4>1, <4>2
    <3>2. CASE i \in 1..n
      BY <1>1, <2>2, <2>4, <3>2 DEF Packeted, SubscribedFirst
    <3>3. QED BY <2>3, <3>1, <3>2
  <2>8. Answered' /\ brokerSub' \in BOOLEAN
    BY <1>1 DEF Packeted, Answered
  <2>9. QED BY <1>1, <2>1, <2>3, <2>5, <2>6, <2>7, <2>8 DEF Packeted
<1>4. QED BY <1>1, <1>2, <1>3 DEF Sent

LEMMA NetConsumed ==
  ASSUME Packeted, Consume, UNCHANGED issued, fromBroker # <<>>
  PROVE  /\ Packeted' /\ (Underway <=> Underway') /\ UNCHANGED <<link, brokerSub>>
         /\ lastType' \in AckTypes \cup {"pingresp", "led"}
         /\ Head(fromBroker) \in Packets(InTypes)
         /\ Incoming = Head(fromBroker).type
         /\ Incoming \in {"suback", "puback", "led"} => brokerSub
<1>1. UNCHANGED <<link, toBroker, brokerSub>> /\ fromBroker' = Tail(fromBroker)
  BY DEF Consume
<1>2. fromBroker \in Seq(Packets(InTypes))
  BY DEF Packeted
<1>3. PICK n \in Nat : n = Len(fromBroker)
  BY <1>2
<1>4. Head(fromBroker) = fromBroker[1] /\ Head(fromBroker) \in Packets(InTypes) /\ n # 0
  BY <1>2, <1>3
<1>5. /\ fromBroker' \in Seq(Packets(InTypes)) /\ Len(fromBroker') = n - 1
      /\ \A i \in 1..n-1 : fromBroker'[i] = fromBroker[i+1]
  BY <1>1, <1>2, <1>3
<1>6. Answered'
  <2>1. \A i \in 1..n-1 : i + 1 \in 1..n
    OBVIOUS
  <2>2. QED BY <1>1, <1>3, <1>5, <2>1 DEF Packeted, Answered
<1>7. SubscribedFirst' /\ brokerSub' \in BOOLEAN
  BY <1>1 DEF Packeted, SubscribedFirst
<1>8. Packets(InTypes)' = Packets(InTypes) /\ Packets(OutTypes)' = Packets(OutTypes)
  BY DEF Packets
<1>9. Packeted'
  BY <1>1, <1>5, <1>6, <1>7, <1>8 DEF Packeted
<1>10. Incoming = Head(fromBroker).type /\ Incoming \in InTypes
  BY <1>4 DEF Incoming, Packets
<1>11. lastType' \in AckTypes \cup {"pingresp", "led"}
  BY <1>10 DEF Consume, InTypes, AckTypes
<1>12. Incoming \in {"suback", "puback", "led"} => brokerSub
  BY <1>3, <1>4, <1>10 DEF Packeted, Answered
<1>13. QED
  BY <1>1, <1>4, <1>9, <1>10, <1>11, <1>12 DEF Underway, SubscribeUnderWay

-----------------------------------------------------------------------------
(* Where the client is.                                                     *)

LEMMA InCall ==
  ASSUME IInv, TopOp # "none"
  PROVE  /\ stack # <<>> /\ Nested(stack, issued) /\ issued \in Nat
         /\ Top = Head(stack) /\ Top.op = TopOp /\ Top \in Frames(issued)
         /\ TopOp \in Bases \cup Handler
         /\ clientState = StateOf(TopOp) /\ Bottom(stack) \in BottomOf(pubPc)
         /\ Publishes(stack) \in Nat
         /\ TopOp \in Bases \ {"publish"} =>
              /\ ~Deep(stack) /\ Bottom(stack) = TopOp /\ Top.saved = SavedBy(TopOp)
              /\ Publishes(stack) = 0
         /\ TopOp \in Handler => Deep(stack)
<1>1. stack # <<>> /\ Top = Head(stack) /\ Top.op = TopOp
  BY DEF TopOp, Top
<1>2. Nested(stack, issued) /\ issued \in Nat /\ Publishes(stack) \in Nat
  BY DEF IInv, Calls, Numbers
<1>3. clientState = StateOf(TopOp) /\ Bottom(stack) \in BottomOf(pubPc)
  BY <1>1 DEF IInv, Calls, CallOfPlace
<1>4. QED BY <1>1, <1>2, <1>3, NestedHead

LEMMA AtRest ==
  ASSUME IInv, stack = <<>>
  PROVE  /\ clientState \in RestOf(pubPc) /\ TopOp = "none" /\ issued \in Nat
         /\ Nested(stack, issued) /\ Publishes(stack) = 0 /\ ~Deep(stack)
  BY NestedEmpty DEF IInv, Calls, CallOfPlace, TopOp, Numbers

LEMMA NumbersStay ==
  ASSUME Numbers, UNCHANGED hist, Publishes(stack') = Publishes(stack)
  PROVE  Numbers'
  BY DEF Numbers, hist

\* Between the calls of the publisher and of a yield that do not nest.
LEMMA BaseCalled ==
  ASSUME IInv, stack = <<>> \/ TopOp \in Bases \ {"publish"}, UNCHANGED hist,
         NEW op \in Bases \ {"publish"}, NEW n \in 0..issued,
         stack' = <<Frame(op, SavedBy(op), n)>>
  PROVE  /\ Numbers' /\ Nested(stack', issued') /\ stack' # <<>> /\ ~Deep(stack')
         /\ Head(stack').op = op /\ Bottom(stack') = op
<1>1. Publishes(stack) = 0 /\ issued \in Nat
  BY InCall, AtRest DEF Bases
<1>2. /\ Nested(stack', issued) /\ stack' # <<>> /\ ~Deep(stack')
      /\ Head(stack') = Frame(op, SavedBy(op), n) /\ Bottom(stack') = op
      /\ Publishes(stack') = 0
  BY <1>1, NestedSingle
<1>3. Numbers'
  BY <1>1, <1>2, NumbersStay DEF IInv
<1>4. QED BY <1>2, <1>3 DEF hist, Frame

LEMMA BaseEnded ==
  ASSUME IInv, stack = <<>> \/ TopOp \in Bases \ {"publish"}, UNCHANGED hist, stack' = <<>>
  PROVE  Numbers' /\ Nested(stack', issued') /\ ~Deep(stack')
<1>1. Publishes(stack) = 0 /\ issued \in Nat
  BY InCall, AtRest DEF Bases
<1>2. Nested(stack', issued) /\ Publishes(stack') = 0 /\ ~Deep(stack')
  BY NestedEmpty
<1>3. Numbers'
  BY <1>1, <1>2, NumbersStay DEF IInv
<1>4. QED BY <1>2, <1>3 DEF hist

LEMMA HistStays ==
  ASSUME IInv, UNCHANGED hist PROVE Grows
  BY DEF IInv, Numbers, hist, Grows

\* The stack on which a read leaves the client.
LEMMA ReadDone ==
  ASSUME IInv, TopOp \in Reading
  PROVE  /\ Nested(AfterRead, issued) /\ AfterRead # <<>>
         /\ Head(AfterRead).op \in Bases \ {"reconnected"}
         /\ StateOf(Head(AfterRead).op) = StateOf(TopOp)
         /\ Publishes(AfterRead) = Publishes(stack) /\ (Deep(AfterRead) <=> Deep(stack))
         /\ Bottom(AfterRead) = IF TopOp = "yield" THEN "keepAlive" ELSE Bottom(stack)
<1>1. TopOp # "none" /\ TopOp \in Bases \ {"reconnected", "keepAlive"}
  BY DEF Reading, Waiting, Ack, Bases
<1>2. CASE TopOp = "yield"
  <2>1. /\ Top \in Frames(issued) /\ Top.saved = "idle" /\ ~Deep(stack)
        /\ Publishes(stack) = 0 /\ issued \in Nat /\ Top.op = "yield"
    BY <1>1, <1>2, InCall DEF Bases, SavedBy
  <2>2. Top.of \in 0..issued /\ AfterRead = <<[Top EXCEPT !.op = "keepAlive"]>>
    BY <2>1 DEF Frames, AfterRead
  <2>3. [Top EXCEPT !.op = "keepAlive"] = Frame("keepAlive", SavedBy("keepAlive"), Top.of)
    BY <2>1 DEF Frames, Frame, SavedBy
  <2>4. PICK t : t = AfterRead
    OBVIOUS
  <2>5. t = <<Frame("keepAlive", SavedBy("keepAlive"), Top.of)>> /\ "keepAlive" \in Bases
    BY <2>2, <2>3, <2>4 DEF Bases
  <2>6. /\ Nested(t, issued) /\ t # <<>> /\ ~Deep(t) /\ Bottom(t) = "keepAlive"
        /\ Head(t) = Frame("keepAlive", SavedBy("keepAlive"), Top.of)
        /\ Publishes(t) = 0
    BY <2>1, <2>2, <2>5, NestedSingle
  <2>7. Head(t).op = "keepAlive" /\ StateOf("keepAlive") = StateOf("yield")
    BY <2>6 DEF Frame, StateOf, Handler
  <2>8. QED BY <1>2, <2>1, <2>4, <2>5, <2>6, <2>7
<1>3. CASE TopOp # "yield"
  <2>1. AfterRead = stack
    BY <1>1, <1>3, InCall DEF AfterRead
  <2>2. QED BY <1>1, <1>3, <2>1, InCall
<1>4. QED BY <1>2, <1>3

\* What the end of a call does to the publisher.
Codes == {"attempting", "reconnected", "success", "failure", "timeout", "timedOut"}

LEMMA YieldReturned ==
  ASSUME pubPc \in Yielding, NEW code \in Codes, YieldReturns(code)
  PROVE  /\ pubPc' = IF pubPc = "stop" THEN "disconnect"
                     ELSE IF code = "attempting" THEN "yield" ELSE "receive"
         /\ rc' = code /\ UNCHANGED <<attempt, left>>
  BY DEF YieldReturns, Yielding

LEMMA BackedOff ==
  ASSUME Scalars, pubPc \in Yielding, interval <= MaxWait, NEW code \in Codes, BackOff(code)
  PROVE  /\ interval' \in MinWait..2*MaxWait
         /\ rc' \in {code, "timedOut"} /\ UNCHANGED <<attempt, left>>
         /\ pubPc' = IF pubPc = "stop" THEN "disconnect"
                     ELSE IF rc' = "attempting" THEN "yield" ELSE "receive"
<1>1. interval' \in MinWait..2*MaxWait
  BY BoundsAssumption DEF Scalars, BackOff
<1>2. \E c \in Codes : c \in {code, "timedOut"} /\ YieldReturns(c)
  BY DEF BackOff, Codes
<1>3. QED BY <1>1, <1>2, YieldReturned

-----------------------------------------------------------------------------
(* The fragments of the actions.                                            *)

\* A connect has failed: the network stack is gone, whoever had called.
LEMMA ConnectFailsKeeps ==
  ASSUME IInv, ConnectFails, stack = <<>> \/ TopOp = "connect",
         attempt' \in 0..MaxAttempts, pubPc # "connect" => attempt' = attempt,
         pubPc = "connect" \/ (pubPc \in Yielding /\ interval <= MaxWait),
         UNCHANGED <<ping, subscribed, env, hist>>,
         lastType' \in AckTypes \cup {"none", "pingresp", "led"}
  PROVE  IInv'
<1>1. Packeted' /\ link' = "none" /\ stack' = <<>>
  BY NetDestroyed DEF ConnectFails
<1>2. Numbers' /\ Nested(stack', issued') /\ ~Deep(stack')
  BY <1>1, BaseEnded DEF Bases
<1>3. CASE pubPc = "connect"
  <2>1. /\ clientState' = "error" /\ rc' = "failure" /\ UNCHANGED <<interval, left>>
        /\ pubPc' = IF attempt' < MaxAttempts THEN "connect" ELSE "ended"
    BY <1>3 DEF ConnectFails
  <2>2. Scalars'
    BY <1>1, <2>1 DEF IInv, Scalars, env, Goes
  <2>3. CallOfPlace' /\ OpenWhileConnected' /\ Tries'
    BY <1>1, <2>1 DEF CallOfPlace, RestOf, OpenWhileConnected, Connected, Tries, Reconnecting,
                      Yielding
  <2>4. QED BY <1>1, <1>2, <2>2, <2>3 DEF IInv, Calls, Subscribing, Subscribed
<1>4. CASE pubPc # "connect"
  <2>1. clientState' = "pending" /\ BackOff("attempting") /\ pubPc \in Yielding
    BY <1>4 DEF ConnectFails
  <2>2. /\ interval' \in MinWait..2*MaxWait
        /\ rc' \in {"attempting", "timedOut"} /\ UNCHANGED left
        /\ pubPc' \in {"disconnect", "yield", "receive"}
    BY <1>4, <2>1, BackedOff DEF IInv, Codes
  <2>3. Scalars'
    BY <1>1, <2>1, <2>2 DEF IInv, Scalars, env, Goes
  <2>4. CallOfPlace' /\ OpenWhileConnected' /\ Tries'
    BY <1>1, <2>1, <2>2 DEF CallOfPlace, RestOf, OpenWhileConnected, Connected, Tries,
                            Reconnecting, Yielding
  <2>5. QED BY <1>1, <1>2, <2>3, <2>4 DEF IInv, Calls, Subscribing, Subscribed
<1>5. QED BY <1>3, <1>4

\* The client has lost its connection.
LEMMA HandleDisconnectKeeps ==
  ASSUME IInv, HandleDisconnect, TopOp \in {"yield", "keepAlive"},
         UNCHANGED <<ping, subscribed, lastType, env, hist>>
  PROVE  IInv'
<1>1. Packeted' /\ link' = "none" /\ stack' = <<>>
  BY NetDestroyed DEF HandleDisconnect
<1>2. Numbers' /\ Nested(stack', issued') /\ ~Deep(stack')
  BY <1>1, BaseEnded DEF Bases
<1>3. pubPc \in Yielding
  <2>1. Bottom(stack) = TopOp /\ Bottom(stack) \in BottomOf(pubPc)
    BY InCall DEF Bases
  <2>2. QED BY <2>1 DEF BottomOf, Yielding
<1>4. /\ pubPc' \in {"disconnect", "yield"} /\ rc' = "attempting"
      /\ UNCHANGED <<attempt, left>>
  BY <1>3, YieldReturned DEF HandleDisconnect, Codes
<1>5. clientState' = "pending" /\ interval' = MinWait
  BY DEF HandleDisconnect
<1>6. Scalars'
  BY <1>1, <1>4, <1>5, BoundsAssumption DEF IInv, Scalars, env, Goes
<1>7. CallOfPlace' /\ OpenWhileConnected' /\ Tries'
  BY <1>1, <1>4, <1>5 DEF CallOfPlace, RestOf, OpenWhileConnected, Connected, Tries,
                          Reconnecting, Yielding
<1>8. QED BY <1>1, <1>2, <1>6, <1>7 DEF IInv, Calls, Subscribing, Subscribed

\* A yield ends and the client is still connected.
LEMMA YieldEndsKeeps ==
  ASSUME IInv, NEW code \in {"success", "failure"}, YieldEnds(code),
         TopOp \in {"yield", "keepAlive"}, Packeted', UNCHANGED <<link, brokerSub>>,
         UNCHANGED <<interval, subscribed, env, hist>>, ping' \in BOOLEAN,
         lastType' \in AckTypes \cup {"none", "pingresp", "led"}
  PROVE  IInv'
<1>1. stack' = <<>> /\ clientState' = "idle"
  BY DEF YieldEnds
<1>2. Numbers' /\ Nested(stack', issued') /\ ~Deep(stack')
  BY <1>1, BaseEnded DEF Bases
<1>3. /\ pubPc \in Yielding /\ clientState = "yield" /\ stack # <<>>
      /\ Bottom(stack) = TopOp
  <2>1. /\ Bottom(stack) = TopOp /\ Bottom(stack) \in BottomOf(pubPc) /\ stack # <<>>
        /\ clientState = StateOf(TopOp)
    BY InCall DEF Bases
  <2>2. QED BY <2>1 DEF BottomOf, Yielding, StateOf, Handler
<1>4. /\ pubPc' = IF pubPc = "stop" THEN "disconnect" ELSE "receive"
      /\ rc' = code /\ UNCHANGED <<attempt, left>>
  BY <1>3, YieldReturned DEF YieldEnds, Codes
<1>5. Scalars'
  BY <1>1, <1>4 DEF IInv, Scalars, env, Goes, Connected
<1>6. CallOfPlace' /\ OpenWhileConnected' /\ Tries'
  BY <1>1, <1>3, <1>4 DEF IInv, Calls, CallOfPlace, RestOf, OpenWhileConnected, Connected,
                          Tries, Reconnecting, Yielding
<1>7. link = "up" /\ pubPc' = "receive" => brokerSub
  BY <1>3, <1>4 DEF IInv, Subscribed, Yielding
<1>8. Subscribing' /\ Subscribed'
  BY <1>1, <1>2, <1>4, <1>7 DEF Subscribing, HasSubscribed, Subscribed, Underway
<1>9. QED BY <1>2, <1>5, <1>6, <1>8 DEF IInv, Calls

\* A resubscription has failed.
LEMMA ReconnectFailsKeeps ==
  ASSUME IInv, NEW code \in {"timeout", "failure"}, ReconnectFails(code),
         TopOp \in {"reconnected", "resubscribe"}, UNCHANGED net,
         TopOp = "reconnected" => link # "up",
         UNCHANGED <<ping, subscribed, lastType, env, hist>>
  PROVE  IInv'
<1>1. stack' = <<>> /\ clientState' = "idle"
  BY DEF ReconnectFails
<1>2. Numbers' /\ Nested(stack', issued') /\ ~Deep(stack')
  BY <1>1, BaseEnded DEF Bases
<1>3. /\ pubPc \in Yielding /\ stack # <<>> /\ Bottom(stack) = TopOp
      /\ clientState \in Connected
  <2>1. /\ Bottom(stack) = TopOp /\ Bottom(stack) \in BottomOf(pubPc) /\ stack # <<>>
        /\ clientState = StateOf(TopOp)
    BY InCall DEF Bases
  <2>2. QED BY <2>1 DEF BottomOf, Yielding, StateOf, Handler, Connected
<1>4. interval <= MaxWait
  BY <1>3 DEF IInv, Calls, Tries, Reconnecting, Yielding
<1>5. /\ interval' \in MinWait..2*MaxWait /\ rc' \in {code, "timedOut"}
      /\ UNCHANGED <<attempt, left>> /\ pubPc' \in {"disconnect", "receive"}
  BY <1>3, <1>4, BackedOff DEF ReconnectFails, Codes, IInv
<1>6. Scalars'
  BY <1>1, <1>5 DEF IInv, Scalars, env, net, Goes, Connected
<1>7. CallOfPlace' /\ OpenWhileConnected' /\ Tries'
  BY <1>1, <1>3, <1>5 DEF IInv, Calls, CallOfPlace, RestOf, OpenWhileConnected, Connected,
                          Tries, Reconnecting, net
<1>8. Packeted' /\ (Underway <=> Underway')
  BY HistStays, NetStays DEF net, IInv
<1>9. link = "up" => Underway
  BY <1>3 DEF IInv, Subscribing, HasSubscribed
<1>10. Subscribing' /\ Subscribed'
  BY <1>1, <1>2, <1>5, <1>8, <1>9 DEF Subscribing, HasSubscribed, Subscribed, Goes, net
<1>11. QED BY <1>2, <1>6, <1>7, <1>8, <1>10 DEF IInv, Calls

-----------------------------------------------------------------------------
(* Connecting.                                                              *)

LEMMA CalledFrom ==
  ASSUME IInv, ConnectCalled
  PROVE  /\ stack = <<>> /\ attempt' \in 0..MaxAttempts
         /\ pubPc = "connect" \/ (pubPc \in Yielding /\ interval <= MaxWait)
         /\ pubPc # "connect" => attempt' = attempt
<1>1. stack = <<>>
  BY DEF ConnectCalled
<1>2. pubPc = "connect" => attempt < MaxAttempts
  BY <1>1 DEF IInv, Calls, Tries
<1>3. QED
  BY <1>1, <1>2, BoundsAssumption DEF ConnectCalled, IInv, Scalars, Yielding

LEMMA NetConnectKeeps == ASSUME IInv, NetConnect PROVE IInv'
<1>1. /\ stack = <<>> /\ attempt' \in 0..MaxAttempts
      /\ pubPc = "connect" \/ (pubPc \in Yielding /\ interval <= MaxWait)
  BY CalledFrom DEF NetConnect
<1>2. /\ clientState' = "connecting" /\ link' = "up" /\ toBroker' = <<Packet("connect", 0)>>
      /\ fromBroker' = <<>> /\ UNCHANGED <<pubPc, rc, left, interval, brokerSub, env, hist>>
      /\ UNCHANGED <<ping, subscribed, lastType>>
  BY DEF NetConnect
<1>3. stack' = <<Frame("connect", SavedBy("connect"), 0)>>
  BY DEF NetConnect, SavedBy
<1>4. issued \in Nat
  BY DEF IInv, Numbers
<1>5. /\ Numbers' /\ Nested(stack', issued') /\ stack' # <<>> /\ ~Deep(stack')
      /\ Head(stack').op = "connect" /\ Bottom(stack') = "connect"
  BY <1>1, <1>2, <1>3, <1>4, BaseCalled DEF Bases
<1>6. Scalars'
  BY <1>1, <1>2 DEF IInv, Scalars, env
<1>7. CallOfPlace' /\ OpenWhileConnected' /\ Tries'
  BY <1>1, <1>2, <1>5 DEF CallOfPlace, BottomOf, StateOf, Handler, Yielding, OpenWhileConnected,
                          Tries, Reconnecting
<1>8. Packeted'
  <2>1. Packet("connect", 0) \in Packets(OutTypes)'
    BY <1>2, <1>4 DEF Packet, Packets, OutTypes, hist
  <2>2. toBroker' \in Seq(Packets(OutTypes)') /\ fromBroker' \in Seq(Packets(InTypes)')
    BY <1>2, <2>1
  <2>3. Answered' /\ SubscribedFirst'
    BY <1>2 DEF Answered, SubscribedFirst, Packet
  <2>4. brokerSub' \in BOOLEAN
    BY <1>2 DEF IInv, Packeted
  <2>5. QED BY <2>2, <2>3, <2>4 DEF Packeted
<1>9. Subscribing' /\ Subscribed'
  BY <1>1, <1>2, <1>5 DEF Subscribing, HasSubscribed, Subscribed, Yielding
<1>10. QED BY <1>5, <1>6, <1>7, <1>8, <1>9 DEF IInv, Calls

LEMMA NetConnectFailsKeeps == ASSUME IInv, NetConnectFails PROVE IInv'
<1>1. ConnectCalled /\ ConnectFails /\ UNCHANGED <<ping, subscribed, lastType, env, hist>>
  BY DEF NetConnectFails
<1>2. lastType' \in AckTypes \cup {"none", "pingresp", "led"}
  BY <1>1 DEF IInv, Scalars
<1>3. QED BY <1>1, <1>2, CalledFrom, ConnectFailsKeeps

LEMMA YieldPendingKeeps == ASSUME IInv, YieldPending PROVE IInv'
<1>1. stack = <<>> /\ clientState = "pending" /\ UNCHANGED <<client, net, env, hist>>
  BY DEF YieldPending
<1>2. PICK code \in {"timedOut", "attempting"} :
        YieldReturns(code) /\ pubPc \in Yielding /\ (code = "attempting" => pubPc = "stop")
  BY DEF YieldPending, Yielding
<1>3. /\ pubPc' \in {"disconnect", "receive"} /\ rc' = code
      /\ UNCHANGED <<attempt, left>>
  BY <1>2, YieldReturned DEF Codes
<1>4. Scalars'
  BY <1>1, <1>3 DEF IInv, Scalars, client, net, env, Goes
<1>5. Numbers' /\ Nested(stack', issued') /\ ~Deep(stack')
  BY <1>1, BaseEnded DEF client
<1>6. CallOfPlace' /\ OpenWhileConnected' /\ Tries'
  BY <1>1, <1>3 DEF IInv, Calls, CallOfPlace, RestOf, OpenWhileConnected, Tries, Reconnecting,
                    client, net
<1>7. Packeted'
  BY <1>1, HistStays, NetStays DEF net, IInv
<1>8. Subscribing' /\ Subscribed'
  BY <1>1, <1>3, <1>5 DEF Subscribing, HasSubscribed, Subscribed, client
<1>9. QED BY <1>4, <1>5, <1>6, <1>7, <1>8 DEF IInv, Calls

LEMMA SubscribeCallKeeps == ASSUME IInv, SubscribeCall PROVE IInv'
<1>1. /\ pubPc = "subscribe" /\ stack = <<>> /\ clientState = "idle"
      /\ UNCHANGED <<attempt, left, ping, interval, subscribed, lastType, env, hist>>
  BY AtRest DEF SubscribeCall, RestOf
<1>2. issued \in Nat /\ Grows /\ issued' = issued
  BY <1>1, HistStays DEF Grows, hist
<1>3. CASE /\ Sent(Packet("subscribe", 0)) /\ clientState' = "subscribe"
           /\ stack' = <<Frame("subscribe", clientState, 0)>> /\ UNCHANGED <<pubPc, rc>>
  <2>1. Packet("subscribe", 0) \in Packets(OutTypes)' /\ Packet("subscribe", 0).type = "subscribe"
    BY <1>2 DEF Packet, Packets, OutTypes
  <2>2. Packeted' /\ link' = link
    BY <1>2, <1>3, <2>1, NetSent DEF IInv
  <2>3. stack' = <<Frame("subscribe", SavedBy("subscribe"), 0)>>
    BY <1>1, <1>3 DEF SavedBy
  <2>4. /\ Numbers' /\ Nested(stack', issued') /\ stack' # <<>> /\ ~Deep(stack')
        /\ Head(stack').op = "subscribe" /\ Bottom(stack') = "subscribe"
    BY <1>1, <1>2, <2>3, BaseCalled DEF Bases
  <2>5. Scalars'
    BY <1>1, <1>3, <2>2 DEF IInv, Scalars, env, Connected
  <2>6. CallOfPlace' /\ OpenWhileConnected' /\ Tries'
    BY <1>1, <1>3, <2>2, <2>4 DEF IInv, Calls, CallOfPlace, BottomOf, StateOf, Handler, Yielding,
                  OpenWhileConnected, Connected, Tries, Reconnecting
  <2>7. Subscribing' /\ Subscribed'
    BY <1>1, <1>3, <2>4 DEF Subscribing, HasSubscribed, Subscribed
  <2>8. QED BY <2>2, <2>4, <2>5, <2>6, <2>7 DEF IInv, Calls
<1>4. CASE /\ SendFails /\ rc' = "failure" /\ pubPc' = "ended"
           /\ UNCHANGED <<clientState, stack>>
  <2>1. UNCHANGED net
    BY <1>4 DEF SendFails
  <2>2. Numbers' /\ Nested(stack', issued') /\ ~Deep(stack')
    BY <1>1, <1>4, BaseEnded
  <2>3. Scalars'
    BY <1>1, <1>4, <2>1 DEF IInv, Scalars, env, net, Goes
  <2>4. CallOfPlace' /\ OpenWhileConnected' /\ Tries'
    BY <1>1, <1>4, <2>1 DEF IInv, Calls, CallOfPlace, RestOf, OpenWhileConnected, Tries,
                            Reconnecting, net
  <2>5. Packeted'
    BY <1>2, <2>1, NetStays DEF net, IInv
  <2>6. Subscribing' /\ Subscribed'
    BY <1>1, <1>4, <2>2 DEF Subscribing, HasSubscribed, Subscribed
  <2>7. QED BY <2>2, <2>3, <2>4, <2>5, <2>6 DEF IInv, Calls
<1>5. QED BY <1>3, <1>4 DEF SubscribeCall

LEMMA ResubscribeKeeps == ASSUME IInv, Resubscribe PROVE IInv'
<1>1. TopOp = "reconnected" /\ UNCHANGED <<ping, subscribed, lastType, env, hist>>
  BY DEF Resubscribe
<1>2. issued \in Nat /\ Grows /\ issued' = issued
  BY <1>1, HistStays DEF Grows, hist
<1>3. CASE SendFails /\ ReconnectFails("failure")
  <2>1. UNCHANGED net /\ link # "up"
    BY <1>3 DEF SendFails
  <2>2. QED BY <1>1, <1>3, <2>1, ReconnectFailsKeeps
<1>4. CASE /\ Sent(Packet("subscribe", 0)) /\ clientState' = "resubscribe"
           /\ stack' = <<Frame("resubscribe", "idle", 0)>> /\ UNCHANGED <<publisher, interval>>
  <2>1. Packet("subscribe", 0) \in Packets(OutTypes)' /\ Packet("subscribe", 0).type = "subscribe"
    BY <1>2 DEF Packet, Packets, OutTypes
  <2>2. Packeted' /\ link' = link /\ (link = "up" => Underway')
    BY <1>2, <1>4, <2>1, NetSent DEF IInv
  <2>3. stack' = <<Frame("resubscribe", SavedBy("resubscribe"), 0)>>
    BY <1>4 DEF SavedBy
  <2>4. /\ Numbers' /\ Nested(stack', issued') /\ stack' # <<>> /\ ~Deep(stack')
        /\ Head(stack').op = "resubscribe" /\ Bottom(stack') = "resubscribe"
    BY <1>1, <1>2, <2>3, BaseCalled DEF Bases
  <2>5. Scalars'
    BY <1>1, <1>4, <2>2 DEF IInv, Scalars, env, Connected, publisher
  <2>6. /\ pubPc \in Yielding /\ stack # <<>> /\ Bottom(stack) = "reconnected"
        /\ clientState = "idle"
    <3>1. /\ Bottom(stack) = TopOp /\ Bottom(stack) \in BottomOf(pubPc) /\ stack # <<>>
          /\ clientState = StateOf(TopOp)
      BY <1>1, InCall DEF Bases
    <3>2. QED BY <1>1, <3>1 DEF BottomOf, Yielding, StateOf, Handler
  <2>7. CallOfPlace' /\ OpenWhileConnected' /\ Tries'
    BY <1>4, <2>2, <2>4, <2>6 DEF IInv, Calls, CallOfPlace, BottomOf, StateOf, Handler, Yielding,
                  OpenWhileConnected, Connected, Tries, Reconnecting, publisher
  <2>8. Subscribing' /\ Subscribed'
    BY <1>4, <2>2, <2>4, <2>6 DEF Subscribing, Subscribed, Yielding, publisher
  <2>9. QED BY <2>2, <2>4, <2>5, <2>7, <2>8 DEF IInv, Calls
<1>5. QED BY <1>3, <1>4 DEF Resubscribe

-----------------------------------------------------------------------------
(* Publishing.                                                              *)

LEMMA ReceiveKeeps == ASSUME IInv, ReceiveRecord \/ ReceiveNothing PROVE IInv'
<1>1. /\ pubPc = "receive" /\ UNCHANGED <<rc, attempt, client, net, env, hist>>
      /\ left' \in 0..Records
      /\ \/ pubPc' = "publish"
         \/ pubPc' = IF rc \in Goes THEN "yield" ELSE "stop"
  <2>1. left \in 0..Records /\ Records \in Nat
    BY BoundsAssumption DEF IInv, Scalars
  <2>2. CASE ReceiveRecord
    BY <2>1, <2>2 DEF ReceiveRecord
  <2>3. CASE ReceiveNothing
    BY <2>1, <2>3 DEF ReceiveNothing
  <2>4. QED BY <2>2, <2>3
<1>2. stack = <<>>
  BY <1>1 DEF IInv, Calls, CallOfPlace, BottomOf, Yielding
<1>3. Numbers' /\ Nested(stack', issued') /\ ~Deep(stack')
  BY <1>1, <1>2, BaseEnded DEF client
<1>4. Scalars'
  BY <1>1 DEF IInv, Scalars, client, net, env
<1>5. CallOfPlace' /\ OpenWhileConnected' /\ Tries'
  BY <1>1, <1>2 DEF IInv, Calls, CallOfPlace, RestOf, OpenWhileConnected, Tries,
                    Reconnecting, client, net
<1>6. Packeted' /\ (Underway <=> Underway')
  BY <1>1, HistStays, NetStays DEF net, IInv
<1>7. Subscribing' /\ Subscribed'
  BY <1>1, <1>2, <1>3, <1>6 DEF IInv, Subscribing, HasSubscribed, Subscribed, client, net
<1>8. QED BY <1>3, <1>4, <1>5, <1>6, <1>7 DEF IInv, Calls

\* What PublishSent does, when the subscription is under way at least.
LEMMA PublishIsSent ==
  ASSUME IInv, PublishSent, UNCHANGED <<last, givenUp, delivered>>,
         link = "up" => Underway
  PROVE  /\ Packeted' /\ link' = link /\ (brokerSub => brokerSub')
         /\ (link = "up" => Underway') /\ clientState' = "publish"
         /\ issued' \in Nat /\ issued' = issued + 1
<1>1. issued' = issued + 1 /\ issued \in Nat /\ clientState' = "publish"
  BY DEF PublishSent, IInv, Numbers
<1>2. Grows
  BY <1>1 DEF Grows
<1>3. /\ Packet("publish", issued + 1) \in Packets(OutTypes)'
      /\ Packet("publish", issued + 1).of >= 1
  BY <1>1 DEF Packet, Packets, OutTypes
<1>4. Sent(Packet("publish", issued + 1))
  BY DEF PublishSent
<1>5. Packeted' /\ link' = link /\ brokerSub' = brokerSub /\ (link = "up" => Underway')
  BY <1>2, <1>3, <1>4, NetSent DEF IInv
<1>6. QED BY <1>1, <1>5

\* One more publish, and one more publish open.
LEMMA NumbersOfPublish ==
  ASSUME Numbers, NEW p \in Nat, p = Publishes(stack), Publishes(stack') = p + 2,
         issued' = issued + 1, UNCHANGED <<last, givenUp, delivered>>
  PROVE  Numbers'
<1>1. issued' \in Nat /\ givenUp' \in Nat /\ last' \in 0..issued' /\ delivered' \subseteq 1..issued'
  BY DEF Numbers
<1>2. PICK q : q = Publishes(stack')
  OBVIOUS
<1>3. q = p + 2 /\ 2 * givenUp + p <= 2 * issued
  BY <1>2 DEF Numbers
<1>4. q \in Nat /\ 2 * givenUp' + q <= 2 * issued'
  BY <1>3 DEF Numbers
<1>5. QED BY <1>1, <1>2, <1>4 DEF Numbers

LEMMA PublishCallKeeps == ASSUME IInv, PublishCall PROVE IInv'
<1>1. /\ pubPc = "publish" /\ stack = <<>> /\ clientState \in {"idle", "pending"}
      /\ UNCHANGED <<attempt, left, ping, interval, subscribed, lastType, env>>
      /\ UNCHANGED <<last, givenUp, delivered>>
  BY AtRest DEF PublishCall, RestOf
<1>2. CASE /\ clientState = "idle" /\ PublishSent
           /\ stack' = <<Frame("publish", "idle", issued + 1)>> /\ UNCHANGED <<pubPc, rc>>
  <2>1. link = "up" => Underway
    BY <1>1, <1>2 DEF IInv, Subscribing, HasSubscribed
  <2>2. /\ Packeted' /\ link' = link /\ (link = "up" => Underway')
        /\ clientState' = "publish" /\ issued' \in Nat /\ issued' = issued + 1
    BY <1>1, <1>2, <2>1, PublishIsSent
  <2>3. stack' = <<Frame("publish", SavedBy("publish"), issued')>> /\ issued' \in 0..issued'
    BY <1>2, <2>2 DEF SavedBy
  <2>4. /\ Nested(stack', issued') /\ stack' # <<>> /\ ~Deep(stack')
        /\ Head(stack') = Frame("publish", SavedBy("publish"), issued')
        /\ Bottom(stack') = "publish" /\ Publishes(stack') = 2
    BY <2>2, <2>3, NestedSingle DEF Bases
  <2>5. Head(stack').op = "publish"
    BY <2>4 DEF Frame
  <2>6. PICK p \in Nat : p = Publishes(stack) /\ p = 0
    BY <1>1, AtRest
  <2>7. Publishes(stack') = p + 2
    BY <2>4, <2>6
  <2>8. Numbers'
    BY <1>1, <2>2, <2>6, <2>7, NumbersOfPublish DEF IInv
  <2>9. Scalars'
    BY <1>1, <1>2, <2>2 DEF IInv, Scalars, env, Connected
  <2>10. CallOfPlace' /\ OpenWhileConnected' /\ Tries'
    BY <1>1, <1>2, <2>2, <2>4, <2>5 DEF IInv, Calls, CallOfPlace, BottomOf, StateOf, Handler,
               Yielding, OpenWhileConnected, Connected, Tries, Reconnecting
  <2>11. Subscribing' /\ Subscribed'
    BY <1>1, <1>2, <2>2, <2>4 DEF Subscribing, Subscribed
  <2>12. QED BY <2>2, <2>4, <2>8, <2>9, <2>10, <2>11 DEF IInv, Calls
<1>3. CASE /\ \/ clientState = "idle" /\ SendFails /\ rc' = "failure"
              \/ clientState = "pending" /\ rc' = "disconnected" /\ UNCHANGED net
           /\ pubPc' = "receive" /\ UNCHANGED <<clientState, stack, issued>>
  <2>1. UNCHANGED net /\ rc' \in {"failure", "disconnected"}
        /\ (clientState = "idle" => link # "up")
    BY <1>3 DEF SendFails
  <2>2. UNCHANGED hist
    BY <1>1, <1>3 DEF hist
  <2>3. Numbers' /\ Nested(stack', issued') /\ ~Deep(stack')
    BY <1>1, <1>3, <2>2, BaseEnded
  <2>4. Scalars'
    BY <1>1, <1>3, <2>1 DEF IInv, Scalars, net, env
  <2>5. CallOfPlace' /\ OpenWhileConnected' /\ Tries'
    BY <1>1, <1>3, <2>1 DEF IInv, Calls, CallOfPlace, RestOf, OpenWhileConnected, Tries,
                    Reconnecting, net
  <2>6. Packeted'
    BY <2>1, <2>2, HistStays, NetStays DEF net, IInv
  <2>7. Subscribing' /\ Subscribed'
    BY <1>1, <1>3, <2>1, <2>3 DEF Subscribing, HasSubscribed, Subscribed, net, Goes
  <2>8. QED BY <2>3, <2>4, <2>5, <2>6, <2>7 DEF IInv, Calls
<1>4. QED BY <1>2, <1>3 DEF PublishCall

\* Below a handler is the read that got the message; above it comes its publish.
LEMMA CallbackPublishKeeps == ASSUME IInv, CallbackPublish PROVE IInv'
<1>1. TopOp = "callback" /\ UNCHANGED <<publisher, ping, interval, subscribed, lastType, env>>
      /\ UNCHANGED <<last, givenUp, delivered>>
  BY DEF CallbackPublish
<1>2. /\ stack # <<>> /\ Nested(stack, issued) /\ issued \in Nat
      /\ Top = Head(stack) /\ Top.op = "callback" /\ Top \in Frames(issued)
      /\ clientState = "cb" /\ Bottom(stack) \in BottomOf(pubPc) /\ Deep(stack)
  BY <1>1, InCall DEF Handler, StateOf
<1>3. PICK p \in Nat : p = Publishes(stack)
  BY <1>1, InCall
<1>4. PICK u : u = Pop(stack)
  OBVIOUS
<1>5. PICK b : b = [Top EXCEPT !.op = "deliver"]
  OBVIOUS
<1>6. /\ Nested(u, issued) /\ u # <<>> /\ Head(u).op \in Bases \ {"reconnected"}
      /\ Bottom(u) = Bottom(stack) /\ Top.saved = StateOf(Head(u).op) /\ Publishes(u) = p
  <2>1. Head(stack).op \in Handler \cup {"publish"} /\ Head(stack).op \in Handler
    BY <1>2 DEF Handler
  <2>2. /\ Nested(u, issued) /\ u # <<>> /\ Head(u).op \in Bases \ {"reconnected"}
        /\ Bottom(u) = Bottom(stack) /\ Head(stack).saved = StateOf(Head(u).op)
        /\ Publishes(u) = p
    BY <1>2, <1>3, <1>4, <2>1, NestedPop
  <2>3. QED BY <1>2, <2>2
<1>7. b \in Frames(issued) /\ b.op = "deliver" /\ b.saved = StateOf(Head(u).op)
  BY <1>2, <1>5, <1>6 DEF Frames, Handler
<1>8. PICK t : t = Push(b, u)
  OBVIOUS
<1>9. /\ Nested(t, issued) /\ t # <<>> /\ Head(t) = b /\ Bottom(t) = Bottom(stack)
      /\ Deep(t) /\ Publishes(t) = p
  <2>1. b.op \in Handler /\ p = Publishes(u)
    BY <1>6, <1>7 DEF Handler
  <2>2. QED BY <1>2, <1>3, <1>6, <1>7, <1>8, <2>1, NestedHandler
<1>10. link = "up" => brokerSub
  BY <1>2 DEF IInv, Subscribing
<1>11. CASE PublishSent /\ stack' = <<Frame("publish", "cb", issued + 1), b>> \o Tail(stack)
  <2>1. /\ Packeted' /\ link' = link /\ (brokerSub => brokerSub')
        /\ clientState' = "publish" /\ issued' \in Nat /\ issued' = issued + 1
    BY <1>1, <1>10, <1>11, PublishIsSent DEF Underway
  <2>2. PICK f : f = Frame("publish", "cb", issued')
    OBVIOUS
  <2>3. f \in Frames(issued') /\ f.op = "publish" /\ f.saved = "cb"
    BY <2>1, <2>2 DEF Frame, Frames, Bases, States, Connected
  <2>4. stack' = Push(f, t)
    <3>1. u \in Seq(Frames(issued'))
      <4>1. Nested(u, issued')
        BY <1>2, <1>6, <2>1, NestedGrows
      <4>2. QED BY <4>1 DEF Nested
    <3>2. b \in Frames(issued')
      BY <1>2, <1>7, <2>1 DEF Frames
    <3>3. <<f, b>> \o u = <<f>> \o (<<b>> \o u)
      BY <2>3, <3>1, <3>2
    <3>4. QED BY <1>4, <1>8, <1>11, <2>1, <2>2, <3>3 DEF Push, Pop
  <2>5. Nested(t, issued') /\ On(f, Head(t))
    BY <1>2, <1>7, <1>9, <2>1, <2>3, NestedGrows DEF On, StateOf, Handler
  <2>6. PICK s : s = stack'
    OBVIOUS
  <2>7. /\ Nested(s, issued') /\ s # <<>> /\ Head(s) = f /\ Deep(s)
        /\ Bottom(s) = Bottom(t) /\ Publishes(s) = p + 2
    BY <1>9, <2>1, <2>3, <2>4, <2>5, <2>6, NestedPush
  <2>8. Numbers'
    BY <1>1, <1>3, <2>1, <2>6, <2>7, NumbersOfPublish DEF IInv
  <2>9. Scalars'
    BY <1>1, <2>1 DEF IInv, Scalars, publisher, env, Connected
  <2>10. /\ Nested(stack', issued') /\ stack' # <<>> /\ Head(stack').op = "publish"
         /\ Bottom(stack') = Bottom(stack) /\ Deep(stack')
    BY <1>9, <2>3, <2>6, <2>7
  <2>11. CallOfPlace' /\ OpenWhileConnected' /\ Tries'
    BY <1>1, <1>2, <2>1, <2>10 DEF IInv, Calls, CallOfPlace, StateOf, Handler, Connected,
               OpenWhileConnected, Tries, Reconnecting, publisher
  <2>12. Subscribing' /\ Subscribed'
    BY <1>1, <1>2, <1>10, <2>1, <2>10
       DEF IInv, Subscribing, Underway, Subscribed, publisher
  <2>13. QED BY <2>1, <2>8, <2>9, <2>10, <2>11, <2>12 DEF IInv, Calls
<1>12. CASE SendFails /\ stack' = <<b>> \o Tail(stack) /\ UNCHANGED <<clientState, issued>>
  <2>1. UNCHANGED net /\ link # "up" /\ UNCHANGED hist
    BY <1>1, <1>12 DEF SendFails, hist
  <2>2. stack' = t
    BY <1>4, <1>8, <1>12 DEF Push, Pop
  <2>3. /\ Nested(stack', issued') /\ stack' # <<>> /\ Head(stack').op = "deliver"
        /\ Bottom(stack') = Bottom(stack) /\ Publishes(stack') = Publishes(stack)
    BY <1>3, <1>7, <1>9, <1>12, <2>2
  <2>4. Numbers'
    BY <2>1, <2>3, NumbersStay DEF IInv
  <2>5. Scalars'
    BY <1>1, <1>12, <2>1 DEF IInv, Scalars, publisher, net, env
  <2>6. CallOfPlace' /\ OpenWhileConnected' /\ Tries'
    BY <1>1, <1>2, <1>12, <2>1, <2>3 DEF IInv, Calls, CallOfPlace, StateOf, Handler,
               OpenWhileConnected, Tries, Reconnecting, publisher, net
  <2>7. Packeted'
    BY <2>1, HistStays, NetStays DEF net, IInv
  <2>8. Subscribing' /\ Subscribed'
    BY <2>1 DEF Subscribing, Subscribed, net
  <2>9. QED BY <2>3, <2>4, <2>5, <2>6, <2>7, <2>8 DEF IInv, Calls
<1>13. QED BY <1>5, <1>11, <1>12 DEF CallbackPublish

\* A publish or a handler returns to what it was called from.
LEMMA Returned ==
  ASSUME IInv, TopOp \in {"publish", "deliver"}, stack' = Tail(stack), clientState' = Top.saved,
         NEW p \in Nat, p = Publishes(stack)
  PROVE  /\ Nested(stack', issued)
         /\ TopOp = "publish" => Publishes(stack') = p - 2 /\ p >= 2
         /\ TopOp = "deliver" => Publishes(stack') = p /\ stack' # <<>>
         /\ stack' # <<>> => /\ Bottom(stack') = Bottom(stack) /\ Deep(stack)
                             /\ clientState' = StateOf(Head(stack').op)
         /\ Deep(stack') => Deep(stack)
         /\ stack' = <<>> => clientState' = "idle" /\ pubPc = "publish"
         /\ clientState \in Connected /\ clientState' \in States /\ stack # <<>>
         /\ Bottom(stack) \in BottomOf(pubPc)
<1>1. /\ stack # <<>> /\ Nested(stack, issued) /\ issued \in Nat
      /\ Top = Head(stack) /\ Head(stack).op = TopOp
      /\ clientState = StateOf(TopOp) /\ Bottom(stack) \in BottomOf(pubPc)
      /\ Top \in Frames(issued)
  BY InCall
<1>2. Head(stack).op \in Handler \cup {"publish"}
  BY <1>1 DEF Handler
<1>3. PICK u : u = stack'
  OBVIOUS
<1>4. u = Pop(stack)
  BY <1>3 DEF Pop
<1>5. /\ Nested(u, issued)
      /\ Head(stack).op \in Handler => u # <<>>
      /\ u # <<>> => /\ Bottom(u) = Bottom(stack) /\ Deep(stack)
                     /\ Head(stack).saved = StateOf(Head(u).op)
      /\ Deep(u) => Deep(stack)
      /\ u = <<>> => Bottom(stack) = "publish" /\ Head(stack).saved = "idle"
      /\ Head(stack).op = "publish" => Publishes(u) = p - 2 /\ p >= 2
      /\ Head(stack).op \in Handler => Publishes(u) = p
  BY <1>1, <1>2, <1>4, NestedPop
<1>6. Bottom(stack) = "publish" => pubPc = "publish"
  BY <1>1 DEF BottomOf, Yielding
<1>7. clientState \in Connected /\ clientState' \in States
  BY <1>1 DEF StateOf, Connected, Handler, Frames
<1>8. QED BY <1>1, <1>3, <1>5, <1>6, <1>7 DEF Handler

LEMMA DeliverReturnsKeeps == ASSUME IInv, DeliverReturns PROVE IInv'
<1>1. /\ TopOp = "deliver" /\ stack' = Tail(stack) /\ clientState' = Top.saved
      /\ UNCHANGED <<publisher, ping, interval, subscribed, lastType, net, env, hist>>
  BY DEF DeliverReturns
<1>2. PICK p \in Nat : p = Publishes(stack)
  BY <1>1, InCall
<1>3. /\ Nested(stack', issued) /\ Publishes(stack') = p /\ stack' # <<>>
      /\ Bottom(stack') = Bottom(stack) /\ Deep(stack)
      /\ clientState' = StateOf(Head(stack').op)
      /\ clientState \in Connected /\ clientState' \in States /\ stack # <<>>
      /\ Bottom(stack) \in BottomOf(pubPc)
  BY <1>1, <1>2, Returned
<1>4. Numbers' /\ issued' = issued
  BY <1>1, <1>2, <1>3, NumbersStay DEF IInv, hist
<1>5. Scalars'
  BY <1>1, <1>3 DEF IInv, Scalars, publisher, net, env, States
<1>6. CallOfPlace' /\ OpenWhileConnected' /\ Tries'
  BY <1>1, <1>3 DEF IInv, Calls, CallOfPlace, OpenWhileConnected, Tries, Reconnecting,
                    publisher, net, States
<1>7. Packeted'
  BY <1>1, HistStays, NetStays DEF net, IInv
<1>8. Subscribing' /\ Subscribed'
  BY <1>1, <1>3 DEF IInv, Subscribing, Underway, Subscribed, publisher, net
<1>9. QED BY <1>3, <1>4, <1>5, <1>6, <1>7, <1>8 DEF IInv, Calls

LEMMA PublishReturnsKeeps ==
  ASSUME IInv, TopOp = "publish", NEW code \in {"success", "timeout", "failure"},
         PublishReturns(code), Packeted', UNCHANGED <<link, brokerSub>>,
         Underway <=> Underway', link = "up" /\ code = "success" => brokerSub,
         Numbers', UNCHANGED <<attempt, left, ping, interval, subscribed, env, issued>>,
         lastType' \in AckTypes \cup {"none", "pingresp", "led"}
  PROVE  IInv'
<1>1. stack' = Tail(stack) /\ clientState' = Top.saved
  BY DEF PublishReturns
<1>2. PICK p \in Nat : p = Publishes(stack)
  BY InCall
<1>3. /\ Nested(stack', issued)
      /\ stack' # <<>> => /\ Bottom(stack') = Bottom(stack) /\ Deep(stack)
                          /\ clientState' = StateOf(Head(stack').op)
      /\ Deep(stack') => Deep(stack)
      /\ stack' = <<>> => clientState' = "idle" /\ pubPc = "publish"
      /\ clientState \in Connected /\ clientState' \in States /\ stack # <<>>
      /\ Bottom(stack) \in BottomOf(pubPc)
  BY <1>1, <1>2, Returned
<1>4. clientState = "publish"
  BY InCall DEF StateOf, Handler
<1>5. CASE stack' = <<>>
  <2>1. rc' = code /\ pubPc' = IF code = "timeout" THEN "publish" ELSE "receive"
    BY <1>1, <1>5 DEF PublishReturns
  <2>2. Scalars'
    BY <1>3, <2>1 DEF IInv, Scalars, env, States, Goes
  <2>3. CallOfPlace' /\ OpenWhileConnected' /\ Tries'
    BY <1>3, <1>5, <2>1 DEF IInv, Calls, CallOfPlace, RestOf, OpenWhileConnected, Tries,
                            Reconnecting, States
  <2>4. link = "up" => Underway
    BY <1>3, <1>4, <1>5 DEF IInv, Subscribing, HasSubscribed
  <2>5. Subscribing' /\ Subscribed'
    BY <1>3, <1>5, <2>1, <2>4 DEF IInv, Subscribing, Subscribed, Goes
  <2>6. QED BY <1>3, <2>2, <2>3, <2>5 DEF IInv, Calls
<1>6. CASE stack' # <<>>
  <2>1. UNCHANGED <<rc, pubPc>>
    BY <1>1, <1>6 DEF PublishReturns
  <2>2. Scalars'
    BY <1>3, <2>1 DEF IInv, Scalars, env, States
  <2>3. CallOfPlace' /\ OpenWhileConnected' /\ Tries'
    BY <1>3, <1>6, <2>1 DEF IInv, Calls, CallOfPlace, OpenWhileConnected, Tries,
                            Reconnecting, States
  <2>4. Subscribing' /\ Subscribed'
    BY <1>3, <1>6, <2>1 DEF IInv, Subscribing, Underway, Subscribed
  <2>5. QED BY <1>3, <2>2, <2>3, <2>4 DEF IInv, Calls
<1>7. QED BY <1>5, <1>6

-----------------------------------------------------------------------------
(* Reading.                                                                 *)

LEMMA YieldCallKeeps == ASSUME IInv, YieldCall PROVE IInv'
<1>1. /\ pubPc \in Yielding /\ stack = <<>> /\ clientState = "idle" /\ clientState' = "yield"
      /\ UNCHANGED <<publisher, ping, interval, subscribed, lastType, net, env, hist>>
  BY DEF YieldCall
<1>2. stack' = <<Frame("yield", SavedBy("yield"), 0)>> /\ issued \in Nat
  BY DEF YieldCall, SavedBy, IInv, Numbers
<1>3. /\ Numbers' /\ Nested(stack', issued') /\ stack' # <<>> /\ ~Deep(stack')
      /\ Head(stack').op = "yield" /\ Bottom(stack') = "yield"
  BY <1>1, <1>2, BaseCalled DEF Bases
<1>4. Scalars'
  BY <1>1 DEF IInv, Scalars, publisher, net, env, Connected
<1>5. CallOfPlace' /\ OpenWhileConnected' /\ Tries'
  BY <1>1, <1>3 DEF IInv, Calls, CallOfPlace, BottomOf, StateOf, Handler, Yielding, Connected,
                    OpenWhileConnected, Tries, Reconnecting, publisher, net
<1>6. Packeted'
  BY <1>1, HistStays, NetStays DEF net, IInv
<1>7. Subscribing' /\ Subscribed'
  BY <1>1, <1>3 DEF IInv, Subscribing, HasSubscribed, Subscribed, Yielding, publisher, net
<1>8. QED BY <1>3, <1>4, <1>5, <1>6, <1>7 DEF IInv, Calls

LEMMA SomethingIncoming ==
  ASSUME Incoming # "nothing" PROVE fromBroker # <<>>
  BY DEF Incoming

\* The packet that a wait expects is there.
LEMMA ExpectedIs ==
  ASSUME IInv, NEW op \in Waiting, Expects(op), Consume, UNCHANGED issued
  PROVE  /\ Packeted' /\ (Underway <=> Underway') /\ UNCHANGED <<link, brokerSub>>
         /\ lastType' \in AckTypes \cup {"none", "pingresp", "led"}
         /\ Head(fromBroker) \in Packets(InTypes)
         /\ op # "connect" => brokerSub
<1>1. Incoming = Ack[op] /\ Ack[op] \in AckTypes /\ (op # "connect" => Ack[op] # "connack")
  BY DEF Expects, Waiting, Ack, AckTypes
<1>2. fromBroker # <<>>
  BY <1>1, SomethingIncoming DEF AckTypes
<1>3. QED BY <1>1, <1>2, NetConsumed DEF IInv, AckTypes

LEMMA TakeConnackKeeps == ASSUME IInv, TakeConnack PROVE IInv'
<1>1. /\ TopOp = "connect" /\ Expects("connect") /\ Consume /\ ping' = FALSE
      /\ clientState' = "idle" /\ UNCHANGED <<attempt, left, interval, subscribed, env, hist>>
  BY DEF TakeConnack
<1>2. /\ Packeted' /\ UNCHANGED <<link, brokerSub>>
      /\ lastType' \in AckTypes \cup {"none", "pingresp", "led"}
  BY <1>1, ExpectedIs DEF Waiting, Ack, hist
<1>3. /\ stack # <<>> /\ Bottom(stack) = "connect" /\ clientState = "connecting"
      /\ pubPc = "connect" \/ pubPc \in Yielding
  <2>1. /\ stack # <<>> /\ Bottom(stack) = "connect" /\ clientState = StateOf("connect")
        /\ Bottom(stack) \in BottomOf(pubPc)
    BY <1>1, InCall DEF Bases
  <2>2. QED BY <2>1 DEF StateOf, Handler, BottomOf
<1>4. link # "none" /\ issued \in Nat
  BY <1>3 DEF IInv, Calls, OpenWhileConnected, Numbers
<1>5. CASE pubPc = "connect" /\ stack' = <<>> /\ rc' = "success" /\ pubPc' = "subscribe"
  <2>1. Numbers' /\ Nested(stack', issued') /\ ~Deep(stack')
    BY <1>1, <1>5, BaseEnded DEF Bases
  <2>2. Scalars'
    BY <1>1, <1>2, <1>5 DEF IInv, Scalars, env, Goes, Connected
  <2>3. CallOfPlace' /\ OpenWhileConnected' /\ Tries'
    BY <1>1, <1>2, <1>4, <1>5 DEF CallOfPlace, RestOf, OpenWhileConnected, Connected, Tries,
                                  Reconnecting
  <2>4. Subscribing' /\ Subscribed'
    BY <1>5, <2>1 DEF Subscribing, HasSubscribed, Subscribed
  <2>5. QED BY <1>2, <2>1, <2>2, <2>3, <2>4 DEF IInv, Calls
<1>6. CASE /\ pubPc # "connect" /\ stack' = <<Frame("reconnected", "idle", 0)>>
           /\ UNCHANGED <<rc, pubPc>>
  <2>1. stack' = <<Frame("reconnected", SavedBy("reconnected"), 0)>>
    BY <1>6 DEF SavedBy
  <2>2. /\ Numbers' /\ Nested(stack', issued') /\ stack' # <<>> /\ ~Deep(stack')
        /\ Head(stack').op = "reconnected" /\ Bottom(stack') = "reconnected"
    BY <1>1, <1>4, <2>1, BaseCalled DEF Bases
  <2>3. Scalars'
    BY <1>1, <1>2, <1>6 DEF IInv, Scalars, env, Connected
  <2>4. CallOfPlace' /\ OpenWhileConnected' /\ Tries'
    BY <1>1, <1>2, <1>3, <1>4, <1>6, <2>2 DEF IInv, Calls, CallOfPlace, BottomOf, StateOf,
               Handler, Yielding, OpenWhileConnected, Connected, Tries, Reconnecting
  <2>5. Subscribing' /\ Subscribed'
    BY <1>3, <1>6, <2>2 DEF Subscribing, HasSubscribed, Subscribed, Yielding
  <2>6. QED BY <1>2, <2>2, <2>3, <2>4, <2>5 DEF IInv, Calls
<1>7. QED BY <1>5, <1>6 DEF TakeConnack

LEMMA ConnectingFrom ==
  ASSUME IInv, TopOp = "connect"
  PROVE  pubPc = "connect" \/ (pubPc \in Yielding /\ interval <= MaxWait)
<1>1. stack # <<>> /\ Bottom(stack) = "connect" /\ Bottom(stack) \in BottomOf(pubPc)
  BY InCall DEF Bases
<1>2. pubPc = "connect" \/ pubPc \in Yielding
  BY <1>1 DEF BottomOf
<1>3. QED BY <1>1, <1>2 DEF IInv, Calls, Tries, Reconnecting

LEMMA TakeRefusalKeeps == ASSUME IInv, TakeRefusal PROVE IInv'
<1>1. /\ TopOp = "connect" /\ ConnectFails /\ lastType' = "connack" /\ UNCHANGED attempt
      /\ UNCHANGED <<ping, subscribed, env, hist>>
  BY DEF TakeRefusal
<1>2. attempt' \in 0..MaxAttempts
  BY <1>1 DEF IInv, Scalars
<1>3. QED BY <1>1, <1>2, ConnectingFrom, ConnectFailsKeeps DEF AckTypes

LEMMA TakeSubackKeeps == ASSUME IInv, TakeSuback PROVE IInv'
<1>1. /\ TopOp \in {"subscribe", "resubscribe"} /\ Expects(TopOp) /\ Consume
      /\ clientState' = "idle" /\ stack' = <<>> /\ UNCHANGED <<ping, interval, env, hist>>
  BY DEF TakeSuback
<1>2. /\ Packeted' /\ UNCHANGED <<link, brokerSub>> /\ brokerSub
      /\ lastType' \in AckTypes \cup {"none", "pingresp", "led"}
  BY <1>1, ExpectedIs DEF Waiting, Ack, hist
<1>3. /\ stack # <<>> /\ Bottom(stack) = TopOp /\ clientState \in Connected
      /\ TopOp = "resubscribe" => pubPc \in Yielding
  <2>1. /\ stack # <<>> /\ Bottom(stack) = TopOp /\ clientState = StateOf(TopOp)
        /\ Bottom(stack) \in BottomOf(pubPc)
    BY <1>1, InCall DEF Bases
  <2>2. QED BY <1>1, <2>1 DEF StateOf, Handler, BottomOf, Connected
<1>4. link # "none"
  BY <1>3 DEF IInv, Calls, OpenWhileConnected
<1>5. Numbers' /\ Nested(stack', issued') /\ ~Deep(stack')
  BY <1>1, BaseEnded DEF Bases
<1>6. /\ rc' \in {"success", "reconnected"} /\ UNCHANGED <<attempt, left>>
      /\ pubPc' \in {"yield", "receive", "disconnect"} /\ subscribed' \in BOOLEAN
  <2>1. subscribed \in BOOLEAN
    BY DEF IInv, Scalars
  <2>2. CASE TopOp = "subscribe"
    BY <2>2 DEF TakeSuback
  <2>3. CASE TopOp = "resubscribe"
    <3>1. YieldReturns("reconnected") /\ UNCHANGED subscribed
      BY <2>3 DEF TakeSuback
    <3>2. QED BY <1>3, <2>1, <2>3, <3>1, YieldReturned DEF Codes
  <2>4. QED BY <1>1, <2>2, <2>3
<1>7. Scalars'
  BY <1>1, <1>2, <1>6 DEF IInv, Scalars, env, Goes, Connected
<1>8. CallOfPlace' /\ OpenWhileConnected' /\ Tries'
  BY <1>1, <1>2, <1>4, <1>6 DEF CallOfPlace, RestOf, OpenWhileConnected, Connected, Tries,
                                Reconnecting
<1>9. Subscribing' /\ Subscribed'
  BY <1>2, <1>5 DEF Subscribing, Underway, Subscribed
<1>10. QED BY <1>2, <1>5, <1>7, <1>8, <1>9 DEF IInv, Calls

LEMMA TakePubackKeeps == ASSUME IInv, TakePuback PROVE IInv'
<1>1. /\ TopOp = "publish" /\ Expects("publish") /\ Consume
      /\ last' = Head(fromBroker).of /\ PublishReturns("success")
      /\ UNCHANGED <<attempt, left, ping, interval, subscribed, env>>
      /\ UNCHANGED <<issued, givenUp, delivered>>
  BY DEF TakePuback
<1>2. /\ Packeted' /\ (Underway <=> Underway') /\ UNCHANGED <<link, brokerSub>> /\ brokerSub
      /\ lastType' \in AckTypes \cup {"none", "pingresp", "led"}
      /\ Head(fromBroker) \in Packets(InTypes)
  BY <1>1, ExpectedIs DEF Waiting, Ack
<1>3. PICK p \in Nat : p = Publishes(stack)
  BY <1>1, InCall
<1>4. PICK q : q = Publishes(stack')
  OBVIOUS
<1>5. q = p - 2 /\ p >= 2
  <2>1. stack' = Tail(stack) /\ clientState' = Top.saved
    BY <1>1 DEF PublishReturns
  <2>2. QED BY <1>1, <1>3, <1>4, <2>1, Returned
<1>6. last' \in 0..issued
  BY <1>1, <1>2 DEF Packets
<1>7. Numbers'
  <2>1. q \in Nat /\ 2 * givenUp' + q <= 2 * issued'
    BY <1>1, <1>3, <1>5 DEF IInv, Numbers
  <2>2. QED BY <1>1, <1>4, <1>6, <2>1 DEF IInv, Numbers
<1>8. QED BY <1>1, <1>2, <1>7, PublishReturnsKeeps

\* The reads that leave the client where it is.
LEMMA ReadKeeps ==
  ASSUME IInv, TopOp \in Reading, stack' = AfterRead, Packeted', Underway <=> Underway',
         UNCHANGED <<link, brokerSub>>,
         UNCHANGED <<publisher, clientState, interval, subscribed, env, hist>>,
         ping' \in BOOLEAN, lastType' \in AckTypes \cup {"none", "pingresp", "led"}
  PROVE  IInv'
<1>1. /\ stack # <<>> /\ clientState = StateOf(TopOp) /\ Bottom(stack) \in BottomOf(pubPc)
      /\ TopOp = "yield" => Bottom(stack) = "yield"
  BY InCall DEF Reading, Waiting, Ack, Bases
<1>2. /\ Nested(stack', issued) /\ stack' # <<>> /\ StateOf(Head(stack').op) = StateOf(TopOp)
      /\ Publishes(stack') = Publishes(stack) /\ (Deep(stack') <=> Deep(stack))
      /\ Bottom(stack') = IF TopOp = "yield" THEN "keepAlive" ELSE Bottom(stack)
  BY ReadDone
<1>3. Numbers' /\ issued' = issued
  BY <1>2, NumbersStay DEF IInv, hist
<1>4. Scalars'
  BY DEF IInv, Scalars, publisher, env
<1>5. CallOfPlace' /\ OpenWhileConnected' /\ Tries'
  BY <1>1, <1>2 DEF IInv, Calls, CallOfPlace, BottomOf, Yielding, OpenWhileConnected, Tries,
                    Reconnecting, publisher
<1>6. Subscribing' /\ Subscribed'
  BY <1>1, <1>2 DEF IInv, Subscribing, HasSubscribed, Subscribed, publisher
<1>7. QED BY <1>2, <1>3, <1>4, <1>5, <1>6 DEF IInv, Calls

LEMMA SkipPacketKeeps == ASSUME IInv, SkipPacket PROVE IInv'
<1>1. /\ TopOp \in Reading /\ Consume /\ stack' = AfterRead
      /\ UNCHANGED <<publisher, clientState, interval, subscribed, env, hist>>
      /\ ping' \in {FALSE, ping} /\ Incoming # "nothing"
  BY DEF SkipPacket, AckTypes
<1>2. /\ Packeted' /\ (Underway <=> Underway') /\ UNCHANGED <<link, brokerSub>>
      /\ lastType' \in AckTypes \cup {"pingresp", "led"}
  BY <1>1, SomethingIncoming, NetConsumed DEF IInv, hist
<1>3. ping' \in BOOLEAN
  BY <1>1 DEF IInv, Scalars
<1>4. QED BY <1>1, <1>2, <1>3, ReadKeeps

LEMMA ReadNothingKeeps == ASSUME IInv, ReadNothing \/ StalePacket PROVE IInv'
<1>1. /\ TopOp \in Reading /\ stack' = AfterRead /\ ping' \in {FALSE, ping}
      /\ UNCHANGED <<publisher, clientState, interval, subscribed, lastType, net, env, hist>>
  BY DEF ReadNothing, StalePacket, Reading
<1>2. Packeted' /\ (Underway <=> Underway') /\ UNCHANGED <<link, brokerSub>>
  BY <1>1, HistStays, NetStays DEF net, IInv
<1>3. ping' \in BOOLEAN /\ lastType' \in AckTypes \cup {"none", "pingresp", "led"}
  BY <1>1 DEF IInv, Scalars
<1>4. QED BY <1>1, <1>2, <1>3, ReadKeeps

\* A message: its handler is called inside the read.
LEMMA DeliverKeeps == ASSUME IInv, Deliver PROVE IInv'
<1>1. /\ TopOp \in Reading /\ Incoming = "led" /\ Consume /\ clientState' = "cb"
      /\ stack' = <<Frame("callback", clientState, 0)>> \o AfterRead
      /\ UNCHANGED <<publisher, ping, interval, subscribed, env, hist>>
  BY DEF Deliver
<1>2. /\ Packeted' /\ UNCHANGED <<link, brokerSub>> /\ brokerSub
      /\ lastType' \in AckTypes \cup {"pingresp", "led"}
  BY <1>1, SomethingIncoming, NetConsumed DEF IInv, hist
<1>3. /\ stack # <<>> /\ clientState = StateOf(TopOp) /\ Bottom(stack) \in BottomOf(pubPc)
      /\ TopOp = "yield" => Bottom(stack) = "yield"
      /\ issued \in Nat
  BY <1>1, InCall DEF Reading, Waiting, Ack, Bases
<1>4. PICK p \in Nat : p = Publishes(stack)
  BY <1>1, InCall DEF Reading, Waiting, Ack
<1>5. PICK u : u = AfterRead
  OBVIOUS
<1>6. /\ Nested(u, issued) /\ u # <<>> /\ Head(u).op \in Bases \ {"reconnected"}
      /\ StateOf(Head(u).op) = clientState /\ Publishes(u) = p
      /\ Bottom(u) = IF TopOp = "yield" THEN "keepAlive" ELSE Bottom(stack)
  BY <1>1, <1>3, <1>4, <1>5, ReadDone
<1>7. PICK f : f = Frame("callback", clientState, 0)
  OBVIOUS
<1>8. /\ f \in Frames(issued) /\ f.op = "callback" /\ f.op \in Handler
      /\ f.saved = StateOf(Head(u).op)
  <2>1. clientState \in States
    BY <1>1, <1>3, StatesOfOps DEF States, Reading, Waiting, Ack, Bases
  <2>2. QED BY <1>3, <1>6, <1>7, <2>1 DEF Frame, Frames, Handler
<1>9. PICK t : t = stack'
  OBVIOUS
<1>10. t = Push(f, u)
  BY <1>1, <1>5, <1>7, <1>9 DEF Push
<1>11. /\ Nested(t, issued) /\ t # <<>> /\ Head(t) = f /\ Bottom(t) = Bottom(u)
       /\ Deep(t) /\ Publishes(t) = p
  BY <1>3, <1>4, <1>6, <1>8, <1>10, NestedHandler
<1>12. Numbers' /\ issued' = issued
  BY <1>1, <1>4, <1>9, <1>11, NumbersStay DEF IInv, hist
<1>13. /\ Nested(stack', issued') /\ stack' # <<>> /\ Head(stack').op = "callback"
       /\ Bottom(stack') = IF TopOp = "yield" THEN "keepAlive" ELSE Bottom(stack)
  BY <1>6, <1>8, <1>9, <1>11, <1>12
<1>14. Scalars'
  BY <1>1, <1>2 DEF IInv, Scalars, publisher, env, Connected
<1>15. link # "none"
  <2>1. clientState \in Connected \cup {"connecting"}
    BY <1>1, <1>3, StatesOfOps DEF Reading, Waiting, Ack, Bases
  <2>2. QED BY <2>1 DEF IInv, Calls, OpenWhileConnected
<1>16. CallOfPlace' /\ OpenWhileConnected' /\ Tries'
  BY <1>1, <1>2, <1>3, <1>13, <1>15 DEF IInv, Calls, CallOfPlace, BottomOf, StateOf, Handler,
          Yielding, Connected, OpenWhileConnected, Tries, Reconnecting, publisher
<1>17. Subscribing' /\ Subscribed'
  BY <1>2 DEF Subscribing, Underway, Subscribed
<1>18. QED BY <1>2, <1>12, <1>13, <1>14, <1>16, <1>17 DEF IInv, Calls

LEMMA YieldReadFailsKeeps == ASSUME IInv, YieldReadFails PROVE IInv'
<1>1. /\ TopOp = "yield" /\ YieldEnds("failure")
      /\ UNCHANGED <<ping, interval, subscribed, env, hist>>
  BY DEF YieldReadFails
<1>2. /\ Packeted' /\ UNCHANGED <<link, brokerSub>>
      /\ lastType' \in AckTypes \cup {"none", "pingresp", "led"}
  <2>1. CASE Incoming # "nothing" /\ Consume
    BY <1>1, <2>1, SomethingIncoming, NetConsumed DEF IInv, hist
  <2>2. CASE UNCHANGED <<net, lastType>>
    BY <1>1, <2>2, HistStays, NetStays DEF net, IInv, Scalars
  <2>3. QED BY <2>1, <2>2 DEF YieldReadFails
<1>3. ping' \in BOOLEAN
  BY <1>1 DEF IInv, Scalars
<1>4. QED BY <1>1, <1>2, <1>3, YieldEndsKeeps

LEMMA WaitFailsKeeps == ASSUME IInv, WaitFails PROVE IInv'
<1>1. UNCHANGED <<lastType, env, issued, last, delivered>>
  BY DEF WaitFails
<1>2. lastType' \in AckTypes \cup {"none", "pingresp", "led"}
  BY <1>1 DEF IInv, Scalars
<1>3. CASE /\ TopOp = "connect" /\ UNCHANGED attempt /\ ConnectFails
           /\ UNCHANGED <<ping, subscribed, givenUp>>
  <2>1. attempt' \in 0..MaxAttempts /\ UNCHANGED hist
    BY <1>1, <1>3 DEF IInv, Scalars, hist
  <2>2. QED BY <1>1, <1>2, <1>3, <2>1, ConnectingFrom, ConnectFailsKeeps
<1>4. ASSUME NEW code \in {"timeout", "failure"},
             /\ TopOp = "subscribe"
             /\ clientState' = Top.saved /\ stack' = <<>>
             /\ rc' = code /\ pubPc' = "ended"
             /\ UNCHANGED <<attempt, left, ping, interval, subscribed, net, givenUp>>
      PROVE  IInv'
  <2>1. /\ stack # <<>> /\ Top.saved = "idle" /\ clientState = "subscribe"
    BY <1>4, InCall DEF Bases, SavedBy, StateOf, Handler
  <2>2. UNCHANGED hist
    BY <1>1, <1>4 DEF hist
  <2>3. Numbers' /\ Nested(stack', issued') /\ ~Deep(stack')
    BY <1>4, <2>2, BaseEnded DEF Bases
  <2>4. Scalars'
    BY <1>1, <1>4, <2>1 DEF IInv, Scalars, env, net, Goes, Connected
  <2>5. CallOfPlace' /\ OpenWhileConnected' /\ Tries'
    BY <1>4, <2>1 DEF IInv, Calls, CallOfPlace, RestOf, OpenWhileConnected, Connected,
                      Tries, Reconnecting, net
  <2>6. Packeted'
    BY <1>4, <2>2, HistStays, NetStays DEF net, IInv
  <2>7. Subscribing' /\ Subscribed'
    BY <1>4, <2>3 DEF Subscribing, HasSubscribed, Subscribed
  <2>8. QED BY <2>3, <2>4, <2>5, <2>6, <2>7 DEF IInv, Calls
<1>5. ASSUME NEW code \in {"timeout", "failure"}, TopOp = "resubscribe", ReconnectFails(code),
             UNCHANGED <<ping, subscribed, net, givenUp>>
      PROVE  IInv'
  <2>1. UNCHANGED hist
    BY <1>1, <1>5 DEF hist
  <2>2. QED BY <1>1, <1>5, <2>1, ReconnectFailsKeeps
<1>6. ASSUME NEW code \in {"timeout", "failure"}, TopOp = "publish", PublishReturns(code),
             givenUp' = givenUp + 1,
             UNCHANGED <<attempt, left, ping, interval, subscribed, net>>
      PROVE  IInv'
  <2>1. PICK p \in Nat : p = Publishes(stack)
    BY <1>6, InCall
  <2>2. PICK q : q = Publishes(stack')
    OBVIOUS
  <2>3. q = p - 2 /\ p >= 2
    <3>1. stack' = Tail(stack) /\ clientState' = Top.saved
      BY <1>6 DEF PublishReturns
    <3>2. QED BY <1>6, <2>1, <2>2, <3>1, Returned
  <2>4. Numbers'
    <3>1. 2 * givenUp + p <= 2 * issued /\ givenUp \in Nat /\ issued \in Nat
      BY <2>1 DEF IInv, Numbers
    <3>2. q \in Nat /\ givenUp' \in Nat /\ 2 * givenUp' + q <= 2 * issued'
      BY <1>1, <1>6, <2>3, <3>1
    <3>3. QED BY <1>1, <2>2, <3>2 DEF IInv, Numbers
  <2>5. Grows
    BY <1>1 DEF Grows, IInv, Numbers
  <2>6. Packeted' /\ (Underway <=> Underway') /\ UNCHANGED <<link, brokerSub>>
    BY <1>6, <2>5, NetStays DEF net, IInv
  <2>7. QED BY <1>1, <1>2, <1>6, <2>4, <2>6, PublishReturnsKeeps
<1>7. QED BY <1>3, <1>4, <1>5, <1>6 DEF WaitFails

-----------------------------------------------------------------------------
(* Keep-alive and the end.                                                  *)

LEMMA KeepAliveNotDueKeeps == ASSUME IInv, KeepAliveNotDue PROVE IInv'
<1>1. /\ TopOp = "keepAlive" /\ YieldEnds("success")
      /\ UNCHANGED <<ping, interval, subscribed, lastType, net, env, hist>>
  BY DEF KeepAliveNotDue
<1>2. Packeted' /\ UNCHANGED <<link, brokerSub>>
  BY <1>1, HistStays, NetStays DEF net, IInv
<1>3. ping' \in BOOLEAN /\ lastType' \in AckTypes \cup {"none", "pingresp", "led"}
  BY <1>1 DEF IInv, Scalars
<1>4. QED BY <1>1, <1>2, <1>3, YieldEndsKeeps

LEMMA PingSentKeeps == ASSUME IInv, PingSent PROVE IInv'
<1>1. /\ TopOp = "keepAlive" /\ Sent(Packet("pingreq", 0)) /\ ping' = TRUE
      /\ YieldEnds("success") /\ UNCHANGED <<interval, subscribed, lastType, env, hist>>
  BY DEF PingSent
<1>2. Grows
  BY <1>1, HistStays
<1>3. Packet("pingreq", 0) \in Packets(OutTypes)' /\ Packet("pingreq", 0).type # "publish"
  BY <1>2 DEF Packet, Packets, OutTypes, Grows
<1>4. Packeted' /\ UNCHANGED <<link, brokerSub>>
  BY <1>1, <1>2, <1>3, NetSent DEF IInv
<1>5. ping' \in BOOLEAN /\ lastType' \in AckTypes \cup {"none", "pingresp", "led"}
  BY <1>1 DEF IInv, Scalars
<1>6. QED BY <1>1, <1>4, <1>5, YieldEndsKeeps

LEMMA DisconnectedKeeps == ASSUME IInv, PingFails \/ ReadTimesOut PROVE IInv'
  BY HandleDisconnectKeeps DEF PingFails, ReadTimesOut

LEMMA DisconnectKeeps == ASSUME IInv, Disconnect PROVE IInv'
<1>1. /\ pubPc = "disconnect" /\ pubPc' = "ended"
      /\ UNCHANGED <<rc, attempt, left, stack, ping, interval, subscribed, lastType, env, hist>>
  BY DEF Disconnect
<1>2. stack = <<>>
  BY <1>1 DEF IInv, Calls, CallOfPlace, BottomOf, Yielding
<1>3. Numbers' /\ Nested(stack', issued') /\ ~Deep(stack')
  BY <1>1, <1>2, BaseEnded
<1>4. CASE clientState' = "manually" /\ Destroy
  <2>1. Packeted' /\ link' = "none"
    BY <1>4, NetDestroyed
  <2>2. Scalars'
    BY <1>1, <1>4, <2>1 DEF IInv, Scalars, env
  <2>3. CallOfPlace' /\ OpenWhileConnected' /\ Tries'
    BY <1>1, <1>2, <1>4, <2>1 DEF CallOfPlace, RestOf, OpenWhileConnected, Connected, Tries,
                                  Reconnecting
  <2>4. QED BY <1>3, <2>1, <2>2, <2>3 DEF IInv, Calls, Subscribing, Subscribed
<1>5. CASE clientState # "idle" /\ UNCHANGED <<clientState, net>>
  <2>1. Packeted'
    BY <1>1, <1>5, HistStays, NetStays DEF net, IInv
  <2>2. Scalars'
    BY <1>1, <1>5 DEF IInv, Scalars, env, net
  <2>3. CallOfPlace' /\ OpenWhileConnected' /\ Tries'
    BY <1>1, <1>2, <1>5 DEF IInv, Calls, CallOfPlace, RestOf, OpenWhileConnected, Tries,
                            Reconnecting, net
  <2>4. Subscribing' /\ Subscribed'
    BY <1>1, <1>2, <1>3 DEF Subscribing, HasSubscribed, Subscribed
  <2>5. QED BY <1>3, <2>1, <2>2, <2>3, <2>4 DEF IInv, Calls
<1>6. QED BY <1>4, <1>5 DEF Disconnect

-----------------------------------------------------------------------------
(* The broker and the link.                                                 *)

\* What the client keeps when only the packets and the broker change.
LEMMA WorldKeeps ==
  ASSUME IInv, Packeted', UNCHANGED <<publisher, client, issued, last, givenUp>>,
         delivered' \subseteq 1..issued, leds' \in 0..Leds, breaks' \in 0..Breaks,
         link' \in {"up", "reset", "silent"}, link # "none",
         link' = "up" => /\ link = "up" /\ (brokerSub => brokerSub')
                         /\ (Underway => Underway')
  PROVE  IInv'
<1>1. Numbers'
  BY DEF IInv, Numbers, client
<1>2. Scalars'
  BY DEF IInv, Scalars, publisher, client
<1>3. Nested(stack', issued') /\ CallOfPlace' /\ OpenWhileConnected' /\ Tries'
  BY DEF IInv, Calls, CallOfPlace, OpenWhileConnected, Tries, Reconnecting, publisher, client
<1>4. Subscribing' /\ Subscribed'
  BY DEF IInv, Subscribing, HasSubscribed, Subscribed, publisher, client
<1>5. QED BY <1>1, <1>2, <1>3, <1>4 DEF IInv, Calls

\* The SUBSCRIBE goes before every PUBLISH, so that an answered PUBLISH is behind it.
LEMMA BrokerAnswersKeeps == ASSUME IInv, BrokerAnswers PROVE IInv'
<1>1. /\ link = "up" /\ toBroker # <<>> /\ toBroker' = Tail(toBroker)
      /\ UNCHANGED <<publisher, client, link, env, issued, last, givenUp>>
  BY DEF BrokerAnswers
<1>2. PICK x : x = Head(toBroker)
  OBVIOUS
<1>3. PICK a \in Answer(x) : fromBroker' = Append(fromBroker, a)
  BY <1>2 DEF BrokerAnswers
<1>4. /\ brokerSub' = (brokerSub \/ x.type = "subscribe")
      /\ delivered' = IF x.type = "publish" THEN delivered \cup {x.of} ELSE delivered
  BY <1>2 DEF BrokerAnswers
<1>5. /\ toBroker \in Seq(Packets(OutTypes)) /\ fromBroker \in Seq(Packets(InTypes))
      /\ brokerSub \in BOOLEAN /\ issued \in Nat
  BY DEF IInv, Packeted, Numbers
<1>6. PICK n \in Nat : n = Len(toBroker)
  BY <1>5
<1>7. /\ x = toBroker[1] /\ x \in Packets(OutTypes) /\ n # 0
      /\ toBroker' \in Seq(Packets(OutTypes)) /\ Len(toBroker') = n - 1
      /\ \A i \in 1..n-1 : toBroker'[i] = toBroker[i+1]
  BY <1>1, <1>2, <1>5, <1>6
<1>8. x.type = "publish" => x.of \in 1..issued /\ brokerSub
  <2> SUFFICES ASSUME x.type = "publish" PROVE x.of \in 1..issued /\ brokerSub
    OBVIOUS
  <2>1. 1 \in 1..n
    BY <1>7
  <2>2. /\ toBroker[1].of >= 1
        /\ brokerSub \/ \E j \in 1..1-1 : toBroker[j].type = "subscribe"
    BY <1>6, <1>7, <2>1 DEF IInv, Packeted, SubscribedFirst
  <2>3. QED BY <1>5, <1>7, <2>2 DEF Packets
<1>9. a \in Packets(InTypes) /\ (a.type \in {"suback", "puback", "led"} => brokerSub')
  <2>1. \A type \in InTypes, m \in 0..issued :
          Packet(type, m) \in Packets(InTypes) /\ Packet(type, m).type = type
    BY DEF Packet, Packets
  <2>2. x.type \in OutTypes /\ 0 \in 0..issued
    BY <1>5, <1>7 DEF Packets
  <2>3. CASE x.type = "connect"
    <3>1. a = Packet("connack", 0) \/ a = Packet("refusal", 0)
      BY <1>3, <2>3 DEF Answer
    <3>2. QED BY <2>1, <2>2, <3>1 DEF InTypes, AckTypes
  <2>4. CASE x.type = "subscribe"
    <3>1. a = Packet("suback", 0)
      BY <1>3, <2>4 DEF Answer
    <3>2. QED BY <1>4, <2>1, <2>2, <2>4, <3>1 DEF InTypes, AckTypes
  <2>5. CASE x.type = "publish"
    <3>1. a = Packet("puback", x.of)
      BY <1>3, <2>5 DEF Answer
    <3>2. x.of \in 0..issued
      BY <1>5, <1>7 DEF Packets
    <3>3. brokerSub
      BY <1>8, <2>5
    <3>4. brokerSub'
      BY <1>4, <3>3, Zenon
    <3>5. QED BY <2>1, <3>1, <3>2, <3>4 DEF InTypes, AckTypes
  <2>6. CASE x.type = "pingreq"
    <3>1. a = Packet("pingresp", 0)
      BY <1>3, <2>6 DEF Answer
    <3>2. QED BY <2>1, <2>2, <3>1 DEF InTypes, AckTypes
  <2>7. QED BY <2>2, <2>3, <2>4, <2>5, <2>6 DEF OutTypes
<1>10. fromBroker' \in Seq(Packets(InTypes)) /\ Answered'
  <2>1. PICK m \in Nat : m = Len(fromBroker)
    BY <1>5
  <2>2. /\ fromBroker' \in Seq(Packets(InTypes)) /\ Len(fromBroker') = m + 1
        /\ fromBroker'[m+1] = a /\ \A i \in 1..m : fromBroker'[i] = fromBroker[i]
    BY <1>3, <1>5, <1>9, <2>1
  <2>3. \A i \in 1..m+1 : i \in 1..m \/ i = m + 1
    OBVIOUS
  <2>4. QED BY <1>4, <1>9, <2>1, <2>2, <2>3 DEF IInv, Packeted, Answered
<1>11. SubscribedFirst'
  <2> SUFFICES ASSUME NEW i \in 1..n-1, toBroker'[i].type = "publish"
               PROVE  /\ toBroker'[i].of >= 1
                      /\ brokerSub' \/ \E j \in 1..i-1 : toBroker'[j].type = "subscribe"
    BY <1>7 DEF SubscribedFirst
  <2>1. i + 1 \in 1..n /\ toBroker'[i] = toBroker[i+1]
    BY <1>7
  <2>2. /\ toBroker[i+1].of >= 1
        /\ brokerSub \/ \E j \in 1..(i+1)-1 : toBroker[j].type = "subscribe"
    BY <1>6, <2>1 DEF IInv, Packeted, SubscribedFirst
  <2>3. CASE brokerSub \/ x.type = "subscribe"
    BY <1>4, <2>1, <2>2, <2>3
  <2>4. CASE ~(brokerSub \/ x.type = "subscribe")
    <3>1. PICK j \in 1..i : toBroker[j].type = "subscribe"
      BY <2>2, <2>4
    <3>2. j # 1
      BY <1>7, <2>4, <3>1
    <3>3. j - 1 \in 1..i-1 /\ j - 1 \in 1..n-1 /\ (j - 1) + 1 = j
      BY <3>2
    <3>4. toBroker'[j-1].type = "subscribe"
      BY <1>7, <3>1, <3>3
    <3>5. QED BY <2>1, <2>2, <3>3, <3>4
  <2>5. QED BY <2>3, <2>4
<1>12. Underway => Underway'
  <2> SUFFICES ASSUME SubscribeUnderWay, x.type # "subscribe" PROVE SubscribeUnderWay'
    BY <1>4 DEF Underway
  <2>1. PICK j \in 1..n : toBroker[j].type = "subscribe"
    BY <1>6 DEF SubscribeUnderWay
  <2>2. j # 1
    BY <1>7, <2>1
  <2>3. j - 1 \in 1..n-1 /\ (j - 1) + 1 = j
    BY <2>2
  <2>4. toBroker'[j-1].type = "subscribe"
    BY <1>7, <2>1, <2>3
  <2>5. QED BY <1>7, <2>3, <2>4 DEF SubscribeUnderWay
<1>13. Packeted'
  <2>1. Packets(OutTypes)' = Packets(OutTypes) /\ Packets(InTypes)' = Packets(InTypes)
    BY <1>1 DEF Packets
  <2>2. brokerSub' \in BOOLEAN
    BY <1>4
  <2>3. QED BY <1>7, <1>10, <1>11, <2>1, <2>2 DEF Packeted
<1>14. delivered' \subseteq 1..issued
  BY <1>4, <1>8 DEF IInv, Numbers
<1>15. leds' \in 0..Leds /\ breaks' \in 0..Breaks
  BY <1>1 DEF env, IInv, Scalars
<1>16. brokerSub => brokerSub'
  BY <1>4
<1>17. QED BY <1>1, <1>12, <1>13, <1>14, <1>15, <1>16, WorldKeeps

LEMMA LedCommandKeeps == ASSUME IInv, LedCommand PROVE IInv'
<1>1. /\ link = "up" /\ brokerSub /\ leds < Leds /\ leds' = leds + 1
      /\ fromBroker' = Append(fromBroker, Packet("led", 0))
      /\ UNCHANGED <<publisher, client, link, toBroker, brokerSub, breaks, hist>>
  BY DEF LedCommand
<1>2. /\ fromBroker \in Seq(Packets(InTypes)) /\ issued \in Nat /\ issued' = issued
      /\ leds' \in 0..Leds /\ breaks' \in 0..Breaks
  BY <1>1, BoundsAssumption DEF IInv, Packeted, Numbers, Scalars, hist
<1>3. PICK a : a = Packet("led", 0)
  OBVIOUS
<1>4. a \in Packets(InTypes)
  BY <1>2, <1>3 DEF Packet, Packets, InTypes
<1>5. PICK n \in Nat : n = Len(fromBroker)
  BY <1>2
<1>6. fromBroker' \in Seq(Packets(InTypes))
  BY <1>1, <1>2, <1>3, <1>4
<1>7. Answered' /\ SubscribedFirst' /\ (Underway => Underway')
  BY <1>1 DEF Answered, IInv, Packeted, SubscribedFirst, Underway, SubscribeUnderWay
<1>8. Packets(OutTypes)' = Packets(OutTypes) /\ Packets(InTypes)' = Packets(InTypes)
  BY <1>2 DEF Packets
<1>9. Packeted'
  BY <1>1, <1>6, <1>7, <1>8 DEF IInv, Packeted
<1>10. delivered' \subseteq 1..issued
  BY <1>1 DEF IInv, Numbers, hist
<1>11. UNCHANGED <<issued, last, givenUp>>
  BY <1>1 DEF hist
<1>12. QED BY <1>1, <1>2, <1>7, <1>9, <1>10, <1>11, WorldKeeps

\* What had arrived is still of the same types.
LEMMA LinkBreaksKeeps == ASSUME IInv, LinkBreaks PROVE IInv'
<1>1. /\ link = "up" /\ breaks < Breaks /\ breaks' = breaks + 1
      /\ link' \in {"reset", "silent"} /\ toBroker' = <<>>
      /\ UNCHANGED <<publisher, client, brokerSub, leds, hist>>
  BY DEF LinkBreaks
<1>2. PICK n \in 0..Len(fromBroker), whole \in BOOLEAN :
        fromBroker' = [i \in 1..n |-> [fromBroker[i] EXCEPT !.whole = whole \/ i < n]]
  BY DEF LinkBreaks
<1>3. /\ fromBroker \in Seq(Packets(InTypes)) /\ issued \in Nat /\ issued' = issued
      /\ leds' \in 0..Leds /\ breaks' \in 0..Breaks
  BY <1>1, BoundsAssumption DEF IInv, Packeted, Numbers, Scalars, hist
<1>4. n \in Nat /\ \A i \in 1..n : i \in 1..Len(fromBroker) /\ fromBroker[i] \in Packets(InTypes)
  BY <1>2, <1>3
<1>5. \A i \in 1..n : /\ [fromBroker[i] EXCEPT !.whole = whole \/ i < n] \in Packets(InTypes)
                      /\ [fromBroker[i] EXCEPT !.whole = whole \/ i < n].type
                           = fromBroker[i].type
  BY <1>4 DEF Packets
<1>6. fromBroker' \in Seq(Packets(InTypes)) /\ Len(fromBroker') = n
  BY <1>2, <1>4, <1>5
<1>7. \A i \in 1..n : fromBroker'[i].type = fromBroker[i].type
  BY <1>2, <1>4, <1>5
<1>8. Answered'
  BY <1>1, <1>4, <1>6, <1>7 DEF IInv, Packeted, Answered
<1>9. toBroker' \in Seq(Packets(OutTypes)) /\ SubscribedFirst'
  BY <1>1 DEF SubscribedFirst
<1>10. Packets(OutTypes)' = Packets(OutTypes) /\ Packets(InTypes)' = Packets(InTypes)
  BY <1>3 DEF Packets
<1>11. Packeted'
  BY <1>1, <1>6, <1>8, <1>9, <1>10 DEF IInv, Packeted
<1>12. delivered' \subseteq 1..issued /\ UNCHANGED <<issued, last, givenUp>>
  BY <1>1 DEF IInv, Numbers, hist
<1>13. QED BY <1>1, <1>3, <1>11, <1>12, WorldKeeps

LEMMA TcpGivesUpKeeps == ASSUME IInv, TcpGivesUp PROVE IInv'
<1>1. /\ link = "silent" /\ link' = "reset"
      /\ UNCHANGED <<publisher, client, toBroker, fromBroker, brokerSub, env, hist>>
  BY DEF TcpGivesUp
<1>2. Packeted'
  BY <1>1, HistStays, NetStays DEF IInv
<1>3. /\ delivered' \subseteq 1..issued /\ UNCHANGED <<issued, last, givenUp>>
      /\ leds' \in 0..Leds /\ breaks' \in 0..Breaks
  BY <1>1 DEF IInv, Numbers, Scalars, hist, env
<1>4. QED BY <1>1, <1>2, <1>3, WorldKeeps

-----------------------------------------------------------------------------
LEMMA InitIInv == Init => IInv
<1> SUFFICES ASSUME Init PROVE IInv
  OBVIOUS
<1>1. Scalars
  <2>1. /\ attempt \in 0..MaxAttempts /\ left \in 0..Records
        /\ interval \in MinWait..2*MaxWait /\ leds \in 0..Leds /\ breaks \in 0..Breaks
    BY BoundsAssumption DEF Init
  <2>2. ping \in BOOLEAN /\ subscribed \in BOOLEAN
    BY DEF Init
  <2>3. QED BY <2>1, <2>2 DEF Init, Scalars
<1>2. Nested(stack, issued) /\ Publishes(stack) = 0 /\ ~Deep(stack)
  BY NestedEmpty DEF Init
<1>3. Numbers
  BY <1>2 DEF Init, Numbers
<1>4. CallOfPlace /\ OpenWhileConnected /\ Tries
  BY BoundsAssumption DEF Init, CallOfPlace, RestOf, OpenWhileConnected, Connected, Tries,
                          Reconnecting
<1>5. toBroker \in Seq(Packets(OutTypes)) /\ fromBroker \in Seq(Packets(InTypes))
  BY DEF Init
<1>6. Packeted
  <2>1. Len(toBroker) = 0 /\ Len(fromBroker) = 0 /\ brokerSub \in BOOLEAN
    BY DEF Init
  <2>2. Answered /\ SubscribedFirst
    BY <2>1 DEF Answered, SubscribedFirst
  <2>3. QED BY <1>5, <2>1, <2>2 DEF Packeted
<1>7. Subscribing /\ Subscribed
  BY DEF Init, Subscribing, Subscribed
<1>8. QED BY <1>1, <1>2, <1>3, <1>4, <1>6, <1>7 DEF IInv, Calls

LEMMA StutterKeeps == ASSUME IInv, UNCHANGED vars PROVE IInv'
<1>1. UNCHANGED <<publisher, client, net, env, hist>>
  BY DEF vars
<1>2. Packeted' /\ (Underway <=> Underway')
  BY <1>1, HistStays, NetStays DEF net, IInv
<1>3. Scalars' /\ Numbers'
  BY <1>1 DEF IInv, Scalars, Numbers, publisher, client, net, env, hist
<1>4. Calls'
  BY <1>1 DEF IInv, Calls, CallOfPlace, OpenWhileConnected, Tries, Reconnecting, publisher,
              client, net, hist
<1>5. Subscribing' /\ Subscribed'
  BY <1>1, <1>2 DEF IInv, Subscribing, HasSubscribed, Subscribed, publisher, client, net
<1>6. QED BY <1>2, <1>3, <1>4, <1>5 DEF IInv

LEMMA NextKeeps == IInv /\ [Next]_vars => IInv'
<1> SUFFICES ASSUME IInv, [Next]_vars PROVE IInv'
  OBVIOUS
<1>1. CASE Connecting
  BY <1>1, NetConnectKeeps, NetConnectFailsKeeps, YieldPendingKeeps, SubscribeCallKeeps,
     ResubscribeKeeps DEF Connecting
<1>2. CASE Publishing
  BY <1>2, ReceiveKeeps, PublishCallKeeps, CallbackPublishKeeps, DeliverReturnsKeeps
     DEF Publishing
<1>3. CASE ReadingStep
  BY <1>3, YieldCallKeeps, TakeConnackKeeps, TakeRefusalKeeps, TakeSubackKeeps,
     TakePubackKeeps, SkipPacketKeeps, DeliverKeeps, ReadNothingKeeps, YieldReadFailsKeeps,
     WaitFailsKeeps DEF ReadingStep
<1>4. CASE KeepAlive
  BY <1>4, KeepAliveNotDueKeeps, PingSentKeeps, DisconnectedKeeps, DisconnectKeeps
     DEF KeepAlive
<1>5. CASE World
  BY <1>5, BrokerAnswersKeeps, LedCommandKeeps, LinkBreaksKeeps, TcpGivesUpKeeps DEF World
<1>6. CASE UNCHANGED vars
  BY <1>6, StutterKeeps
<1>7. QED BY <1>1, <1>2, <1>3, <1>4, <1>5, <1>6 DEF Next, Client

LEMMA Inductive == Spec => []IInv
  BY InitIInv, NextKeeps, PTL DEF Spec

-----------------------------------------------------------------------------
\* Every variable keeps its type, the stack of nested calls and the packets under way
\* included; the back-off never goes beyond twice MaxWait (aws_iot_mqtt_client_yield.c).
THEOREM TypeCorrect == Spec => []TypeOK
<1>1. IInv => TypeOK
  <2> SUFFICES ASSUME IInv PROVE TypeOK
    OBVIOUS
  <2>1. Scalars /\ Packeted /\ Numbers
    BY DEF IInv
  <2>2. givenUp \in 0..issued
    <3>1. PICK p \in Nat : p = Publishes(stack)
      BY <2>1 DEF Numbers
    <3>2. 2 * givenUp + p <= 2 * issued /\ givenUp \in Nat /\ issued \in Nat
      BY <2>1, <3>1 DEF Numbers
    <3>3. QED BY <3>2
  <2>3. \A i \in DOMAIN stack :
          /\ stack[i].op \in Reading \cup {"reconnected", "keepAlive", "callback", "deliver"}
          /\ stack[i].saved \in Connected \cup {"connecting"} /\ stack[i].of \in 0..issued
    <3> SUFFICES ASSUME NEW i \in DOMAIN stack
                 PROVE  /\ stack[i].op \in Reading \cup {"reconnected", "keepAlive",
                                                         "callback", "deliver"}
                        /\ stack[i].saved \in Connected \cup {"connecting"}
                        /\ stack[i].of \in 0..issued
      OBVIOUS
    <3>1. stack \in Seq(Frames(issued))
      BY DEF IInv, Calls, Nested
    <3>2. stack[i] \in Frames(issued)
      BY <3>1
    <3>3. QED BY <3>2 DEF Frames, States, Bases, Handler, Reading, Waiting, Ack
  <2>4. /\ toBroker \in Seq(Packets({"connect", "subscribe", "publish", "pingreq"}))
        /\ fromBroker \in Seq(Packets(AckTypes \cup {"refusal", "pingresp", "led"}))
        /\ brokerSub \in BOOLEAN
    BY <2>1 DEF Packeted, OutTypes, InTypes
  <2>5. last \in 0..issued /\ delivered \subseteq 1..issued
    BY <2>1 DEF Numbers
  <2>6. QED BY <2>1, <2>2, <2>3, <2>4, <2>5 DEF TypeOK, Scalars
<1>2. QED BY <1>1, Inductive, PTL

\* The state set and restored by compare-and-swap names the innermost open call,
\* however calls nest and wherever they fail (aws_iot_mqtt_set_client_state).
THEOREM StateIsOfCall == Spec => []StateMatchesCall
<1>1. IInv => StateMatchesCall
  <2> SUFFICES ASSUME IInv PROVE StateMatchesCall
    OBVIOUS
  <2>1. CASE stack = <<>>
    <3>1. clientState \in RestOf(pubPc) /\ TopOp = "none"
      BY <2>1, AtRest
    <3>2. clientState \in {"initialized", "error", "idle", "pending", "manually"}
      BY <3>1 DEF RestOf
    <3>3. QED BY <3>1, <3>2 DEF StateMatchesCall
  <2>2. CASE stack # <<>>
    <3>1. Nested(stack, issued) /\ issued \in Nat
      BY DEF IInv, Calls, Numbers
    <3>2. TopOp \in Bases \cup Handler /\ clientState = StateOf(TopOp)
      BY <2>2, <3>1, NestedHead DEF TopOp, Top, IInv, Calls, CallOfPlace
    <3>3. QED BY <3>2 DEF StateMatchesCall, StateOf, Handler, Bases
  <2>3. QED BY <2>1, <2>2
<1>2. QED BY <1>1, Inductive, PTL

\* The network stack is open exactly while the client is connected or connecting:
\* every way out of a connect or a lost connection destroys it, and no other does.
THEOREM OpenWhenConnected == Spec => []OpenWhileConnected
  BY Inductive, PTL DEF IInv, Calls

\* Between two calls of the loop, a client that is connected has its subscription,
\* whatever failed in between (aws_iot_mqtt_attempt_reconnect,
\* subscribe_publish_sensor_values).
THEOREM SubscriptionIsKept == Spec => []StaysSubscribed
<1>1. IInv => StaysSubscribed
  BY DEF IInv, Subscribed, StaysSubscribed
<1>2. QED BY <1>1, Inductive, PTL

-----------------------------------------------------------------------------
(* The order of the numbers along the way to the broker and back, and what   *)
(* the broker has: PubacksInOrder and RecordIsDelivered.                     *)

Numbered(s, type) == {n \in Nat : \E i \in 1..Len(s) : s[i].type = type /\ s[i].of = n}
Rising(s, type) ==
  \A i, j \in 1..Len(s) :
    i < j /\ s[i].type = type /\ s[j].type = type => s[i].of < s[j].of
Pubs == Numbered(toBroker, "publish")
Acks == Numbered(fromBroker, "puback")

LedPlaces(s) == {i \in 1..Len(s) : s[i].type = "led"}
LedsComing == Cardinality(LedPlaces(fromBroker))
PublishPlaces(s) == {i \in DOMAIN s : s[i].op = "publish"}
Open == Cardinality(PublishPlaces(stack))

\* Everything under way is newer than the last PUBACK taken, and what is on its way
\* to the broker is newer than what comes from there.
InOrder ==
  /\ Rising(toBroker, "publish") /\ Rising(fromBroker, "puback")
  /\ \A a \in Acks : last < a
  /\ \A p \in Pubs : last < p /\ \A a \in Acks : a < p

\* The broker has what it acknowledged, and as long as no publish was given up all
\* before it, too.
Reached ==
  /\ Acks \subseteq delivered /\ last \in delivered \cup {0}
  /\ givenUp = 0 =>
       /\ \A d \in delivered : 1..d \subseteq delivered
       /\ link = "up" => 1..issued \subseteq delivered \cup Pubs

\* An LED command on its way and a handler about to publish are publishes to come.
ToCome == IF TopOp = "callback" THEN 1 ELSE 0
Room == LedsComing \in Nat /\ Open \in Nat /\ LedsComing <= leds
        /\ Open + LedsComing + ToCome <= leds + 1
Lag == issued <= last + givenUp + Open
NumberedIn(s) == \A i \in DOMAIN s : s[i].op = "publish" => s[i].of >= 1
NumberedFrames == NumberedIn(stack)

Order == InOrder /\ Reached /\ Room /\ Lag /\ NumberedFrames

-----------------------------------------------------------------------------
(* Places in a sequence that gets or loses its first or its last element.    *)

AfterFirst(A, B, n) ==
  n \in Nat /\ A \subseteq 1..n /\ B \subseteq 1..n+1 /\ \A i \in 1..n : i \in A <=> i+1 \in B
BeforeLast(A, B, n) ==
  n \in Nat /\ A \subseteq 1..n /\ B \subseteq 1..n+1 /\ \A i \in 1..n : i \in A <=> i \in B
OnTop(s, t, k) ==
  k \in Nat /\ DOMAIN s = 1..k+1 /\ DOMAIN t = 1..k /\ \A i \in 1..k : t[i] = s[i+1]

LEMMA PlacesAfterFirst ==
  ASSUME NEW A, NEW B, NEW n, AfterFirst(A, B, n)
  PROVE  /\ Cardinality(A) \in Nat /\ Cardinality(B) \in Nat
         /\ Cardinality(B) = Cardinality(A) + (IF 1 \in B THEN 1 ELSE 0)
<1>1. /\ n \in Nat /\ A \subseteq 1..n /\ B \subseteq 1..n+1
      /\ \A i \in 1..n : i \in A <=> i+1 \in B
  BY DEF AfterFirst
<1>2. IsFiniteSet(1..n) /\ IsFiniteSet(1..n+1)
  BY <1>1, FS_Interval
<1>3. IsFiniteSet(A) /\ IsFiniteSet(B)
  BY <1>1, <1>2, FS_Subset
<1>4. IsFiniteSet(B \ {1})
      /\ Cardinality(B \ {1}) = IF 1 \in B THEN Cardinality(B)-1 ELSE Cardinality(B)
  BY <1>3, FS_RemoveElement
<1>5. Cardinality(B \ {1}) = Cardinality(A)
  <2> DEFINE f == [i \in A |-> i+1]
  <2>1. \A i \in A : i+1 \in B \ {1}
    BY <1>1
  <2>2. f \in [A -> B \ {1}]
    BY <2>1
  <2>3. \A i, j \in A : f[i] = f[j] => i = j
    BY <1>1
  <2>4. \A b \in B \ {1} : \E i \in A : f[i] = b
    <3> TAKE b \in B \ {1}
    <3>1. b-1 \in 1..n /\ b = (b-1)+1
      BY <1>1
    <3>2. b-1 \in A
      BY <1>1, <3>1
    <3>3. QED BY <3>1, <3>2
  <2>5. f \in Bijection(A, B \ {1})
    BY <2>2, <2>3, <2>4 DEF Bijection, Injection, Surjection, IsInjective
  <2>6. QED BY <1>3, <2>5, FS_Bijection DEF ExistsBijection
<1>6. Cardinality(A) \in Nat /\ Cardinality(B) \in Nat
  BY <1>3, FS_CardinalityType
<1>7. QED BY <1>4, <1>5, <1>6

LEMMA PlacesBeforeLast ==
  ASSUME NEW A, NEW B, NEW n, BeforeLast(A, B, n)
  PROVE  /\ Cardinality(A) \in Nat /\ Cardinality(B) \in Nat
         /\ Cardinality(B) = Cardinality(A) + (IF n+1 \in B THEN 1 ELSE 0)
<1>1. /\ n \in Nat /\ A \subseteq 1..n /\ B \subseteq 1..n+1
      /\ \A i \in 1..n : i \in A <=> i \in B
  BY DEF BeforeLast
<1>2. IsFiniteSet(1..n)
  BY <1>1, FS_Interval
<1>3. IsFiniteSet(A)
  BY <1>1, <1>2, FS_Subset
<1>4. Cardinality(A) \in Nat
  BY <1>3, FS_CardinalityType
<1>5. \A x \in B : x \in A \/ x = n+1
  BY <1>1
<1>6. \A x \in A : x \in B /\ x # n+1
  BY <1>1
<1>7. CASE n+1 \in B
  <2>1. B = A \cup {n+1} /\ n+1 \notin A
    BY <1>5, <1>6, <1>7, Zenon
  <2>2. Cardinality(B) = Cardinality(A) + 1
    BY <1>3, <2>1, FS_AddElement
  <2>3. QED BY <1>4, <1>7, <2>2
<1>8. CASE n+1 \notin B
  <2>1. B = A
    BY <1>5, <1>6, <1>8, Zenon
  <2>2. QED BY <1>4, <1>8, <2>1
<1>9. QED BY <1>7, <1>8

LEMMA PlacesOfPart ==
  ASSUME NEW n \in Nat, NEW B \in SUBSET (1..n), NEW A \in SUBSET B
  PROVE  /\ Cardinality(A) \in Nat /\ Cardinality(B) \in Nat
         /\ Cardinality(A) <= Cardinality(B)
<1>1. IsFiniteSet(1..n)
  BY FS_Interval
<1>2. IsFiniteSet(B) /\ IsFiniteSet(A)
  BY <1>1, FS_Subset
<1>3. QED BY <1>2, FS_Subset, FS_CardinalityType

LEMMA NoneUnderWay ==
  ASSUME NEW type
  PROVE  /\ Rising(<<>>, type) /\ Numbered(<<>>, type) = {}
         /\ Cardinality(LedPlaces(<<>>)) = 0
<1>1. LedPlaces(<<>>) = {}
  BY DEF LedPlaces
<1>2. QED BY <1>1, FS_EmptySet DEF Rising, Numbered

LEMMA FirstRemoved ==
  ASSUME NEW S, \A x \in S : x.of \in Nat, NEW s \in Seq(S), s # <<>>, NEW type,
         Rising(s, type), NEW t, t = Tail(s)
  PROVE  /\ Rising(t, type) /\ Numbered(t, type) \subseteq Numbered(s, type)
         /\ Head(s).type = type =>
              /\ Head(s).of \in Numbered(s, type) /\ \A m \in Numbered(t, type) : Head(s).of < m
              /\ \A m \in Numbered(s, type) : m \in Numbered(t, type) \/ m = Head(s).of
         /\ Head(s).type # type => Numbered(s, type) \subseteq Numbered(t, type)
<1>1. PICK k \in Nat : k = Len(s)
  OBVIOUS
<1>2. k # 0 /\ Head(s) = s[1] /\ s[1] \in S
  BY <1>1
<1>3. Len(t) = k - 1 /\ \A i \in 1..k-1 : t[i] = s[i+1]
  BY <1>1, <1>2
<1>4. Rising(t, type)
  BY <1>1, <1>3 DEF Rising
<1>5. Numbered(t, type) \subseteq Numbered(s, type)
  <2> SUFFICES ASSUME NEW m \in Numbered(t, type) PROVE m \in Numbered(s, type)
    OBVIOUS
  <2>1. PICK i \in 1..k-1 : t[i].type = type /\ t[i].of = m
    BY <1>3 DEF Numbered
  <2>2. i+1 \in 1..k /\ s[i+1].type = type /\ s[i+1].of = m
    BY <1>1, <1>3, <2>1
  <2>3. QED BY <1>1, <2>2 DEF Numbered
<1>6. \A m \in Numbered(s, type) :
        m \in Numbered(t, type) \/ (Head(s).type = type /\ m = Head(s).of)
  <2> TAKE m \in Numbered(s, type)
  <2>1. PICK i \in 1..k : s[i].type = type /\ s[i].of = m
    BY <1>1 DEF Numbered
  <2>2. CASE i = 1
    BY <1>2, <2>1, <2>2
  <2>3. CASE i # 1
    <3>1. i-1 \in 1..k-1 /\ t[i-1].type = type /\ t[i-1].of = m
      BY <1>1, <1>3, <2>1, <2>3
    <3>2. QED BY <1>3, <3>1 DEF Numbered
  <2>4. QED BY <2>2, <2>3
<1>7. ASSUME Head(s).type = type
      PROVE  Head(s).of \in Numbered(s, type) /\ \A m \in Numbered(t, type) : Head(s).of < m
  <2>1. Head(s).of \in Numbered(s, type)
    BY <1>1, <1>2, <1>7 DEF Numbered
  <2>2. ASSUME NEW m \in Numbered(t, type) PROVE Head(s).of < m
    <3>1. PICK i \in 1..k-1 : t[i].type = type /\ t[i].of = m
      BY <1>3 DEF Numbered
    <3>2. i+1 \in 1..k /\ 1 < i+1 /\ s[i+1].type = type /\ s[i+1].of = m
      BY <1>1, <1>3, <3>1
    <3>3. QED BY <1>1, <1>2, <1>7, <3>2 DEF Rising
  <2>3. QED BY <2>1, <2>2
<1>8. QED BY <1>4, <1>5, <1>6, <1>7

LEMMA LastAdded ==
  ASSUME NEW S, \A x \in S : x.of \in Nat, NEW s \in Seq(S), NEW type, Rising(s, type),
         NEW p \in S, NEW t, t = Append(s, p),
         p.type = type => \A m \in Numbered(s, type) : m < p.of
  PROVE  /\ Rising(t, type) /\ Numbered(s, type) \subseteq Numbered(t, type)
         /\ p.type = type => p.of \in Numbered(t, type)
         /\ \A m \in Numbered(t, type) :
              m \in Numbered(s, type) \/ (p.type = type /\ m = p.of)
<1>1. PICK k \in Nat : k = Len(s)
  OBVIOUS
<1>2. Len(t) = k+1 /\ t[k+1] = p /\ \A i \in 1..k : t[i] = s[i] /\ s[i] \in S
  BY <1>1
<1>3. Rising(t, type)
  <2> SUFFICES ASSUME NEW i \in 1..k+1, NEW j \in 1..k+1, i < j,
                      t[i].type = type, t[j].type = type
               PROVE  t[i].of < t[j].of
    BY <1>2 DEF Rising
  <2>1. i \in 1..k /\ t[i] = s[i] /\ s[i].of \in Nat
    BY <1>2
  <2>2. CASE j = k+1
    <3>1. s[i].of \in Numbered(s, type)
      BY <1>1, <2>1 DEF Numbered
    <3>2. QED BY <1>2, <2>1, <2>2, <3>1
  <2>3. CASE j # k+1
    <3>1. j \in 1..k /\ t[j] = s[j]
      BY <1>2, <2>3
    <3>2. QED BY <1>1, <2>1, <3>1 DEF Rising
  <2>4. QED BY <2>2, <2>3
<1>4. \A m \in Numbered(t, type) : m \in Numbered(s, type) \/ (p.type = type /\ m = p.of)
  <2> TAKE m \in Numbered(t, type)
  <2>1. PICK i \in 1..k+1 : t[i].type = type /\ t[i].of = m
    BY <1>2 DEF Numbered
  <2>2. CASE i = k+1
    BY <1>2, <2>1, <2>2
  <2>3. CASE i # k+1
    <3>1. i \in 1..k /\ s[i].type = type /\ s[i].of = m
      BY <1>2, <2>1, <2>3
    <3>2. QED BY <1>1, <3>1 DEF Numbered
  <2>4. QED BY <2>2, <2>3
<1>5. Numbered(s, type) \subseteq Numbered(t, type)
  <2> SUFFICES ASSUME NEW m \in Numbered(s, type) PROVE m \in Numbered(t, type)
    OBVIOUS
  <2>1. PICK i \in 1..k : s[i].type = type /\ s[i].of = m
    BY <1>1 DEF Numbered
  <2>2. i \in 1..k+1 /\ t[i].type = type /\ t[i].of = m
    BY <1>2, <2>1
  <2>3. QED BY <1>2, <2>2 DEF Numbered
<1>6. p.type = type => p.of \in Numbered(t, type)
  <2>1. k+1 \in 1..k+1
    OBVIOUS
  <2>2. QED BY <1>2, <2>1 DEF Numbered
<1>7. QED BY <1>3, <1>4, <1>5, <1>6

LEMMA LedRemoved ==
  ASSUME NEW S, NEW s \in Seq(S), s # <<>>, NEW t, t = Tail(s)
  PROVE  /\ Cardinality(LedPlaces(s)) \in Nat /\ Cardinality(LedPlaces(t)) \in Nat
         /\ Cardinality(LedPlaces(s))
              = Cardinality(LedPlaces(t)) + (IF Head(s).type = "led" THEN 1 ELSE 0)
<1>1. PICK k \in Nat : k+1 = Len(s) /\ Len(t) = k /\ \A i \in 1..k : t[i] = s[i+1]
  <2>1. PICK n \in Nat : n = Len(s)
    OBVIOUS
  <2>2. n # 0 /\ n-1 \in Nat /\ (n-1)+1 = n
    BY <2>1
  <2>3. Len(t) = n-1 /\ \A i \in 1..n-1 : t[i] = s[i+1]
    BY <2>1, <2>2
  <2>4. QED BY <2>1, <2>2, <2>3
<1>2. LedPlaces(t) \subseteq 1..k /\ LedPlaces(s) \subseteq 1..k+1
  BY <1>1 DEF LedPlaces
<1>3. \A i \in 1..k : i \in LedPlaces(t) <=> i+1 \in LedPlaces(s)
  BY <1>1 DEF LedPlaces
<1>6. AfterFirst(LedPlaces(t), LedPlaces(s), k)
  BY <1>2, <1>3 DEF AfterFirst
<1>4. 1 \in LedPlaces(s) <=> Head(s).type = "led"
  BY <1>1 DEF LedPlaces
<1>7. QED BY <1>4, <1>6, PlacesAfterFirst

LEMMA LedAdded ==
  ASSUME NEW S, NEW s \in Seq(S), NEW p, NEW t, t = Append(s, p)
  PROVE  /\ Cardinality(LedPlaces(s)) \in Nat /\ Cardinality(LedPlaces(t)) \in Nat
         /\ Cardinality(LedPlaces(t))
              = Cardinality(LedPlaces(s)) + (IF p.type = "led" THEN 1 ELSE 0)
<1>1. PICK k \in Nat : k = Len(s)
  OBVIOUS
<1>2. Len(t) = k+1 /\ t[k+1] = p /\ \A i \in 1..k : t[i] = s[i]
  BY <1>1
<1>3. LedPlaces(s) \subseteq 1..k /\ LedPlaces(t) \subseteq 1..k+1
  BY <1>1, <1>2 DEF LedPlaces
<1>4. \A i \in 1..k : i \in LedPlaces(s) <=> i \in LedPlaces(t)
  BY <1>1, <1>2 DEF LedPlaces
<1>5. k+1 \in LedPlaces(t) <=> p.type = "led"
  BY <1>2 DEF LedPlaces
<1>6. BeforeLast(LedPlaces(s), LedPlaces(t), k)
  BY <1>3, <1>4 DEF BeforeLast
<1>7. QED BY <1>5, <1>6, PlacesBeforeLast

\* The link breaks: what has arrived, up to some packet.
LEMMA PartArrived ==
  ASSUME NEW S, \A x \in S : x.of \in Nat, NEW s \in Seq(S), NEW k \in 0..Len(s),
         NEW t, Len(t) = k, \A i \in 1..k : t[i].type = s[i].type /\ t[i].of = s[i].of,
         NEW type, Rising(s, type)
  PROVE  /\ Rising(t, type) /\ Numbered(t, type) \subseteq Numbered(s, type)
         /\ Cardinality(LedPlaces(t)) \in Nat /\ Cardinality(LedPlaces(s)) \in Nat
         /\ Cardinality(LedPlaces(t)) <= Cardinality(LedPlaces(s))
<1>1. PICK n \in Nat : n = Len(s)
  OBVIOUS
<1>2. k \in 0..n /\ \A i \in 1..k : i \in 1..n
  BY <1>1
<1>3. Rising(t, type)
  BY <1>1, <1>2 DEF Rising
<1>4. Numbered(t, type) \subseteq Numbered(s, type)
  BY <1>1, <1>2 DEF Numbered
<1>5. LedPlaces(s) \in SUBSET (1..n) /\ LedPlaces(t) \in SUBSET LedPlaces(s)
  BY <1>1, <1>2 DEF LedPlaces
<1>6. QED BY <1>3, <1>4, <1>5, PlacesOfPart

\* A call that is opened or closed.
LEMMA FrameMore ==
  ASSUME NEW s, NEW t, NEW k, OnTop(s, t, k)
  PROVE  /\ Cardinality(PublishPlaces(s)) \in Nat /\ Cardinality(PublishPlaces(t)) \in Nat
         /\ Cardinality(PublishPlaces(s))
              = Cardinality(PublishPlaces(t)) + (IF s[1].op = "publish" THEN 1 ELSE 0)
         /\ NumberedIn(s) <=> NumberedIn(t) /\ (s[1].op = "publish" => s[1].of >= 1)
<1>1. k \in Nat /\ DOMAIN s = 1..k+1 /\ DOMAIN t = 1..k /\ \A i \in 1..k : t[i] = s[i+1]
  BY DEF OnTop
<1>2. PublishPlaces(t) \subseteq 1..k /\ PublishPlaces(s) \subseteq 1..k+1
  BY <1>1 DEF PublishPlaces
<1>3. \A i \in 1..k : i \in PublishPlaces(t) <=> i+1 \in PublishPlaces(s)
  BY <1>1 DEF PublishPlaces
<1>4. AfterFirst(PublishPlaces(t), PublishPlaces(s), k)
  BY <1>1, <1>2, <1>3 DEF AfterFirst
<1>5. 1 \in PublishPlaces(s) <=> s[1].op = "publish"
  BY <1>1 DEF PublishPlaces
<1>6. NumberedIn(s) => NumberedIn(t) /\ (s[1].op = "publish" => s[1].of >= 1)
  BY <1>1 DEF NumberedIn
<1>7. ASSUME NumberedIn(t), s[1].op = "publish" => s[1].of >= 1,
             NEW i \in 1..k+1, s[i].op = "publish"
      PROVE  s[i].of >= 1
  <2>1. CASE i = 1
    BY <1>7, <2>1
  <2>2. CASE i # 1
    <3>1. i-1 \in 1..k /\ t[i-1] = s[i]
      BY <1>1, <2>2
    <3>2. QED BY <1>1, <1>7, <3>1 DEF NumberedIn
  <2>3. QED BY <2>1, <2>2
<1>8. NumberedIn(t) /\ (s[1].op = "publish" => s[1].of >= 1) => NumberedIn(s)
  BY <1>1, <1>7 DEF NumberedIn
<1>9. QED BY <1>4, <1>5, <1>6, <1>8, PlacesAfterFirst

LEMMA NoFrames ==
  Cardinality(PublishPlaces(<<>>)) = 0 /\ NumberedIn(<<>>)
<1>1. PublishPlaces(<<>>) = {}
  BY DEF PublishPlaces
<1>2. QED BY <1>1, FS_EmptySet DEF NumberedIn

LEMMA OneFrame ==
  ASSUME NEW f, NEW s, s = <<f>>
  PROVE  /\ Cardinality(PublishPlaces(s)) = (IF f.op = "publish" THEN 1 ELSE 0)
         /\ NumberedIn(s) <=> (f.op = "publish" => f.of >= 1)
<1>1. s[1] = f /\ OnTop(s, <<>>, 0)
  BY DEF OnTop
<1>2. QED BY <1>1, FrameMore, NoFrames

LEMMA FramePushed ==
  ASSUME NEW S, NEW s \in Seq(S), NEW f \in S, NEW t, t = <<f>> \o s
  PROVE  /\ Cardinality(PublishPlaces(s)) \in Nat
         /\ Cardinality(PublishPlaces(t))
              = Cardinality(PublishPlaces(s)) + (IF f.op = "publish" THEN 1 ELSE 0)
         /\ NumberedIn(t) <=> NumberedIn(s) /\ (f.op = "publish" => f.of >= 1)
         /\ Head(t) = f /\ t # <<>>
<1>1. PICK k \in Nat : k = Len(s)
  OBVIOUS
<1>2. t[1] = f /\ Head(t) = f /\ t # <<>>
  BY <1>1
<1>3. OnTop(t, s, k)
  BY <1>1 DEF OnTop
<1>4. QED BY <1>2, <1>3, FrameMore

LEMMA FramePopped ==
  ASSUME NEW S, NEW s \in Seq(S), s # <<>>, NEW t, t = Tail(s)
  PROVE  /\ Cardinality(PublishPlaces(s)) \in Nat /\ Cardinality(PublishPlaces(t)) \in Nat
         /\ Cardinality(PublishPlaces(s))
              = Cardinality(PublishPlaces(t)) + (IF Head(s).op = "publish" THEN 1 ELSE 0)
         /\ NumberedIn(s) <=> NumberedIn(t) /\ (Head(s).op = "publish" => Head(s).of >= 1)
<1>1. PICK n \in Nat : n = Len(s)
  OBVIOUS
<1>2. n # 0 /\ n-1 \in Nat /\ (n-1)+1 = n
  BY <1>1
<1>3. PICK k \in Nat : k+1 = n
  BY <1>2
<1>4. OnTop(s, t, k)
  BY <1>1, <1>2, <1>3 DEF OnTop
<1>5. Head(s) = s[1]
  OBVIOUS
<1>6. QED BY <1>4, <1>5, FrameMore

-----------------------------------------------------------------------------
(* Steps that publish nothing, and take and answer no publish.               *)

LEMMA Known ==
  ASSUME IInv
  PROVE  /\ issued \in Nat /\ last \in 0..issued /\ givenUp \in Nat
         /\ delivered \subseteq 1..issued /\ leds \in 0..Leds /\ Leds \in Nat
         /\ stack \in Seq(Frames(issued))
         /\ toBroker \in Seq(Packets(OutTypes)) /\ fromBroker \in Seq(Packets(InTypes))
         /\ \A x \in Packets(OutTypes) \cup Packets(InTypes) : x.of \in Nat
         /\ Pubs \subseteq 1..issued /\ Acks \subseteq 0..issued
<1>1. issued \in Nat /\ last \in 0..issued /\ givenUp \in Nat /\ delivered \subseteq 1..issued
  BY DEF IInv, Numbers
<1>2. leds \in 0..Leds /\ Leds \in Nat
  BY BoundsAssumption DEF IInv, Scalars
<1>3. stack \in Seq(Frames(issued))
  BY DEF IInv, Calls, Nested
<1>4. toBroker \in Seq(Packets(OutTypes)) /\ fromBroker \in Seq(Packets(InTypes))
  BY DEF IInv, Packeted
<1>5. \A x \in Packets(OutTypes) \cup Packets(InTypes) : x.of \in 0..issued
  BY DEF Packets
<1>6. Pubs \subseteq 1..issued
  <2> SUFFICES ASSUME NEW i \in 1..Len(toBroker), toBroker[i].type = "publish"
               PROVE  toBroker[i].of \in 1..issued
    BY DEF Pubs, Numbered
  <2>1. toBroker[i].of \in 0..issued /\ toBroker[i].of >= 1
    BY <1>4, <1>5 DEF IInv, Packeted, SubscribedFirst
  <2>2. QED BY <1>1, <2>1
<1>7. Acks \subseteq 0..issued
  BY <1>4, <1>5 DEF Acks, Numbered
<1>8. QED BY <1>1, <1>2, <1>3, <1>4, <1>5, <1>6, <1>7

QuietTo ==
  /\ link' = "up" => link = "up"
  /\ \/ toBroker' = toBroker
     \/ toBroker' = <<>> /\ link' # "up"
     \/ \E p \in Packets(OutTypes) : p.type # "publish" /\ toBroker' = Append(toBroker, p)
QuietFrom ==
  \/ fromBroker' = fromBroker
  \/ fromBroker' = <<>>
  \/ fromBroker # <<>> /\ fromBroker' = Tail(fromBroker)
  \/ \E n \in 0..Len(fromBroker) :
       /\ Len(fromBroker') = n
       /\ \A i \in 1..n : /\ fromBroker'[i].type = fromBroker[i].type
                          /\ fromBroker'[i].of = fromBroker[i].of
QuietNet == UNCHANGED hist /\ leds' = leds /\ QuietTo /\ QuietFrom

LEMMA QuietToKeeps ==
  ASSUME IInv, Order, QuietTo
  PROVE  /\ Rising(toBroker, "publish")' /\ Pubs' \subseteq Pubs
         /\ link' = "up" => Pubs' = Pubs
<1>1. CASE toBroker' = toBroker
  BY <1>1 DEF Order, InOrder, Rising, Pubs, Numbered
<1>2. CASE toBroker' = <<>> /\ link' # "up"
  BY <1>2, NoneUnderWay DEF Pubs
<1>3. CASE \E p \in Packets(OutTypes) : p.type # "publish" /\ toBroker' = Append(toBroker, p)
  <2>1. PICK p \in Packets(OutTypes) : p.type # "publish" /\ toBroker' = Append(toBroker, p)
    BY <1>3
  <2>2. PICK t : t = toBroker'
    OBVIOUS
  <2>5. /\ toBroker \in Seq(Packets(OutTypes)) /\ \A x \in Packets(OutTypes) : x.of \in Nat
        /\ Rising(toBroker, "publish")
    BY Known DEF Order, InOrder
  <2>6. t = Append(toBroker, p) /\ p.type # "publish"
    BY <2>1, <2>2
  <2>3. /\ Rising(t, "publish")
        /\ Numbered(toBroker, "publish") \subseteq Numbered(t, "publish")
        /\ \A m \in Numbered(t, "publish") :
             m \in Numbered(toBroker, "publish") \/ (p.type = "publish" /\ m = p.of)
    BY <2>5, <2>6, LastAdded
  <2>7. Numbered(t, "publish") = Numbered(toBroker, "publish")
    BY <2>3, <2>6
  <2>4. QED BY <2>2, <2>3, <2>7 DEF Rising, Pubs
<1>4. QED BY <1>1, <1>2, <1>3 DEF QuietTo

LEMMA QuietFromKeeps ==
  ASSUME IInv, Order, QuietFrom
  PROVE  /\ Rising(fromBroker, "puback")' /\ Acks' \subseteq Acks
         /\ LedsComing' \in Nat /\ LedsComing' <= LedsComing
<1>1. PICK s : s = fromBroker'
  OBVIOUS
<1> DEFINE Fine == /\ Rising(s, "puback") /\ Numbered(s, "puback") \subseteq Acks
                   /\ Cardinality(LedPlaces(s)) \in Nat
                   /\ Cardinality(LedPlaces(s)) <= LedsComing
<1>2. /\ fromBroker \in Seq(Packets(InTypes)) /\ \A x \in Packets(InTypes) : x.of \in Nat
      /\ Rising(fromBroker, "puback") /\ LedsComing \in Nat
  BY Known DEF Order, InOrder, Room
<1>3. ASSUME fromBroker' = fromBroker PROVE Fine
  BY <1>1, <1>2, <1>3 DEF Acks, LedsComing
<1>4. ASSUME fromBroker' = <<>> PROVE Fine
  BY <1>1, <1>2, <1>4, NoneUnderWay
<1>5. ASSUME fromBroker # <<>> /\ fromBroker' = Tail(fromBroker) PROVE Fine
  <2>1. Rising(s, "puback") /\ Numbered(s, "puback") \subseteq Numbered(fromBroker, "puback")
    BY <1>1, <1>2, <1>5, FirstRemoved
  <2>2. /\ Cardinality(LedPlaces(s)) \in Nat /\ Cardinality(LedPlaces(fromBroker)) \in Nat
        /\ Cardinality(LedPlaces(fromBroker))
             = Cardinality(LedPlaces(s)) + (IF Head(fromBroker).type = "led" THEN 1 ELSE 0)
    BY <1>1, <1>2, <1>5, LedRemoved
  <2>3. QED BY <2>1, <2>2 DEF Acks, LedsComing
<1>6. ASSUME NEW n \in 0..Len(fromBroker), Len(fromBroker') = n,
             \A i \in 1..n : /\ fromBroker'[i].type = fromBroker[i].type
                            /\ fromBroker'[i].of = fromBroker[i].of
      PROVE  Fine
  <2>1. Len(s) = n /\ \A i \in 1..n : /\ s[i].type = fromBroker[i].type
                                      /\ s[i].of = fromBroker[i].of
    BY <1>1, <1>6
  <2>2. /\ Rising(s, "puback") /\ Numbered(s, "puback") \subseteq Numbered(fromBroker, "puback")
        /\ Cardinality(LedPlaces(s)) \in Nat
        /\ Cardinality(LedPlaces(s)) <= Cardinality(LedPlaces(fromBroker))
    BY <1>2, <1>6, <2>1, PartArrived
  <2>3. QED BY <2>2 DEF Acks, LedsComing
<1>7. Fine
  BY <1>3, <1>4, <1>5, <1>6 DEF QuietFrom
<1>8. QED BY <1>1, <1>7 DEF Acks, LedsComing, Rising

LEMMA QuietNetKeeps ==
  ASSUME IInv, Order, QuietNet
  PROVE  InOrder' /\ Reached' /\ LedsComing' \in Nat /\ LedsComing' <= LedsComing
<1>1. /\ Rising(toBroker, "publish")' /\ Pubs' \subseteq Pubs
      /\ link' = "up" => link = "up" /\ Pubs' = Pubs
  BY QuietToKeeps DEF QuietNet, QuietTo
<1>2. /\ Rising(fromBroker, "puback")' /\ Acks' \subseteq Acks
      /\ LedsComing' \in Nat /\ LedsComing' <= LedsComing
  BY QuietFromKeeps DEF QuietNet
<1>3. UNCHANGED <<issued, last, givenUp, delivered>>
  BY DEF QuietNet, hist
<1>4. InOrder'
  BY <1>1, <1>2, <1>3 DEF Order, InOrder
<1>5. Reached'
  BY <1>1, <1>2, <1>3 DEF Order, Reached
<1>6. QED BY <1>2, <1>4, <1>5

QuietStack ==
  \/ stack' = stack
  \/ /\ stack = <<>> \/ TopOp \in Bases \ {"publish"}
     /\ stack' = <<>> \/ \E f : f.op \notin {"publish", "callback"} /\ stack' = <<f>>

\* What is shown of every step: it keeps the order, it is a step of AnswerOrder or
\* none, and a record whose publish went well has been delivered.
Kept ==
  /\ Order'
  /\ Pubacks!Next \/ UNCHANGED Pubacks!vars
  /\ RecordPublished /\ givenUp = 0 => Top.of \in delivered

LEMMA NoneOpen ==
  ASSUME IInv, stack = <<>> \/ TopOp \in Bases \ {"publish"}
  PROVE  Open = 0
<1>1. CASE stack = <<>>
  BY <1>1, NoFrames DEF Open
<1>2. CASE TopOp \in Bases \ {"publish"}
  <2>1. stack # <<>> /\ Head(stack).op # "publish" /\ ~Deep(stack)
    BY <1>2, InCall DEF Bases
  <2>2. stack \in Seq(Frames(issued))
    BY Known
  <2>3. PICK n \in Nat : Len(stack) = n /\ n >= 1 /\ (n = 1 <=> Tail(stack) = <<>>)
    BY <2>1, <2>2, LengthOf
  <2>4. Tail(stack) = <<>>
    BY <2>1, <2>3 DEF Deep
  <2>5. Cardinality(PublishPlaces(stack)) = Cardinality(PublishPlaces(Tail(stack))) + 0
    BY <2>1, <2>2, FramePopped
  <2>6. Cardinality(PublishPlaces(Tail(stack))) = 0
    BY <2>4, NoFrames
  <2>7. QED BY <2>5, <2>6 DEF Open
<1>3. QED BY <1>1, <1>2

LEMMA QuietStackKeeps ==
  ASSUME IInv, Order, QuietStack
  PROVE  Open' = Open /\ NumberedFrames' /\ ToCome' <= ToCome /\ ~RecordPublished
<1>1. CASE stack' = stack
  BY <1>1 DEF Open, PublishPlaces, Order, NumberedFrames, NumberedIn, ToCome, TopOp, Top,
              RecordPublished
<1>2. CASE /\ stack = <<>> \/ TopOp \in Bases \ {"publish"}
           /\ stack' = <<>> \/ \E f : f.op \notin {"publish", "callback"} /\ stack' = <<f>>
  <2>1. Open = 0 /\ TopOp # "publish"
    BY <1>2, NoneOpen DEF TopOp
  <2>2. CASE stack' = <<>>
    <3>1. Open' = 0 /\ NumberedFrames' /\ ToCome' = 0
      BY <2>2, NoFrames DEF Open, NumberedFrames, ToCome, TopOp
    <3>2. QED BY <2>1, <3>1 DEF ToCome, RecordPublished
  <2>3. CASE \E f : f.op \notin {"publish", "callback"} /\ stack' = <<f>>
    <3>1. PICK f : f.op \notin {"publish", "callback"} /\ stack' = <<f>>
      BY <2>3
    <3>2. PICK t : t = stack'
      OBVIOUS
    <3>3. Cardinality(PublishPlaces(t)) = 0 /\ NumberedIn(t) /\ t # <<>> /\ Head(t) = f
      BY <3>1, <3>2, OneFrame
    <3>4. Open' = 0 /\ NumberedFrames' /\ ToCome' = 0
      BY <3>1, <3>2, <3>3 DEF Open, NumberedFrames, ToCome, TopOp, Top
    <3>5. QED BY <2>1, <3>4 DEF ToCome, RecordPublished
  <2>4. QED BY <1>2, <2>2, <2>3
<1>3. QED BY <1>1, <1>2 DEF QuietStack

LEMMA SameKeeps ==
  ASSUME IInv, Order, InOrder', Reached', LedsComing' \in Nat, LedsComing' <= LedsComing,
         UNCHANGED <<issued, last, givenUp>>, leds' = leds,
         Open' = Open, NumberedFrames', ToCome' <= ToCome, ~RecordPublished
  PROVE  Kept
<1>1. ToCome \in 0..1 /\ ToCome' \in 0..1 /\ leds \in Nat
  BY Known DEF ToCome
<1>2. /\ LedsComing \in Nat /\ Open \in Nat /\ LedsComing <= leds
      /\ Open + LedsComing + ToCome <= leds + 1
  BY DEF Order, Room
<1>3. Room'
  <2>1. PICK l \in Nat, m \in Nat, o \in Nat, t \in 0..1, u \in 0..1, k \in Nat :
          l = LedsComing /\ m = LedsComing' /\ o = Open /\ t = ToCome /\ u = ToCome' /\ k = leds
    BY <1>1, <1>2
  <2>2. m <= l /\ u <= t /\ l <= k /\ o + l + t <= k + 1
    BY <1>2, <2>1
  <2>3. m <= k /\ o + m + u <= k + 1
    BY <2>2
  <2>4. LedsComing' <= leds' /\ Open' + LedsComing' + ToCome' <= leds' + 1
    BY <2>1, <2>3
  <2>5. QED BY <1>2, <2>4 DEF Room
<1>4. Lag'
  BY DEF Order, Lag
<1>5. UNCHANGED Pubacks!vars
  BY DEF Pubacks!vars, Open, PublishPlaces
<1>6. QED BY <1>3, <1>4, <1>5 DEF Kept, Order

LEMMA QuietKeeps ==
  ASSUME IInv, Order, UNCHANGED hist, leds' = leds, QuietTo, QuietFrom, QuietStack
  PROVE  Kept
<1>1. InOrder' /\ Reached' /\ LedsComing' \in Nat /\ LedsComing' <= LedsComing
  BY QuietNetKeeps DEF QuietNet
<1>2. Open' = Open /\ NumberedFrames' /\ ToCome' <= ToCome /\ ~RecordPublished
  BY QuietStackKeeps
<1>3. UNCHANGED <<issued, last, givenUp>>
  BY DEF hist
<1>4. QED BY <1>1, <1>2, <1>3, SameKeeps

LEMMA NetQuiet == ASSUME UNCHANGED net PROVE QuietTo /\ QuietFrom
  BY DEF QuietTo, QuietFrom, net
LEMMA DestroyQuiet == ASSUME Destroy PROVE QuietTo /\ QuietFrom
  BY DEF QuietTo, QuietFrom, Destroy
LEMMA SentQuiet ==
  ASSUME NEW type \in OutTypes \ {"publish"}, issued \in Nat, Sent(Packet(type, 0))
  PROVE  QuietTo /\ QuietFrom
<1>1. Packet(type, 0) \in Packets(OutTypes) /\ Packet(type, 0).type # "publish"
  BY DEF Packet, Packets
<1>2. QED BY <1>1 DEF Sent, QuietTo, QuietFrom
LEMMA ConsumeQuiet ==
  ASSUME Consume, Incoming # "nothing" PROVE QuietTo /\ QuietFrom
<1>1. fromBroker # <<>>
  BY DEF Incoming
<1>2. QED BY <1>1 DEF Consume, QuietTo, QuietFrom

LEMMA NetConnectInOrder == ASSUME IInv, Order, NetConnect PROVE Kept
<1>1. /\ stack = <<>> /\ link' = "up" /\ toBroker' = <<Packet("connect", 0)>>
      /\ fromBroker' = <<>> /\ UNCHANGED <<issued, last, givenUp, delivered>> /\ leds' = leds
      /\ stack' = <<Frame("connect", "connecting", 0)>>
  BY DEF NetConnect, ConnectCalled, hist, env
<1>2. QuietStack
  BY <1>1 DEF QuietStack, Frame
<1>3. Acks' = {} /\ Rising(fromBroker, "puback")' /\ LedsComing' = 0
  BY <1>1, NoneUnderWay DEF Acks, LedsComing, Rising
<1>4. Pubs' = {} /\ Rising(toBroker, "publish")'
  BY <1>1 DEF Pubs, Numbered, Rising, Packet
<1>5. InOrder'
  BY <1>3, <1>4 DEF InOrder
<1>6. givenUp = 0 => 1..issued \subseteq delivered
  <2> SUFFICES ASSUME givenUp = 0 PROVE 1..issued \subseteq delivered
    OBVIOUS
  <2>1. Open = 0
    BY <1>1, NoneOpen
  <2>2. issued <= last /\ last \in 0..issued /\ issued \in Nat
    BY <2>1, Known DEF Order, Lag
  <2>3. issued = last
    BY <2>2
  <2>4. CASE issued = 0
    BY <2>4
  <2>5. CASE issued # 0
    BY <2>2, <2>3, <2>5 DEF Order, Reached
  <2>6. QED BY <2>4, <2>5
<1>7. Reached'
  BY <1>1, <1>3, <1>6 DEF Order, Reached
<1>8. Open' = Open /\ NumberedFrames' /\ ToCome' <= ToCome /\ ~RecordPublished
  BY <1>2, QuietStackKeeps
<1>9. LedsComing' \in Nat /\ LedsComing' <= LedsComing
  BY <1>3 DEF Order, Room
<1>10. QED BY <1>1, <1>5, <1>7, <1>8, <1>9, SameKeeps

LEMMA ConnectingInOrder == ASSUME IInv, Order, Connecting PROVE Kept
<1>0. issued \in Nat
  BY Known
<1>1. CASE NetConnectFails
  <2>1. Destroy /\ stack = <<>> /\ stack' = <<>> /\ UNCHANGED hist /\ leds' = leds
    BY <1>1 DEF NetConnectFails, ConnectCalled, ConnectFails, env
  <2>2. QED BY <2>1, DestroyQuiet, QuietKeeps DEF QuietStack
<1>2. CASE YieldPending
  <2>1. UNCHANGED net /\ stack' = stack /\ UNCHANGED hist /\ leds' = leds
    BY <1>2 DEF YieldPending, client, env
  <2>2. QED BY <2>1, NetQuiet, QuietKeeps DEF QuietStack
<1>3. CASE SubscribeCall
  <2>1. stack = <<>> /\ UNCHANGED hist /\ leds' = leds
    BY <1>3 DEF SubscribeCall, env
  <2>2. \/ /\ Sent(Packet("subscribe", 0))
           /\ stack' = <<Frame("subscribe", clientState, 0)>>
        \/ UNCHANGED net /\ stack' = stack
    BY <1>3 DEF SubscribeCall, SendFails
  <2>3. QuietTo /\ QuietFrom
    BY <1>0, <2>2, SentQuiet, NetQuiet DEF OutTypes
  <2>4. QuietStack
    BY <2>1, <2>2 DEF QuietStack, Frame
  <2>5. QED BY <2>1, <2>3, <2>4, QuietKeeps
<1>4. CASE Resubscribe
  <2>1. TopOp = "reconnected" /\ UNCHANGED hist /\ leds' = leds
    BY <1>4 DEF Resubscribe, env
  <2>2. \/ /\ Sent(Packet("subscribe", 0)) /\ stack' = <<Frame("resubscribe", "idle", 0)>>
        \/ UNCHANGED net /\ stack' = <<>>
    BY <1>4 DEF Resubscribe, SendFails, ReconnectFails
  <2>3. QuietTo /\ QuietFrom
    BY <1>0, <2>2, SentQuiet, NetQuiet DEF OutTypes
  <2>4. QuietStack
    BY <2>1, <2>2 DEF QuietStack, Frame, Bases
  <2>5. QED BY <2>1, <2>3, <2>4, QuietKeeps
<1>5. QED BY <1>1, <1>2, <1>3, <1>4, NetConnectInOrder DEF Connecting

LEMMA KeepAliveInOrder == ASSUME IInv, Order, KeepAlive PROVE Kept
<1>0. issued \in Nat
  BY Known
<1>1. CASE KeepAliveNotDue \/ PingSent \/ PingFails \/ ReadTimesOut
  <2>1. /\ TopOp \in Bases \ {"publish"} /\ stack' = <<>> /\ UNCHANGED hist /\ leds' = leds
        /\ UNCHANGED net \/ Sent(Packet("pingreq", 0)) \/ Destroy
    BY <1>1 DEF KeepAliveNotDue, PingSent, PingFails, ReadTimesOut, YieldEnds,
                HandleDisconnect, Bases, env
  <2>2. QuietTo /\ QuietFrom
    BY <1>0, <2>1, SentQuiet, NetQuiet, DestroyQuiet DEF OutTypes
  <2>3. QuietStack
    BY <2>1 DEF QuietStack
  <2>4. QED BY <2>1, <2>2, <2>3, QuietKeeps
<1>2. CASE Disconnect
  <2>1. /\ stack' = stack /\ UNCHANGED hist /\ leds' = leds /\ (UNCHANGED net \/ Destroy)
    BY <1>2 DEF Disconnect, env
  <2>2. QED BY <2>1, NetQuiet, DestroyQuiet, QuietKeeps DEF QuietStack
<1>3. QED BY <1>1, <1>2 DEF KeepAlive

-----------------------------------------------------------------------------
(* Steps that publish, take an answer, give up or call the handler.          *)

\* A publish goes out, or into a link that is silently dead.
LEMMA PublishInOrder ==
  ASSUME IInv, Order, PublishSent, UNCHANGED <<last, givenUp, delivered>>
  PROVE  InOrder' /\ Reached' /\ LedsComing' = LedsComing /\ issued' = issued + 1
<1>1. /\ issued' = issued + 1 /\ UNCHANGED <<link, fromBroker>>
      /\ \/ link = "up" /\ toBroker' = Append(toBroker, Packet("publish", issued + 1))
         \/ link = "silent" /\ UNCHANGED toBroker
  BY DEF PublishSent, Sent
<1>2. /\ issued \in Nat /\ last \in 0..issued /\ delivered \subseteq 1..issued
      /\ Pubs \subseteq 1..issued /\ Acks \subseteq 0..issued
      /\ toBroker \in Seq(Packets(OutTypes))
  BY Known
<1>3. /\ Acks' = Acks /\ Rising(fromBroker, "puback")' /\ LedsComing' = LedsComing
  BY <1>1 DEF Order, InOrder, Acks, LedsComing, Rising
<1>4. CASE link = "silent" /\ UNCHANGED toBroker
  <2>1. Pubs' = Pubs /\ Rising(toBroker, "publish")' /\ link' # "up"
    BY <1>1, <1>4 DEF Order, InOrder, Pubs, Rising
  <2>2. InOrder'
    BY <1>3, <2>1 DEF Order, InOrder
  <2>3. Reached'
    BY <1>1, <1>3, <2>1 DEF Order, Reached
  <2>4. QED BY <1>1, <1>3, <2>2, <2>3
<1>5. CASE link = "up" /\ toBroker' = Append(toBroker, Packet("publish", issued + 1))
  <2>1. PICK S : S = Packets(OutTypes) \cup {Packet("publish", issued + 1)}
    OBVIOUS
  <2>2. PICK p : p = Packet("publish", issued + 1)
    OBVIOUS
  <2>3. p.type = "publish" /\ p.of = issued + 1 /\ p \in S
    BY <2>1, <2>2 DEF Packet
  <2>4. toBroker \in Seq(S) /\ \A x \in S : x.of \in Nat
    <3>1. \A x \in S : x \in Packets(OutTypes) \/ x = p
      BY <2>1, <2>2
    <3>2. \A x \in Packets(OutTypes) : x \in S /\ x.of \in Nat
      BY <2>1, Known
    <3>3. \A x \in S : x.of \in Nat
      BY <1>2, <2>3, <3>1, <3>2
    <3>4. toBroker \in Seq(S)
      BY <1>2, <3>2
    <3>5. QED BY <3>3, <3>4
  <2>5. PICK t : t = toBroker'
    OBVIOUS
  <2>6. Rising(toBroker, "publish") /\ \A m \in Numbered(toBroker, "publish") : m < p.of
    BY <1>2, <2>3 DEF Order, InOrder, Pubs
  <2>7. t = Append(toBroker, p)
    BY <1>5, <2>2, <2>5
  <2>8. /\ Rising(t, "publish") /\ Numbered(toBroker, "publish") \subseteq Numbered(t, "publish")
        /\ p.type = "publish" => p.of \in Numbered(t, "publish")
        /\ \A m \in Numbered(t, "publish") :
             m \in Numbered(toBroker, "publish") \/ (p.type = "publish" /\ m = p.of)
    BY <2>3, <2>4, <2>6, <2>7, LastAdded
  <2>9. Pubs' = Pubs \cup {issued + 1} /\ Rising(toBroker, "publish")'
    BY <2>3, <2>5, <2>8 DEF Pubs, Rising
  <2>10. InOrder'
    BY <1>1, <1>2, <1>3, <2>9 DEF Order, InOrder
  <2>11. 1..issued' \subseteq (1..issued) \cup {issued + 1}
    BY <1>1, <1>2
  <2>12. Reached'
    BY <1>1, <1>3, <1>5, <2>9, <2>11 DEF Order, Reached
  <2>13. QED BY <1>1, <1>3, <2>10, <2>12
<1>6. QED BY <1>1, <1>4, <1>5

LEMMA IssueKeeps ==
  ASSUME IInv, Order, PublishSent, UNCHANGED <<last, givenUp, delivered>>, leds' = leds,
         Open' = Open + 1, NumberedFrames', ToCome' = 0, ~RecordPublished,
         Open + LedsComing <= leds
  PROVE  Kept
<1>1. InOrder' /\ Reached' /\ LedsComing' = LedsComing /\ issued' = issued + 1
  BY PublishInOrder
<1>2. /\ LedsComing \in Nat /\ Open \in Nat /\ leds \in Nat /\ leds <= Leds /\ Leds \in Nat
      /\ issued \in Nat /\ last \in Nat /\ givenUp \in Nat
  BY Known DEF Order, Room
<1>3. Room'
  BY <1>1, <1>2 DEF Room
<1>4. Lag'
  BY <1>1, <1>2 DEF Order, Lag
<1>5. Open < 1 + Leds
  BY <1>2
<1>6. Pubacks!Issue
  BY <1>1, <1>5 DEF Pubacks!Issue, Open, PublishPlaces
<1>7. QED BY <1>1, <1>3, <1>4, <1>6 DEF Kept, Order, Pubacks!Next

LEMMA PublishCallInOrder == ASSUME IInv, Order, PublishCall PROVE Kept
<1>1. stack = <<>> /\ UNCHANGED <<last, givenUp, delivered>> /\ leds' = leds
  BY DEF PublishCall, env
<1>2. CASE PublishSent /\ stack' = <<Frame("publish", "idle", issued + 1)>>
  <2>1. Open = 0 /\ LedsComing <= leds /\ LedsComing \in Nat
    BY <1>1, NoneOpen DEF Order, Room
  <2>2. PICK f : f = Frame("publish", "idle", issued + 1)
    OBVIOUS
  <2>3. f.op = "publish" /\ f.of = issued + 1 /\ issued \in Nat
    BY <2>2, Known DEF Frame
  <2>4. PICK t : t = stack'
    OBVIOUS
  <2>5. Cardinality(PublishPlaces(t)) = 1 /\ NumberedIn(t) /\ t # <<>> /\ Head(t) = f
    BY <1>2, <2>2, <2>3, <2>4, OneFrame
  <2>6. Open' = Open + 1 /\ NumberedFrames' /\ ToCome' = 0
    BY <2>1, <2>3, <2>4, <2>5 DEF Open, NumberedFrames, ToCome, TopOp, Top
  <2>7. ~RecordPublished
    BY <1>1 DEF RecordPublished, TopOp
  <2>8. Open + LedsComing <= leds
    BY <2>1
  <2>9. QED BY <1>1, <1>2, <2>6, <2>7, <2>8, IssueKeeps
<1>3. CASE UNCHANGED net /\ stack' = stack /\ issued' = issued
  BY <1>1, <1>3, NetQuiet, QuietKeeps DEF QuietStack, hist
<1>4. QED BY <1>2, <1>3 DEF PublishCall, SendFails

LEMMA CallbackPublishInOrder == ASSUME IInv, Order, CallbackPublish PROVE Kept
<1>1. TopOp = "callback" /\ UNCHANGED <<last, givenUp, delivered>> /\ leds' = leds
  BY DEF CallbackPublish, env
<1>2. /\ stack # <<>> /\ Top = Head(stack) /\ Top \in Frames(issued) /\ Top.op = "callback"
      /\ issued \in Nat /\ stack \in Seq(Frames(issued))
  BY <1>1, InCall, Known DEF Handler
<1>3. PICK b : b = [Top EXCEPT !.op = "deliver"]
  OBVIOUS
<1>4. b.op = "deliver" /\ b \in Frames(issued)
  BY <1>2, <1>3 DEF Frames, Handler
<1>5. PICK u : u = Tail(stack)
  OBVIOUS
<1>6. PICK s : s = <<b>> \o u
  OBVIOUS
<1>7. u \in Seq(Frames(issued))
  BY <1>2, <1>5
<1>8. /\ Cardinality(PublishPlaces(u)) = Open /\ Open \in Nat /\ NumberedIn(u)
  <2>1. /\ Cardinality(PublishPlaces(stack)) \in Nat /\ Cardinality(PublishPlaces(u)) \in Nat
        /\ Cardinality(PublishPlaces(stack))
             = Cardinality(PublishPlaces(u)) + (IF Head(stack).op = "publish" THEN 1 ELSE 0)
        /\ NumberedIn(stack) => NumberedIn(u)
    BY <1>2, <1>5, FramePopped
  <2>2. QED BY <1>2, <2>1 DEF Open, Order, NumberedFrames
<1>9. Cardinality(PublishPlaces(s)) = Open /\ NumberedIn(s) /\ Head(s) = b /\ s # <<>>
  <2>1. /\ Cardinality(PublishPlaces(s))
             = Cardinality(PublishPlaces(u)) + (IF b.op = "publish" THEN 1 ELSE 0)
        /\ NumberedIn(s) <=> NumberedIn(u) /\ (b.op = "publish" => b.of >= 1)
        /\ Head(s) = b /\ s # <<>>
    BY <1>4, <1>6, <1>7, FramePushed
  <2>2. QED BY <1>4, <1>8, <2>1
<1>10. ~RecordPublished
  BY <1>1 DEF RecordPublished
<1>11. /\ LedsComing \in Nat /\ Open + LedsComing + 1 <= leds + 1 /\ leds \in Nat
  BY <1>1, Known DEF Order, Room, ToCome
<1>12. CASE PublishSent /\ stack' = <<Frame("publish", "cb", issued + 1), b>> \o Tail(stack)
  <2>1. PICK f : f = Frame("publish", "cb", issued + 1)
    OBVIOUS
  <2>2. f.op = "publish" /\ f.of = issued + 1 /\ f \in Frames(issued + 1)
    BY <1>2, <2>1 DEF Frame, Frames, Bases, States, Connected
  <2>3. Frames(issued) \subseteq Frames(issued + 1)
    BY <1>2 DEF Frames
  <2>4. s \in Seq(Frames(issued + 1)) /\ stack' = <<f>> \o s
    <3>1. b \in Frames(issued + 1) /\ u \in Seq(Frames(issued + 1))
      BY <1>4, <1>7, <2>3
    <3>2. <<f, b>> \o u = <<f>> \o (<<b>> \o u) /\ <<b>> \o u \in Seq(Frames(issued + 1))
      BY <2>2, <3>1
    <3>3. QED BY <1>5, <1>6, <1>12, <2>1, <3>2
  <2>5. PICK t : t = stack'
    OBVIOUS
  <2>6. /\ Cardinality(PublishPlaces(t))
             = Cardinality(PublishPlaces(s)) + (IF f.op = "publish" THEN 1 ELSE 0)
        /\ NumberedIn(t) <=> NumberedIn(s) /\ (f.op = "publish" => f.of >= 1)
        /\ Head(t) = f /\ t # <<>>
    <3>1. t = <<f>> \o s
      BY <2>4, <2>5
    <3>2. s \in Seq(Frames(issued + 1)) /\ f \in Frames(issued + 1)
      BY <2>2, <2>4
    <3>3. QED BY <3>1, <3>2, FramePushed
  <2>7. Open' = Open + 1 /\ NumberedFrames' /\ ToCome' = 0
    BY <1>2, <1>9, <2>2, <2>5, <2>6 DEF Open, NumberedFrames, ToCome, TopOp, Top
  <2>8. Open + LedsComing <= leds
    BY <1>8, <1>11
  <2>9. QED BY <1>1, <1>10, <1>12, <2>7, <2>8, IssueKeeps
<1>13. CASE UNCHANGED net /\ stack' = <<b>> \o Tail(stack) /\ issued' = issued
  <2>1. InOrder' /\ Reached' /\ LedsComing' \in Nat /\ LedsComing' <= LedsComing
    BY <1>1, <1>13, NetQuiet, QuietNetKeeps DEF QuietNet, hist
  <2>2. stack' = s
    BY <1>5, <1>6, <1>13
  <2>3. Open' = Open /\ NumberedFrames' /\ ToCome' = 0
    BY <1>4, <1>9, <2>2 DEF Open, NumberedFrames, ToCome, TopOp, Top
  <2>4. ToCome' <= ToCome
    BY <2>3 DEF ToCome
  <2>5. QED BY <1>1, <1>10, <1>13, <2>1, <2>3, <2>4, SameKeeps
<1>14. QED BY <1>3, <1>12, <1>13 DEF CallbackPublish, SendFails

\* What lies below a handler is the call that read the message.
LEMMA DeliverReturnsInOrder == ASSUME IInv, Order, DeliverReturns PROVE Kept
<1>1. TopOp = "deliver" /\ stack' = Tail(stack) /\ UNCHANGED <<net, env, hist>>
  BY DEF DeliverReturns
<1>2. /\ stack # <<>> /\ Nested(stack, issued) /\ Head(stack).op = "deliver" /\ issued \in Nat
      /\ stack \in Seq(Frames(issued)) /\ Head(stack).op \in Handler
  BY <1>1, InCall, Known DEF Handler
<1>3. PICK t : t = Tail(stack)
  OBVIOUS
<1>4. /\ Cardinality(PublishPlaces(stack)) \in Nat /\ Cardinality(PublishPlaces(t)) \in Nat
      /\ Cardinality(PublishPlaces(stack))
           = Cardinality(PublishPlaces(t)) + (IF Head(stack).op = "publish" THEN 1 ELSE 0)
      /\ NumberedIn(stack) => NumberedIn(t)
  BY <1>2, <1>3, FramePopped
<1>5. t # <<>> /\ Head(t).op \in Bases
  <2>1. PICK p \in Nat : p = Publishes(stack)
    BY <1>1, InCall
  <2>2. t = Pop(stack) /\ Head(stack).op \in Handler \cup {"publish"}
    BY <1>2, <1>3 DEF Pop
  <2>3. QED BY <1>2, <2>1, <2>2, NestedPop
<1>6. Open' = Open /\ NumberedFrames' /\ ToCome' = 0
  BY <1>1, <1>2, <1>3, <1>4, <1>5
     DEF Open, Order, NumberedFrames, ToCome, TopOp, Top, Bases
<1>7. ToCome' <= ToCome /\ ~RecordPublished
  BY <1>1, <1>6 DEF ToCome, RecordPublished
<1>8. /\ InOrder' /\ Reached' /\ LedsComing' \in Nat /\ LedsComing' <= LedsComing
      /\ leds' = leds /\ UNCHANGED <<issued, last, givenUp>>
  BY <1>1, NetQuiet, QuietNetKeeps DEF QuietNet, hist, env
<1>9. QED BY <1>6, <1>7, <1>8, SameKeeps

LEMMA PublishingInOrder == ASSUME IInv, Order, Publishing PROVE Kept
<1>1. CASE ReceiveRecord \/ ReceiveNothing
  <2>1. UNCHANGED net /\ stack' = stack /\ UNCHANGED hist /\ leds' = leds
    BY <1>1 DEF ReceiveRecord, ReceiveNothing, client, env
  <2>2. QED BY <2>1, NetQuiet, QuietKeeps DEF QuietStack
<1>2. QED
  BY <1>1, PublishCallInOrder, CallbackPublishInOrder, DeliverReturnsInOrder DEF Publishing

LEMMA PublishClosed ==
  ASSUME IInv, Order, TopOp = "publish", stack' = Tail(stack)
  PROVE  /\ \E o \in Nat : Open = o + 1 /\ Open' = o
         /\ NumberedFrames' /\ ToCome' \in 0..1 /\ Top.of \in 1..issued
         /\ stack' = <<>> => Open' = 0
<1>1. /\ stack # <<>> /\ Top = Head(stack) /\ Top.op = "publish" /\ Top \in Frames(issued)
      /\ stack \in Seq(Frames(issued)) /\ issued \in Nat
  BY InCall, Known
<1>2. PICK t : t = Tail(stack)
  OBVIOUS
<1>3. /\ Cardinality(PublishPlaces(stack)) \in Nat /\ Cardinality(PublishPlaces(t)) \in Nat
      /\ Cardinality(PublishPlaces(stack))
           = Cardinality(PublishPlaces(t)) + (IF Head(stack).op = "publish" THEN 1 ELSE 0)
      /\ NumberedIn(stack) <=>
           NumberedIn(t) /\ (Head(stack).op = "publish" => Head(stack).of >= 1)
  BY <1>1, <1>2, FramePopped
<1>4. /\ \E o \in Nat : Open = o + 1 /\ Open' = o
      /\ NumberedFrames' /\ Top.of >= 1
  <2>1. PICK o \in Nat : o = Cardinality(PublishPlaces(t))
    BY <1>3
  <2>2. Cardinality(PublishPlaces(stack)) = o + 1
    BY <1>1, <1>3, <2>1
  <2>3. stack' = t
    BY <1>2
  <2>4. Open = o + 1 /\ Open' = o
    BY <2>1, <2>2, <2>3 DEF Open
  <2>5. NumberedFrames' /\ Top.of >= 1
    BY <1>1, <1>3, <2>3 DEF Order, NumberedFrames
  <2>6. QED BY <2>4, <2>5
<1>5. Top.of \in 0..issued
  BY <1>1 DEF Frames
<1>6. ToCome' \in 0..1
  BY DEF ToCome
<1>7. stack' = <<>> => Open' = 0
  BY NoFrames DEF Open
<1>8. QED BY <1>1, <1>4, <1>5, <1>6, <1>7

\* One publish fewer leaves room for what the handler may come to.
LEMMA RoomLess ==
  ASSUME IInv, Order, NEW o \in Nat, Open = o + 1, Open' = o, ToCome' \in 0..1,
         LedsComing' \in Nat, LedsComing' <= LedsComing, leds' = leds
  PROVE  Room'
<1>1. ToCome \in 0..1 /\ leds \in Nat /\ LedsComing \in Nat
  BY Known DEF ToCome, Order, Room
<1>2. PICK l \in Nat, m \in Nat, t \in 0..1, u \in 0..1, k \in Nat :
        l = LedsComing /\ m = LedsComing' /\ t = ToCome /\ u = ToCome' /\ k = leds
  BY <1>1
<1>3. m <= l /\ l <= k /\ (o + 1) + l + t <= k + 1
  BY <1>2 DEF Order, Room
<1>4. m <= k /\ o + m + u <= k + 1
  BY <1>3
<1>5. LedsComing' <= leds' /\ Open' + LedsComing' + ToCome' <= leds' + 1 /\ Open' \in Nat
  BY <1>2, <1>4
<1>6. QED BY <1>5 DEF Room

\* A PUBACK is taken: the oldest under way, which may not be that of this publish.
LEMMA TakePubackInOrder == ASSUME IInv, Order, TakePuback PROVE Kept
<1>1. /\ TopOp = "publish" /\ Incoming = "puback" /\ Consume
      /\ last' = Head(fromBroker).of /\ stack' = Tail(stack)
      /\ UNCHANGED <<issued, givenUp, delivered>> /\ leds' = leds
  BY DEF TakePuback, Expects, Ack, PublishReturns, env
<1>2. /\ fromBroker # <<>> /\ Head(fromBroker).type = "puback"
      /\ fromBroker' = Tail(fromBroker) /\ UNCHANGED <<link, toBroker>>
  BY <1>1 DEF Incoming, Consume
<1>0. /\ NumberedFrames' /\ ToCome' \in 0..1 /\ Top.of \in 1..issued
      /\ stack' = <<>> => Open' = 0
  BY <1>1, PublishClosed
<1>3. PICK o \in Nat : Open = o + 1 /\ Open' = o
  BY <1>1, PublishClosed
<1>4. /\ issued \in Nat /\ last \in 0..issued /\ givenUp \in Nat /\ leds \in Nat
      /\ Acks \subseteq 0..issued /\ fromBroker \in Seq(Packets(InTypes))
      /\ \A x \in Packets(InTypes) : x.of \in Nat
  BY Known
<1>5. PICK t : t = fromBroker'
  OBVIOUS
<1>6. PICK n : n = Head(fromBroker).of
  OBVIOUS
<1>7. Rising(fromBroker, "puback")
  BY DEF Order, InOrder
<1>8. /\ Rising(t, "puback") /\ Numbered(t, "puback") \subseteq Acks
      /\ n \in Acks /\ \A m \in Numbered(t, "puback") : n < m
  BY <1>2, <1>4, <1>5, <1>6, <1>7, FirstRemoved DEF Acks
<1>9. Rising(fromBroker, "puback")' /\ Acks' \subseteq Acks /\ \A m \in Acks' : n < m
  BY <1>5, <1>8 DEF Acks, Rising
<1>10. Rising(toBroker, "publish")' /\ Pubs' = Pubs
  BY <1>2 DEF Order, InOrder, Rising, Pubs
<1>11. last < n /\ n \in 0..issued /\ n \in delivered /\ last' = n
  BY <1>1, <1>4, <1>6, <1>8 DEF Order, InOrder, Reached
<1>12. InOrder'
  BY <1>8, <1>9, <1>10, <1>11 DEF Order, InOrder
<1>13. Reached'
  BY <1>1, <1>2, <1>9, <1>10, <1>11 DEF Order, Reached
<1>14. LedsComing' \in Nat /\ LedsComing' <= LedsComing
  <2>1. QuietFrom
    BY <1>2 DEF QuietFrom
  <2>2. QED BY <2>1, QuietFromKeeps
<1>15. Room'
  BY <1>0, <1>1, <1>3, <1>14, RoomLess
<1>16. Lag'
  <2>1. issued <= last + givenUp + (o + 1)
    BY <1>3 DEF Order, Lag
  <2>2. issued <= n + givenUp + o
    BY <1>4, <1>11, <2>1
  <2>3. QED BY <1>1, <1>3, <1>11, <2>2 DEF Lag
<1>17. Pubacks!Answer
  <2>1. o + 1 > 0 /\ o = (o + 1) - 1 /\ n \in (last+1)..issued
    BY <1>4, <1>11
  <2>2. Open > 0 /\ Open' = Open - 1 /\ last' \in (last+1)..issued
    BY <1>3, <1>11, <2>1
  <2>3. QED BY <1>1, <2>2 DEF Pubacks!Answer, Open, PublishPlaces
<1>18. ASSUME RecordPublished, givenUp = 0 PROVE Top.of \in delivered
  <2>1. Open' = 0
    BY <1>0, <1>18 DEF RecordPublished
  <2>2. issued <= n
    <3>1. issued <= n + 0 + 0
      BY <1>1, <1>11, <1>16, <1>18, <2>1 DEF Lag
    <3>2. QED BY <1>4, <1>11, <3>1
  <2>3. n = issued
    BY <1>4, <1>11, <2>2
  <2>4. 1..issued \subseteq delivered
    BY <1>11, <1>18, <2>3 DEF Order, Reached
  <2>5. QED BY <1>0, <2>4
<1>19. QED
  BY <1>0, <1>12, <1>13, <1>15, <1>16, <1>17, <1>18 DEF Kept, Order, Pubacks!Next

LEMMA PublishGivenUpInOrder ==
  ASSUME IInv, Order, TopOp = "publish", NEW code \in {"timeout", "failure"},
         PublishReturns(code), givenUp' = givenUp + 1, UNCHANGED net, leds' = leds,
         UNCHANGED <<issued, last, delivered>>
  PROVE  Kept
<1>1. stack' = Tail(stack)
  BY DEF PublishReturns
<1>0. NumberedFrames' /\ ToCome' \in 0..1
  BY <1>1, PublishClosed
<1>2. PICK o \in Nat : Open = o + 1 /\ Open' = o
  BY <1>1, PublishClosed
<1>3. issued \in Nat /\ last \in 0..issued /\ givenUp \in Nat /\ leds \in Nat
  BY Known
<1>4. Acks' = Acks /\ Pubs' = Pubs /\ LedsComing' = LedsComing
  BY DEF net, Acks, Pubs, LedsComing
<1>5. InOrder'
  BY <1>4 DEF Order, InOrder, net, Rising
<1>6. Reached'
  BY <1>3, <1>4 DEF Order, Reached
<1>7. Room'
  <2>1. LedsComing' \in Nat /\ LedsComing' <= LedsComing
    BY <1>4 DEF Order, Room
  <2>2. QED BY <1>0, <1>2, <2>1, RoomLess
<1>8. Lag'
  <2>1. issued <= last + givenUp + (o + 1)
    BY <1>2 DEF Order, Lag
  <2>2. issued <= last + (givenUp + 1) + o
    BY <1>3, <2>1
  <2>3. QED BY <1>2, <2>2 DEF Lag
<1>9. Pubacks!GiveUp
  <2>1. o + 1 > 0 /\ o = (o + 1) - 1
    OBVIOUS
  <2>2. Open > 0 /\ Open' = Open - 1
    BY <1>2, <2>1
  <2>3. QED BY <2>2 DEF Pubacks!GiveUp, Open, PublishPlaces
<1>10. ~RecordPublished
  BY DEF PublishReturns, RecordPublished
<1>11. QED
  BY <1>0, <1>5, <1>6, <1>7, <1>8, <1>9, <1>10 DEF Kept, Order, Pubacks!Next

LEMMA WaitFailsInOrder == ASSUME IInv, Order, WaitFails PROVE Kept
<1>1. UNCHANGED <<issued, last, delivered>> /\ leds' = leds
  BY DEF WaitFails, env
<1>2. PICK code \in {"timeout", "failure"} :
        \/ TopOp = "connect" /\ ConnectFails /\ givenUp' = givenUp
        \/ TopOp = "subscribe" /\ stack' = <<>> /\ UNCHANGED net /\ givenUp' = givenUp
        \/ TopOp = "resubscribe" /\ ReconnectFails(code) /\ UNCHANGED net /\ givenUp' = givenUp
        \/ /\ TopOp = "publish" /\ PublishReturns(code) /\ givenUp' = givenUp + 1
           /\ UNCHANGED net
  BY DEF WaitFails
<1>3. CASE TopOp = "publish" /\ PublishReturns(code) /\ givenUp' = givenUp + 1 /\ UNCHANGED net
  BY <1>1, <1>3, PublishGivenUpInOrder
<1>4. CASE ~(TopOp = "publish" /\ PublishReturns(code) /\ givenUp' = givenUp + 1
             /\ UNCHANGED net)
  <2>1. /\ TopOp \in Bases \ {"publish"} /\ stack' = <<>> /\ givenUp' = givenUp
        /\ UNCHANGED net \/ Destroy
    BY <1>2, <1>4 DEF ConnectFails, ReconnectFails, Bases
  <2>2. QED
    BY <1>1, <2>1, NetQuiet, DestroyQuiet, QuietKeeps DEF QuietStack, hist
<1>5. QED BY <1>3, <1>4

\* The stack that a read leaves has the same publishes.
LEMMA AfterReadOpen ==
  ASSUME IInv, Order, TopOp \in Reading
  PROVE  /\ AfterRead \in Seq(Frames(issued)) /\ NumberedIn(AfterRead)
         /\ Cardinality(PublishPlaces(AfterRead)) = Open
         /\ AfterRead = stack
            \/ /\ TopOp = "yield"
               /\ \E f : f.op \notin {"publish", "callback"} /\ AfterRead = <<f>>
<1>1. Nested(AfterRead, issued)
  BY ReadDone
<1>2. TopOp # "none" /\ TopOp \in Bases
  BY DEF Reading, Waiting, Ack, Bases
<1>3. stack # <<>> /\ Top = Head(stack) /\ Top.op = TopOp /\ Top \in Frames(issued)
  BY <1>2, InCall
<1>4. CASE TopOp = "yield"
  <2>1. PICK f : f = [Top EXCEPT !.op = "keepAlive"]
    OBVIOUS
  <2>2. f.op = "keepAlive" /\ AfterRead = <<f>>
    BY <1>3, <1>4, <2>1 DEF Frames, AfterRead
  <2>3. Open = 0
    BY <1>2, <1>4, NoneOpen DEF Bases
  <2>4. PICK t : t = AfterRead
    OBVIOUS
  <2>5. Cardinality(PublishPlaces(t)) = 0 /\ NumberedIn(t)
    BY <2>2, <2>4, OneFrame
  <2>6. QED BY <1>1, <1>4, <2>2, <2>3, <2>4, <2>5 DEF Nested
<1>5. CASE TopOp # "yield"
  <2>1. AfterRead = stack
    BY <1>3, <1>5 DEF AfterRead
  <2>2. QED BY <1>1, <2>1 DEF Nested, Open, Order, NumberedFrames
<1>6. QED BY <1>4, <1>5

LEMMA DeliverInOrder == ASSUME IInv, Order, Deliver PROVE Kept
<1>1. /\ TopOp \in Reading /\ Incoming = "led" /\ Consume /\ UNCHANGED hist /\ leds' = leds
      /\ stack' = <<Frame("callback", clientState, 0)>> \o AfterRead
  BY DEF Deliver, env
<1>2. InOrder' /\ Reached' /\ LedsComing' \in Nat
  BY <1>1, ConsumeQuiet, QuietNetKeeps DEF QuietNet
<1>3. LedsComing = LedsComing' + 1
  <2>1. fromBroker # <<>> /\ Head(fromBroker).type = "led" /\ fromBroker' = Tail(fromBroker)
    BY <1>1 DEF Incoming, Consume
  <2>2. PICK t : t = fromBroker'
    OBVIOUS
  <2>3. fromBroker \in Seq(Packets(InTypes))
    BY Known
  <2>4. Cardinality(LedPlaces(fromBroker))
           = Cardinality(LedPlaces(t)) + (IF Head(fromBroker).type = "led" THEN 1 ELSE 0)
    BY <2>1, <2>2, <2>3, LedRemoved
  <2>5. QED BY <2>1, <2>2, <2>4 DEF LedsComing
<1>4. /\ AfterRead \in Seq(Frames(issued)) /\ NumberedIn(AfterRead)
      /\ Cardinality(PublishPlaces(AfterRead)) = Open
  BY <1>1, AfterReadOpen
<1>5. PICK f : f = Frame("callback", clientState, 0)
  OBVIOUS
<1>6. PICK s, t : s = AfterRead /\ t = stack'
  OBVIOUS
<1>7. f.op = "callback" /\ f \in Frames(issued)
  <2>1. clientState \in States
    <3>1. clientState = StateOf(TopOp) /\ TopOp \in Bases
      BY <1>1, InCall DEF Reading, Waiting, Ack, Bases
    <3>2. QED BY <3>1, StatesOfOps DEF States
  <2>2. QED BY <1>5, <2>1, Known DEF Frame, Frames, Handler
<1>8. /\ Cardinality(PublishPlaces(t))
           = Cardinality(PublishPlaces(s)) + (IF f.op = "publish" THEN 1 ELSE 0)
      /\ NumberedIn(t) <=> NumberedIn(s) /\ (f.op = "publish" => f.of >= 1)
      /\ Head(t) = f /\ t # <<>>
  <2>1. s \in Seq(Frames(issued)) /\ t = <<f>> \o s
    BY <1>1, <1>4, <1>5, <1>6
  <2>2. QED BY <1>7, <2>1, FramePushed
<1>9. Open \in Nat /\ LedsComing \in Nat /\ leds \in Nat /\ Open + LedsComing <= leds + 1
      /\ LedsComing <= leds
  <2>1. ToCome \in 0..1
    BY DEF ToCome
  <2>2. QED BY <2>1, Known DEF Order, Room
<1>10. Open' = Open /\ NumberedFrames' /\ ToCome' = 1
  BY <1>4, <1>6, <1>7, <1>8, <1>9 DEF Open, NumberedFrames, ToCome, TopOp, Top
<1>11. Room'
  <2>1. PICK l \in Nat, o \in Nat, k \in Nat : l = LedsComing' /\ o = Open /\ k = leds
    BY <1>2, <1>9
  <2>2. o + (l + 1) <= k + 1 /\ l + 1 <= k
    BY <1>3, <1>9, <2>1
  <2>3. l <= k /\ o + l + 1 <= k + 1
    BY <2>2
  <2>4. LedsComing' <= leds' /\ Open' + LedsComing' + ToCome' <= leds' + 1 /\ Open' \in Nat
    BY <1>1, <1>10, <2>1, <2>3
  <2>5. QED BY <1>2, <2>4 DEF Room
<1>12. Lag' /\ UNCHANGED Pubacks!vars
  BY <1>1, <1>10 DEF Order, Lag, hist, Pubacks!vars, Open, PublishPlaces
<1>13. ~RecordPublished
  BY <1>6, <1>8 DEF RecordPublished
<1>14. QED BY <1>2, <1>10, <1>11, <1>12, <1>13 DEF Kept, Order

LEMMA ReadingInOrder == ASSUME IInv, Order, ReadingStep PROVE Kept
<1>1. CASE YieldCall
  <2>1. /\ UNCHANGED net /\ stack = <<>> /\ stack' = <<Frame("yield", "idle", 0)>>
        /\ UNCHANGED hist /\ leds' = leds
    BY <1>1 DEF YieldCall, env
  <2>2. QuietStack
    BY <2>1 DEF QuietStack, Frame
  <2>3. QED BY <2>1, <2>2, NetQuiet, QuietKeeps
<1>2. CASE TakeConnack
  <2>1. /\ TopOp = "connect" /\ Incoming = "connack" /\ Consume /\ UNCHANGED hist
        /\ leds' = leds /\ stack' \in {<<>>, <<Frame("reconnected", "idle", 0)>>}
    BY <1>2 DEF TakeConnack, Expects, Ack, env
  <2>2. QuietStack
    BY <2>1 DEF QuietStack, Frame, Bases
  <2>3. QED BY <2>1, <2>2, ConsumeQuiet, QuietKeeps
<1>3. CASE TakeRefusal
  <2>1. /\ TopOp = "connect" /\ Destroy /\ stack' = <<>> /\ UNCHANGED hist /\ leds' = leds
    BY <1>3 DEF TakeRefusal, ConnectFails, env
  <2>2. QuietStack
    BY <2>1 DEF QuietStack, Bases
  <2>3. QED BY <2>1, <2>2, DestroyQuiet, QuietKeeps
<1>4. CASE TakeSuback
  <2>1. /\ TopOp \in Bases \ {"publish"} /\ Incoming = "suback" /\ Consume /\ stack' = <<>>
        /\ UNCHANGED hist /\ leds' = leds
    BY <1>4 DEF TakeSuback, Expects, Ack, Bases, env
  <2>2. QuietStack
    BY <2>1 DEF QuietStack
  <2>3. QED BY <2>1, <2>2, ConsumeQuiet, QuietKeeps
<1>5. CASE SkipPacket \/ ReadNothing \/ StalePacket
  <2>1. /\ TopOp \in Reading /\ stack' = AfterRead /\ UNCHANGED hist /\ leds' = leds
    BY <1>5 DEF SkipPacket, ReadNothing, StalePacket, Reading, env
  <2>2. QuietTo /\ QuietFrom
    <3>1. CASE SkipPacket
      <4>1. Consume /\ Incoming # "nothing"
        BY <3>1 DEF SkipPacket, AckTypes
      <4>2. QED BY <4>1, ConsumeQuiet
    <3>2. CASE ReadNothing \/ StalePacket
      <4>1. UNCHANGED net
        BY <3>2 DEF ReadNothing, StalePacket
      <4>2. QED BY <4>1, NetQuiet
    <3>3. QED BY <1>5, <3>1, <3>2
  <2>3. QuietStack
    BY <2>1, AfterReadOpen DEF QuietStack, Bases
  <2>4. QED BY <2>1, <2>2, <2>3, QuietKeeps
<1>6. CASE YieldReadFails
  <2>1. TopOp = "yield" /\ stack' = <<>> /\ UNCHANGED hist /\ leds' = leds
    BY <1>6 DEF YieldReadFails, YieldEnds, env
  <2>2. QuietTo /\ QuietFrom
    <3>1. CASE Incoming # "nothing" /\ Consume
      BY <3>1, ConsumeQuiet
    <3>2. CASE UNCHANGED net
      BY <3>2, NetQuiet
    <3>3. QED BY <1>6, <3>1, <3>2 DEF YieldReadFails
  <2>3. QuietStack
    BY <2>1 DEF QuietStack, Bases
  <2>4. QED BY <2>1, <2>2, <2>3, QuietKeeps
<1>7. QED
  BY <1>1, <1>2, <1>3, <1>4, <1>5, <1>6, TakePubackInOrder, DeliverInOrder, WaitFailsInOrder
     DEF ReadingStep
-----------------------------------------------------------------------------
(* The world, and the whole.                                                 *)

\* The client did nothing.
LEMMA ClientRests ==
  ASSUME IInv, Order, stack' = stack, issued' = issued
  PROVE  /\ Open' = Open /\ NumberedFrames' /\ ToCome' = ToCome /\ ~RecordPublished
<1>1. QuietStack
  BY DEF QuietStack
<1>2. Open' = Open /\ NumberedFrames' /\ ~RecordPublished
  BY <1>1, QuietStackKeeps
<1>3. QED BY <1>2 DEF ToCome, TopOp, Top

\* What the broker receives it has, and what it acknowledges comes after what it
\* acknowledged before.
LEMMA PublishAnswered ==
  ASSUME IInv, Order, link = "up", toBroker # <<>>, Head(toBroker).type = "publish",
         toBroker' = Tail(toBroker),
         fromBroker' = Append(fromBroker, Packet("puback", Head(toBroker).of)),
         delivered' = delivered \cup {Head(toBroker).of},
         UNCHANGED <<issued, last, givenUp, link>>
  PROVE  InOrder' /\ Reached'
<1>1. /\ issued \in Nat /\ last \in 0..issued
      /\ Pubs \subseteq 1..issued /\ Acks \subseteq 0..issued
      /\ toBroker \in Seq(Packets(OutTypes)) /\ fromBroker \in Seq(Packets(InTypes))
      /\ \A x \in Packets(OutTypes) \cup Packets(InTypes) : x.of \in Nat
      /\ delivered \subseteq 1..issued
  BY Known
<1>2. PICK n : n = Head(toBroker).of
  OBVIOUS
<1>3. PICK t, u : t = toBroker' /\ u = fromBroker'
  OBVIOUS
<1>4. Rising(toBroker, "publish") /\ Rising(fromBroker, "puback")
  BY DEF Order, InOrder
<1>5. /\ Rising(t, "publish") /\ Numbered(t, "publish") \subseteq Pubs
      /\ n \in Pubs /\ \A m \in Numbered(t, "publish") : n < m
      /\ \A m \in Pubs : m \in Numbered(t, "publish") \/ m = n
  <2>1. t = Tail(toBroker) /\ \A x \in Packets(OutTypes) : x.of \in Nat
    BY <1>1, <1>3
  <2>2. /\ Rising(t, "publish") /\ Numbered(t, "publish") \subseteq Numbered(toBroker, "publish")
        /\ Head(toBroker).type = "publish" =>
             /\ Head(toBroker).of \in Numbered(toBroker, "publish")
             /\ \A m \in Numbered(t, "publish") : Head(toBroker).of < m
             /\ \A m \in Numbered(toBroker, "publish") :
                  m \in Numbered(t, "publish") \/ m = Head(toBroker).of
    BY <1>1, <1>4, <2>1, FirstRemoved
  <2>3. QED BY <1>2, <2>2 DEF Pubs
<1>6. n \in 1..issued /\ last < n /\ \A a \in Acks : a < n
  BY <1>1, <1>5 DEF Order, InOrder
<1>7. PICK a : a = Packet("puback", n)
  OBVIOUS
<1>8. a \in Packets(InTypes) /\ a.type = "puback" /\ a.of = n
  <2>1. "puback" \in InTypes
    BY DEF InTypes, AckTypes
  <2>2. n \in 0..issued
    BY <1>6
  <2>3. QED BY <1>7, <2>1, <2>2 DEF Packet, Packets
<1>9. /\ Rising(u, "puback") /\ Acks \subseteq Numbered(u, "puback")
      /\ \A m \in Numbered(u, "puback") : m \in Acks \/ m = n
  <2>1. u = Append(fromBroker, a)
    BY <1>2, <1>3, <1>7
  <2>2. \A m \in Numbered(fromBroker, "puback") : m < a.of
    BY <1>6, <1>8 DEF Acks
  <2>3. \A x \in Packets(InTypes) : x.of \in Nat
    BY <1>1
  <2>4. /\ Rising(u, "puback") /\ Numbered(fromBroker, "puback") \subseteq Numbered(u, "puback")
        /\ \A m \in Numbered(u, "puback") :
             m \in Numbered(fromBroker, "puback") \/ (a.type = "puback" /\ m = a.of)
    BY <1>1, <1>4, <1>8, <2>1, <2>2, <2>3, LastAdded
  <2>5. QED BY <1>8, <2>4 DEF Acks
<1>10. /\ Pubs' = Numbered(t, "publish") /\ Acks' = Numbered(u, "puback")
       /\ Rising(toBroker, "publish")' /\ Rising(fromBroker, "puback")'
  BY <1>3, <1>5, <1>9 DEF Pubs, Acks, Rising
<1>11. InOrder'
  <2>1. \A m \in Acks' : last < m
    BY <1>6, <1>9, <1>10 DEF Order, InOrder
  <2>2. \A p \in Pubs' : p \in Pubs /\ n < p
    BY <1>5, <1>10
  <2>3. \A p \in Pubs' : last < p /\ \A m \in Acks' : m < p
    BY <1>9, <1>10, <2>2 DEF Order, InOrder
  <2>4. QED BY <1>10, <2>1, <2>3 DEF InOrder
<1>12. Reached'
  <2>1. delivered' = delivered \cup {n}
    BY <1>2
  <2>2. Acks' \subseteq delivered' /\ last' \in delivered' \cup {0}
    BY <1>9, <1>10, <2>1 DEF Order, Reached
  <2>3. ASSUME givenUp' = 0
        PROVE  /\ \A d \in delivered' : 1..d \subseteq delivered'
               /\ link' = "up" => 1..issued' \subseteq delivered' \cup Pubs'
    <3>1. givenUp = 0 /\ issued' = issued /\ link = "up"
      BY <2>3
    <3>2. \A k \in 1..issued : k \in delivered \/ k \in Pubs
      BY <3>1 DEF Order, Reached
    <3>3. \A k \in 1..issued : k \in delivered' \/ k \in Pubs'
      BY <1>5, <1>10, <2>1, <3>2
    <3>4. ASSUME NEW k \in 1..n PROVE k \in delivered'
      <4>1. k \in 1..issued /\ ~(n < k)
        BY <1>1, <1>6
      <4>2. k \in delivered \/ k = n
        BY <1>5, <3>2, <4>1
      <4>3. QED BY <2>1, <4>2
    <3>5. ASSUME NEW d \in delivered' PROVE 1..d \subseteq delivered'
      <4>1. CASE d = n
        BY <3>4, <4>1
      <4>2. CASE d \in delivered
        BY <2>1, <3>1, <4>2 DEF Order, Reached
      <4>3. QED BY <2>1, <4>1, <4>2
    <3>6. 1..issued' \subseteq delivered' \cup Pubs'
      BY <3>1, <3>3
    <3>7. QED BY <3>5, <3>6
  <2>4. QED BY <2>2, <2>3 DEF Reached
<1>13. QED BY <1>11, <1>12

\* Any other packet is answered with no acknowledgement of a publish.
LEMMA OtherAnswered ==
  ASSUME IInv, Order, link = "up", toBroker # <<>>, Head(toBroker).type # "publish",
         toBroker' = Tail(toBroker), NEW a \in Packets(InTypes), a.type # "puback",
         fromBroker' = Append(fromBroker, a),
         UNCHANGED <<issued, last, givenUp, link, delivered>>
  PROVE  InOrder' /\ Reached'
<1>1. /\ toBroker \in Seq(Packets(OutTypes)) /\ fromBroker \in Seq(Packets(InTypes))
      /\ \A x \in Packets(OutTypes) : x.of \in Nat
      /\ \A x \in Packets(InTypes) : x.of \in Nat
  BY Known
<1>2. PICK t, u : t = toBroker' /\ u = fromBroker'
  OBVIOUS
<1>3. Rising(toBroker, "publish") /\ Rising(fromBroker, "puback")
  BY DEF Order, InOrder
<1>4. Rising(t, "publish") /\ Numbered(t, "publish") = Pubs
  <2>1. t = Tail(toBroker)
    BY <1>2
  <2>2. /\ Rising(t, "publish") /\ Numbered(t, "publish") \subseteq Numbered(toBroker, "publish")
        /\ Head(toBroker).type # "publish" =>
             Numbered(toBroker, "publish") \subseteq Numbered(t, "publish")
    BY <1>1, <1>3, <2>1, FirstRemoved
  <2>3. QED BY <2>2 DEF Pubs
<1>5. Rising(u, "puback") /\ Numbered(u, "puback") = Acks
  <2>1. u = Append(fromBroker, a)
    BY <1>2
  <2>2. /\ Rising(u, "puback") /\ Numbered(fromBroker, "puback") \subseteq Numbered(u, "puback")
        /\ \A m \in Numbered(u, "puback") :
             m \in Numbered(fromBroker, "puback") \/ (a.type = "puback" /\ m = a.of)
    BY <1>1, <1>3, <2>1, LastAdded
  <2>3. QED BY <2>2 DEF Acks
<1>6. /\ Pubs' = Pubs /\ Acks' = Acks
      /\ Rising(toBroker, "publish")' /\ Rising(fromBroker, "puback")'
  BY <1>2, <1>4, <1>5 DEF Pubs, Acks, Rising
<1>7. InOrder'
  BY <1>6 DEF Order, InOrder
<1>8. Reached'
  BY <1>6 DEF Order, Reached
<1>9. QED BY <1>7, <1>8

LEMMA LedsAfter ==
  ASSUME IInv, NEW a, fromBroker' = Append(fromBroker, a)
  PROVE  /\ LedsComing \in Nat /\ LedsComing' \in Nat
         /\ a.type = "led" => LedsComing' = LedsComing + 1
         /\ a.type # "led" => LedsComing' = LedsComing
<1>1. fromBroker \in Seq(Packets(InTypes))
  BY Known
<1>2. PICK t : t = fromBroker'
  OBVIOUS
<1>3. /\ Cardinality(LedPlaces(fromBroker)) \in Nat /\ Cardinality(LedPlaces(t)) \in Nat
      /\ Cardinality(LedPlaces(t))
           = Cardinality(LedPlaces(fromBroker)) + (IF a.type = "led" THEN 1 ELSE 0)
  <2>1. t = Append(fromBroker, a)
    BY <1>2
  <2>2. QED BY <1>1, <2>1, LedAdded
<1>4. QED BY <1>2, <1>3 DEF LedsComing

LEMMA BrokerAnswersInOrder == ASSUME IInv, Order, BrokerAnswers PROVE Kept
<1>1. /\ link = "up" /\ toBroker # <<>> /\ toBroker' = Tail(toBroker)
      /\ stack' = stack /\ leds' = leds /\ UNCHANGED <<issued, last, givenUp, link>>
  BY DEF BrokerAnswers, client, env
<1>2. PICK p : p = Head(toBroker)
  OBVIOUS
<1>3. PICK a \in Answer(p) : fromBroker' = Append(fromBroker, a)
  BY <1>2 DEF BrokerAnswers
<1>4. delivered' = IF p.type = "publish" THEN delivered \cup {p.of} ELSE delivered
  BY <1>2 DEF BrokerAnswers
<1>5. p \in Packets(OutTypes) /\ p.type \in OutTypes /\ p.of \in 0..issued /\ issued \in Nat
  <2>1. toBroker \in Seq(Packets(OutTypes)) /\ issued \in Nat
    BY Known
  <2>2. p \in Packets(OutTypes)
    BY <1>1, <1>2, <2>1
  <2>3. QED BY <2>1, <2>2 DEF Packets
<1>6. /\ Open' = Open /\ NumberedFrames' /\ ToCome' = ToCome /\ ~RecordPublished
  BY <1>1, ClientRests
<1>7. InOrder' /\ Reached' /\ a.type # "led"
  <2>1. CASE p.type = "publish"
    <3>1. a = Packet("puback", p.of) /\ a.type = "puback"
      BY <1>3, <2>1 DEF Answer, Packet
    <3>2. delivered' = delivered \cup {p.of}
      BY <1>4, <2>1
    <3>3. QED BY <1>1, <1>2, <1>3, <2>1, <3>1, <3>2, PublishAnswered
  <2>2. CASE p.type # "publish"
    <3>1. a \in {Packet("connack", 0), Packet("refusal", 0), Packet("suback", 0),
                 Packet("pingresp", 0)}
      BY <1>3, <1>5, <2>2 DEF Answer, OutTypes
    <3>2. a \in Packets(InTypes) /\ a.type # "puback" /\ a.type # "led"
      <4>1. PICK type \in {"connack", "refusal", "suback", "pingresp"} : a = Packet(type, 0)
        BY <3>1
      <4>2. type \in InTypes /\ type # "puback" /\ type # "led"
        BY <4>1 DEF InTypes, AckTypes
      <4>3. 0 \in 0..issued
        BY <1>5
      <4>4. QED BY <4>1, <4>2, <4>3 DEF Packet, Packets
    <3>3. delivered' = delivered
      BY <1>4, <2>2
    <3>4. QED BY <1>1, <1>2, <1>3, <2>2, <3>2, <3>3, OtherAnswered
  <2>3. QED BY <2>1, <2>2
<1>8. LedsComing' = LedsComing /\ LedsComing \in Nat
  BY <1>3, <1>7, LedsAfter
<1>9. LedsComing' \in Nat /\ LedsComing' <= LedsComing /\ ToCome' <= ToCome
  BY <1>6, <1>8 DEF ToCome
<1>10. QED BY <1>1, <1>6, <1>7, <1>9, SameKeeps

LEMMA LedCommandInOrder == ASSUME IInv, Order, LedCommand PROVE Kept
<1>1. /\ leds' = leds + 1 /\ fromBroker' = Append(fromBroker, Packet("led", 0))
      /\ stack' = stack /\ UNCHANGED <<issued, last, givenUp, delivered, link, toBroker>>
  BY DEF LedCommand, client, hist
<1>2. PICK a : a = Packet("led", 0)
  OBVIOUS
<1>3. a.type = "led" /\ a \in Packets(InTypes)
  BY <1>2, Known DEF Packet, Packets, InTypes
<1>4. Pubs' = Pubs /\ Rising(toBroker, "publish")'
  BY <1>1 DEF Order, InOrder, Pubs, Rising
<1>5. Acks' = Acks /\ Rising(fromBroker, "puback")'
  <2>1. PICK t : t = fromBroker'
    OBVIOUS
  <2>2. t = Append(fromBroker, a) /\ Rising(fromBroker, "puback")
    BY <1>1, <1>2, <2>1 DEF Order, InOrder
  <2>3. fromBroker \in Seq(Packets(InTypes)) /\ \A x \in Packets(InTypes) : x.of \in Nat
    BY Known
  <2>4. /\ Rising(t, "puback") /\ Numbered(fromBroker, "puback") \subseteq Numbered(t, "puback")
        /\ \A m \in Numbered(t, "puback") :
             m \in Numbered(fromBroker, "puback") \/ (a.type = "puback" /\ m = a.of)
    BY <1>3, <2>2, <2>3, LastAdded
  <2>5. Numbered(t, "puback") = Numbered(fromBroker, "puback")
    BY <1>3, <2>4
  <2>6. QED BY <2>1, <2>4, <2>5 DEF Acks, Rising
<1>6. InOrder'
  BY <1>1, <1>4, <1>5 DEF Order, InOrder
<1>7. Reached'
  BY <1>1, <1>4, <1>5 DEF Order, Reached
<1>8. /\ Open' = Open /\ NumberedFrames' /\ ToCome' = ToCome /\ ~RecordPublished
  BY <1>1, ClientRests
<1>9. LedsComing \in Nat /\ LedsComing' = LedsComing + 1 /\ leds \in Nat
  BY <1>1, <1>2, <1>3, LedsAfter, Known
<1>10. Room'
  <2>1. ToCome \in 0..1 /\ Open \in Nat
    BY DEF ToCome, Order, Room
  <2>2. PICK l \in Nat, o \in Nat, t \in 0..1, k \in Nat :
          l = LedsComing /\ o = Open /\ t = ToCome /\ k = leds
    BY <1>9, <2>1
  <2>3. l <= k /\ o + l + t <= k + 1
    BY <2>2 DEF Order, Room
  <2>4. l + 1 <= k + 1 /\ o + (l + 1) + t <= (k + 1) + 1 /\ l + 1 \in Nat
    BY <2>3
  <2>5. /\ LedsComing' \in Nat /\ Open' \in Nat /\ LedsComing' <= leds'
        /\ Open' + LedsComing' + ToCome' <= leds' + 1
    BY <1>1, <1>8, <1>9, <2>2, <2>4
  <2>6. QED BY <2>5 DEF Room
<1>11. Lag'
  BY <1>1, <1>8 DEF Order, Lag
<1>12. UNCHANGED Pubacks!vars
  BY <1>1 DEF Pubacks!vars
<1>13. QED BY <1>6, <1>7, <1>8, <1>10, <1>11, <1>12 DEF Kept, Order

LEMMA WorldInOrder == ASSUME IInv, Order, World PROVE Kept
<1>1. CASE LinkBreaks
  <2>1. /\ link' # "up" /\ toBroker' = <<>> /\ UNCHANGED hist /\ leds' = leds
        /\ stack' = stack
    BY <1>1 DEF LinkBreaks, client
  <2>2. QuietTo /\ QuietStack
    BY <2>1 DEF QuietTo, QuietStack
  <2>3. QuietFrom
    <3>1. PICK n \in 0..Len(fromBroker), whole \in BOOLEAN :
            fromBroker' = [i \in 1..n |-> [fromBroker[i] EXCEPT !.whole = whole \/ i < n]]
      BY <1>1 DEF LinkBreaks
    <3>2. fromBroker \in Seq(Packets(InTypes))
      BY Known
    <3>3. \A i \in 1..n : fromBroker[i] \in Packets(InTypes)
      BY <3>2
    <3>4. \A i \in 1..n : /\ fromBroker'[i].type = fromBroker[i].type
                           /\ fromBroker'[i].of = fromBroker[i].of
      BY <3>1, <3>3 DEF Packets
    <3>5. Len(fromBroker') = n
      BY <3>1, <3>2
    <3>6. QED BY <3>4, <3>5 DEF QuietFrom
  <2>4. QED BY <2>1, <2>2, <2>3, QuietKeeps
<1>2. CASE TcpGivesUp
  <2>1. /\ link' # "up" /\ toBroker' = toBroker /\ fromBroker' = fromBroker
        /\ UNCHANGED hist /\ leds' = leds /\ stack' = stack
    BY <1>2 DEF TcpGivesUp, client, env
  <2>2. QuietTo /\ QuietFrom /\ QuietStack
    BY <2>1 DEF QuietTo, QuietFrom, QuietStack
  <2>3. QED BY <2>1, <2>2, QuietKeeps
<1>3. QED BY <1>1, <1>2, BrokerAnswersInOrder, LedCommandInOrder DEF World

LEMMA InitOrder == Init => Order /\ Pubacks!Init
<1> SUFFICES ASSUME Init PROVE Order /\ Pubacks!Init
  OBVIOUS
<1>1. /\ stack = <<>> /\ toBroker = <<>> /\ fromBroker = <<>> /\ leds = 0 /\ issued = 0
      /\ last = 0 /\ givenUp = 0 /\ delivered = {} /\ link = "none"
  BY DEF Init
<1>2. /\ Rising(toBroker, "publish") /\ Rising(fromBroker, "puback") /\ Pubs = {} /\ Acks = {}
      /\ LedsComing = 0
  BY <1>1, NoneUnderWay DEF Pubs, Acks, LedsComing
<1>3. Open = 0 /\ NumberedFrames /\ ToCome = 0
  BY <1>1, NoFrames DEF Open, NumberedFrames, ToCome, TopOp
<1>4. InOrder /\ Reached
  BY <1>1, <1>2 DEF InOrder, Reached
<1>5. Room /\ Lag
  BY <1>1, <1>2, <1>3 DEF Room, Lag
<1>6. Pubacks!Init
  BY <1>1, <1>3 DEF Pubacks!Init, Open, PublishPlaces
<1>7. QED BY <1>3, <1>4, <1>5, <1>6 DEF Order

LEMMA StutterInOrder == ASSUME IInv, Order, UNCHANGED vars PROVE Kept
<1>1. UNCHANGED net /\ stack' = stack /\ UNCHANGED hist /\ leds' = leds
  BY DEF vars, client, env
<1>2. QED BY <1>1, NetQuiet, QuietKeeps DEF QuietStack

LEMMA NextKeepsOrder == IInv /\ Order /\ [Next]_vars => Kept
<1> SUFFICES ASSUME IInv, Order, [Next]_vars PROVE Kept
  OBVIOUS
<1>1. CASE UNCHANGED vars
  BY <1>1, StutterInOrder
<1>2. CASE Next
  BY <1>2, ConnectingInOrder, PublishingInOrder, ReadingInOrder, KeepAliveInOrder,
     WorldInOrder DEF Next, Client
<1>3. QED BY <1>1, <1>2

LEMMA OrderInductive == Spec => [](IInv /\ Order)
<1>1. Init => IInv /\ Order
  BY InitIInv, InitOrder
<1>2. IInv /\ Order /\ [Next]_vars => (IInv /\ Order)'
  BY NextKeeps, NextKeepsOrder DEF Kept
<1>3. QED BY <1>1, <1>2, PTL DEF Spec

\* The client implements AnswerOrder: across nested publishes, timeouts and
\* reconnections every PUBACK is taken at most once, in the order of the publishes,
\* and never before its publish (aws_iot_mqtt_publish and wait_for_read).
THEOREM AnswersAreOrdered == Spec => PubacksInOrder
<1>1. Init => Pubacks!Init
  BY InitOrder
<1>2. IInv /\ Order /\ [Next]_vars => [Pubacks!Next]_Pubacks!vars
  BY NextKeepsOrder DEF Kept
<1>3. QED BY <1>1, <1>2, OrderInductive, PTL DEF Spec, PubacksInOrder, Pubacks!Spec

\* As long as no publish was given up, a record whose publish returned success has
\* reached the broker, whichever PUBACK the publish took (aws_iot_mqtt_publish).
THEOREM RecordsAreDelivered == Spec => RecordIsDelivered
<1>1. IInv /\ Order /\ [Next]_vars => [RecordPublished /\ givenUp = 0 => Top.of \in delivered]_vars
  BY NextKeepsOrder DEF Kept
<1>2. QED BY <1>1, OrderInductive, PTL DEF Spec, RecordIsDelivered
=============================================================================
