----------------------------- MODULE MqttClient -----------------------------
(***************************************************************************)
(* The publisher task and the MQTT client it runs in, with the network and *)
(* the broker around them. The client is single-threaded: its calls nest   *)
(* (a message that arrives while a PUBACK is waited for calls the handler, *)
(* which publishes and waits itself), and what interleaves with them is    *)
(* the broker, the link and the timers.                                    *)
(*                                                                         *)
(* Timers are choices: a wait may time out, a ping may be due, a reconnect *)
(* delay may be over at any time. Publishes are numbered as they are sent; *)
(* the code never compares the identifiers of acknowledgements.            *)
(***************************************************************************)
EXTENDS Integers, Sequences, FiniteSets

CONSTANTS
  Records,      \* how many records fpgaDataQueue delivers
  Leds,         \* how many LED commands come from the shadow
  Breaks,       \* how often the link breaks
  MaxTimeouts,  \* how many publishes are given up while the link can carry them
  MaxAttempts,  \* MQTT_CONNECT_MAX_ATTEMPT_COUNT
  MinWait,      \* AWS_IOT_MQTT_MIN_RECONNECT_WAIT_INTERVAL
  MaxWait       \* AWS_IOT_MQTT_MAX_RECONNECT_WAIT_INTERVAL

ASSUME BoundsAssumption ==
  /\ Records \in Nat /\ Leds \in Nat /\ Breaks \in Nat /\ MaxTimeouts \in Nat
  /\ MaxAttempts \in Nat \ {0}
  /\ MinWait \in Nat \ {0} /\ MaxWait \in Nat /\ MinWait <= MaxWait

VARIABLES
  pubPc,        \* where subscribe_publish_sensor_values is
  rc,           \* its rc
  attempt,      \* its connectCounter
  left,         \* the records still to come
  clientState,  \* clientStatus.clientState
  stack,        \* the client calls that are open, the innermost first
  ping,         \* clientStatus.isPingOutstanding
  interval,     \* clientData.currentReconnectWaitInterval
  subscribed,   \* messageHandlers holds the handler
  lastType,     \* the packet type that readBuf still holds
  link,         \* external: none, up, reset, or silently dead
  toBroker,     \* external: packets under way
  fromBroker,   \* external: packets under way or received
  brokerSub,    \* external: the broker knows the subscription
  leds,         \* external: LED commands sent so far
  breaks,       \* external: how often the link broke
  issued,       \* history: the number of publishes sent
  last,         \* history: the publish whose PUBACK was taken last
  givenUp,      \* history: the number of publishes given up
  delivered     \* history: the publishes that reached the broker

publisher == <<pubPc, rc, attempt, left>>
client    == <<clientState, stack, ping, interval, subscribed, lastType>>
net       == <<link, toBroker, fromBroker, brokerSub>>
env       == <<leds, breaks>>
hist      == <<issued, last, givenUp, delivered>>
vars      == <<publisher, client, net, env, hist>>

Packet(type, n) == [type |-> type, of |-> n, whole |-> TRUE]
Frame(op, saved, n) == [op |-> op, saved |-> saved, of |-> n]
Top == Head(stack)
TopOp == IF stack = <<>> THEN "none" ELSE Top.op

\* wait_for_read goes on until the packet is of the type it waits for.
Ack == [connect |-> "connack", subscribe |-> "suback",
        resubscribe |-> "suback", publish |-> "puback"]
AckTypes == {"connack", "suback", "puback"}
Waiting == DOMAIN Ack
Reading == Waiting \cup {"yield"}

Connected == {"idle", "yield", "publish", "subscribe", "resubscribe", "cb"}
Yielding  == {"yield", "stop"}
Goes      == {"attempting", "reconnected", "success"}   \* the loop's condition

Init ==
  /\ pubPc = "connect" /\ rc = "failure" /\ attempt = 0 /\ left = Records
  /\ clientState = "initialized" /\ stack = <<>> /\ ping = FALSE
  /\ interval = MinWait /\ subscribed = FALSE /\ lastType = "none"
  /\ link = "none" /\ toBroker = <<>> /\ fromBroker = <<>> /\ brokerSub = FALSE
  /\ leds = 0 /\ breaks = 0
  /\ issued = 0 /\ last = 0 /\ givenUp = 0 /\ delivered = {}

-----------------------------------------------------------------------------
(* Fragments of actions.                                                   *)

\* disconnect and destroy of the network stack.
Destroy ==
  /\ link' = "none" /\ toBroker' = <<>> /\ fromBroker' = <<>> /\ brokerSub' = FALSE

\* A silently dead link still takes what is written to it, until TCP gives up.
Sent(p) ==
  /\ \/ link = "up" /\ toBroker' = Append(toBroker, p)
     \/ link = "silent" /\ UNCHANGED toBroker
  /\ UNCHANGED <<link, fromBroker, brokerSub>>
SendFails == link \in {"reset", "silent"} /\ UNCHANGED net

\* aws_iot_mqtt_yield returns to the loop, or to the end of the publisher.
YieldReturns(code) ==
  /\ rc' = code
  /\ pubPc' = IF pubPc = "stop" THEN "disconnect"
              ELSE IF code = "attempting" THEN "yield"
              ELSE "receive"
  /\ UNCHANGED <<attempt, left>>

\* The end of a yield that began connected.
YieldEnds(code) ==
  /\ clientState' = "idle" /\ stack' = <<>>
  /\ YieldReturns(code)

\* Seeded fault: the interval stays what it is.
BackOffConstant(code) ==
  /\ UNCHANGED interval
  /\ YieldReturns(code)

\* The tail of _aws_iot_mqtt_handle_reconnect.
BackOff(code) ==
  /\ interval' = 2 * interval
  /\ YieldReturns(IF interval' > MaxWait THEN "timedOut" ELSE code)

\* Seeded fault: the network stack is left as it is.
ConnectFailsOpen ==
  /\ UNCHANGED net
  /\ stack' = <<>>
  /\ \/ /\ pubPc = "connect"
        /\ clientState' = "error" /\ rc' = "failure"
        /\ pubPc' = IF attempt' < MaxAttempts THEN "connect" ELSE "ended"
        /\ UNCHANGED <<interval, left>>
     \/ /\ pubPc # "connect"
        /\ clientState' = "pending"
        /\ BackOff("attempting")

\* aws_iot_mqtt_connect has failed: the publisher tries again or returns; in a
\* yield, attempt_reconnect makes the state pending again.
ConnectFails ==
  /\ Destroy
  /\ stack' = <<>>
  /\ \/ /\ pubPc = "connect"
        /\ clientState' = "error" /\ rc' = "failure"
        /\ pubPc' = IF attempt' < MaxAttempts THEN "connect" ELSE "ended"
        /\ UNCHANGED <<interval, left>>
     \/ /\ pubPc # "connect"
        /\ clientState' = "pending"
        /\ BackOff("attempting")

\* A resubscription has failed: the client stays connected.
ReconnectFails(code) ==
  /\ clientState' = "idle" /\ stack' = <<>>
  /\ BackOff(code)

\* Seeded fault: the state is only restored after a success.
PublishReturnsRaised(code) ==
  /\ clientState' = IF code = "success" THEN Top.saved ELSE clientState
  /\ stack' = Tail(stack)
  /\ \/ /\ Tail(stack) = <<>>
        /\ rc' = code
        /\ pubPc' = IF code = "timeout" THEN "publish" ELSE "receive"
     \/ Tail(stack) # <<>> /\ UNCHANGED <<rc, pubPc>>

\* aws_iot_mqtt_publish returns to the publisher, which repeats it after a
\* timeout, or to the message handler, which does not care.
PublishReturns(code) ==
  /\ clientState' = Top.saved
  /\ stack' = Tail(stack)
  /\ \/ /\ Tail(stack) = <<>>
        /\ rc' = code
        /\ pubPc' = IF code = "timeout" THEN "publish" ELSE "receive"
     \/ Tail(stack) # <<>> /\ UNCHANGED <<rc, pubPc>>

-----------------------------------------------------------------------------
(* Connecting.                                                             *)

\* Seeded fault: the interval is not looked at.
ConnectCalledAnyway ==
  /\ stack = <<>>
  /\ \/ pubPc = "connect" /\ attempt' = attempt + 1
     \/ /\ pubPc \in Yielding /\ clientState = "pending"
        /\ UNCHANGED attempt

\* The publisher's own attempts, and those of a yield when the delay is over.
ConnectCalled ==
  /\ stack = <<>>
  /\ \/ pubPc = "connect" /\ attempt' = attempt + 1
     \/ /\ pubPc \in Yielding /\ clientState = "pending" /\ interval <= MaxWait
        /\ UNCHANGED attempt

\* The network stack is connected and CONNECT is sent.
NetConnect ==
  /\ ConnectCalled
  /\ clientState' = "connecting"
  /\ stack' = <<Frame("connect", "connecting", 0)>>
  /\ link' = "up" /\ toBroker' = <<Packet("connect", 0)>> /\ fromBroker' = <<>>
  /\ UNCHANGED <<pubPc, rc, left, ping, interval, subscribed, lastType,
                 brokerSub, env, hist>>

NetConnectFails ==
  /\ ConnectCalled
  /\ ConnectFails
  /\ UNCHANGED <<ping, subscribed, lastType, env, hist>>

\* No attempt is made: the back-off is at its end, or the delay is not over. In
\* the publisher's loop the latter changes nothing.
YieldPending ==
  /\ stack = <<>> /\ clientState = "pending"
  /\ \/ pubPc \in Yielding /\ interval > MaxWait /\ YieldReturns("timedOut")
     \/ pubPc = "stop" /\ interval <= MaxWait /\ YieldReturns("attempting")
  /\ UNCHANGED <<client, net, env, hist>>

\* The subscription of the publisher, before its loop.
SubscribeCall ==
  /\ pubPc = "subscribe" /\ stack = <<>>
  /\ \/ /\ Sent(Packet("subscribe", 0))
        /\ clientState' = "subscribe"
        /\ stack' = <<Frame("subscribe", clientState, 0)>>
        /\ UNCHANGED <<pubPc, rc>>
     \/ /\ SendFails
        /\ rc' = "failure" /\ pubPc' = "ended"
        /\ UNCHANGED <<clientState, stack>>
  /\ UNCHANGED <<attempt, left, ping, interval, subscribed, lastType, env, hist>>

\* Seeded fault: reconnected without a new subscription.
ResubscribeForgotten ==
  /\ TopOp = "reconnected"
  /\ stack' = <<>>
  /\ YieldReturns("reconnected")
  /\ UNCHANGED <<clientState, interval, ping, subscribed, lastType, net, env, hist>>

\* aws_iot_mqtt_resubscribe, inside attempt_reconnect.
Resubscribe ==
  /\ TopOp = "reconnected"
  /\ \/ /\ Sent(Packet("subscribe", 0))
        /\ clientState' = "resubscribe"
        /\ stack' = <<Frame("resubscribe", "idle", 0)>>
        /\ UNCHANGED <<publisher, interval>>
     \/ SendFails /\ ReconnectFails("failure")
  /\ UNCHANGED <<ping, subscribed, lastType, env, hist>>

-----------------------------------------------------------------------------
(* Publishing.                                                             *)

\* A record from fpgaDataQueue, or none within its half second: then the loop's
\* condition sees the rc of the last yield or publish, whichever came later.
ReceiveRecord ==
  /\ pubPc = "receive" /\ left > 0
  /\ left' = left - 1
  /\ pubPc' = "publish"
  /\ UNCHANGED <<rc, attempt, client, net, env, hist>>

ReceiveNothing ==
  /\ pubPc = "receive"
  /\ pubPc' = IF rc \in Goes THEN "yield" ELSE "stop"
  /\ UNCHANGED <<rc, attempt, left, client, net, env, hist>>

\* The next publish is sent; MaxTimeouts bounds the repetitions on a dead link.
PublishSent ==
  /\ link = "silent" => givenUp < MaxTimeouts
  /\ Sent(Packet("publish", issued + 1))
  /\ issued' = issued + 1
  /\ clientState' = "publish"

PublishCall ==
  /\ pubPc = "publish" /\ stack = <<>>
  /\ \/ /\ clientState = "idle" /\ PublishSent
        /\ stack' = <<Frame("publish", "idle", issued + 1)>>
        /\ UNCHANGED <<pubPc, rc>>
     \/ /\ \/ clientState = "idle" /\ SendFails /\ rc' = "failure"
           \/ clientState = "pending" /\ rc' = "disconnected" /\ UNCHANGED net
        /\ pubPc' = "receive"
        /\ UNCHANGED <<clientState, stack, issued>>
  /\ UNCHANGED <<attempt, left, ping, interval, subscribed, lastType, env,
                 last, givenUp, delivered>>

\* MQTTcallbackHandler reports the new state of the LED.
CallbackPublish ==
  /\ TopOp = "callback"
  /\ LET back == [Top EXCEPT !.op = "deliver"] IN
     \/ /\ PublishSent
        /\ stack' = <<Frame("publish", "cb", issued + 1), back>> \o Tail(stack)
     \/ /\ SendFails
        /\ stack' = <<back>> \o Tail(stack)
        /\ UNCHANGED <<clientState, issued>>
  /\ UNCHANGED <<publisher, ping, interval, subscribed, lastType, env,
                 last, givenUp, delivered>>

\* deliver_message gives the state back to the call the message came into.
DeliverReturns ==
  /\ TopOp = "deliver"
  /\ clientState' = Top.saved
  /\ stack' = Tail(stack)
  /\ UNCHANGED <<publisher, ping, interval, subscribed, lastType, net, env, hist>>

-----------------------------------------------------------------------------
(* Reading.                                                                *)

Incoming == IF fromBroker = <<>> THEN "nothing" ELSE Head(fromBroker).type
Consume ==
  /\ fromBroker' = Tail(fromBroker)
  /\ lastType' = IF Incoming = "refusal" THEN "connack" ELSE Incoming
  /\ UNCHANGED <<link, toBroker, brokerSub>>

\* A yield reads once and then looks at the keep-alive timer; a wait reads on.
\* A second turn of the yield's loop is the same as a second yield.
AfterRead ==
  IF Top.op = "yield" THEN <<[Top EXCEPT !.op = "keepAlive"]>> ELSE stack

\* Seeded fault: any acknowledgement ends a wait.
ExpectsAny(op) == op \in Waiting /\ Incoming \in AckTypes /\ Head(fromBroker).whole

Expects(op) == op \in Waiting /\ Incoming = Ack[op] /\ Head(fromBroker).whole

YieldCall ==
  /\ pubPc \in Yielding /\ stack = <<>> /\ clientState = "idle"
  /\ clientState' = "yield"
  /\ stack' = <<Frame("yield", "idle", 0)>>
  /\ UNCHANGED <<publisher, ping, interval, subscribed, lastType, net, env, hist>>

TakeConnack ==
  /\ TopOp = "connect" /\ Expects("connect")
  /\ Consume
  /\ ping' = FALSE
  /\ clientState' = "idle"
  /\ \/ /\ pubPc = "connect"
        /\ stack' = <<>> /\ rc' = "success" /\ pubPc' = "subscribe"
     \/ /\ pubPc # "connect"
        /\ stack' = <<Frame("reconnected", "idle", 0)>>
        /\ UNCHANGED <<rc, pubPc>>
  /\ UNCHANGED <<attempt, left, interval, subscribed, env, hist>>

\* A CONNACK that does not accept.
TakeRefusal ==
  /\ TopOp = "connect" /\ Incoming = "refusal" /\ Head(fromBroker).whole
  /\ lastType' = "connack"
  /\ UNCHANGED attempt
  /\ ConnectFails
  /\ UNCHANGED <<ping, subscribed, env, hist>>

TakeSuback ==
  /\ TopOp \in {"subscribe", "resubscribe"} /\ Expects(TopOp)
  /\ Consume
  /\ clientState' = "idle" /\ stack' = <<>>
  /\ \/ /\ TopOp = "subscribe"
        /\ subscribed' = TRUE /\ rc' = "success" /\ pubPc' = "yield"
        /\ UNCHANGED <<attempt, left>>
     \/ /\ TopOp = "resubscribe"
        /\ YieldReturns("reconnected")
        /\ UNCHANGED subscribed
  /\ UNCHANGED <<ping, interval, env, hist>>

TakePuback ==
  /\ TopOp = "publish" /\ Expects("publish")
  /\ Consume
  /\ last' = Head(fromBroker).of
  /\ PublishReturns("success")
  /\ UNCHANGED <<attempt, left, ping, interval, subscribed, env,
                 issued, givenUp, delivered>>

\* Packets nobody waits for; a message before its handler is known; and a packet
\* cut off by the end of the link, which a wait ignores. When the link was reset
\* its length may decode as zero (see StalePacket), and a yield skips it too.
SkipPacket ==
  /\ TopOp \in Reading /\ ~Expects(TopOp)
  /\ \/ Incoming \in AckTypes \cup {"pingresp"} /\ Head(fromBroker).whole
     \/ Incoming = "led" /\ ~subscribed
     \/ /\ Incoming # "nothing" /\ ~Head(fromBroker).whole
        /\ TopOp # "yield" \/ (link = "reset" /\ Incoming # "led")
  /\ Consume
  /\ \/ Incoming = "pingresp" /\ ping' = FALSE
     \/ ~(Incoming = "pingresp" /\ Head(fromBroker).whole) /\ UNCHANGED ping
  /\ stack' = AfterRead
  /\ UNCHANGED <<publisher, clientState, interval, subscribed, env, hist>>

\* An LED command: the handler runs inside the call that read it.
Deliver ==
  /\ TopOp \in Reading
  /\ Incoming = "led" /\ Head(fromBroker).whole /\ subscribed
  /\ Consume
  /\ clientState' = "cb"
  /\ stack' = <<Frame("callback", clientState, 0)>> \o AfterRead
  /\ UNCHANGED <<publisher, ping, interval, subscribed, env, hist>>

ReadNothing ==
  /\ TopOp = "yield" /\ Incoming = "nothing" /\ link # "reset"
  /\ stack' = AfterRead
  /\ UNCHANGED <<publisher, clientState, ping, interval, subscribed, lastType,
                 net, env, hist>>

\* A yield gives up a packet that was cut off, and it may give up at an error.
YieldReadFails ==
  /\ TopOp = "yield"
  /\ \/ Incoming # "nothing" /\ ~Head(fromBroker).whole /\ Consume
     \/ link = "reset" /\ Incoming = "nothing" /\ UNCHANGED <<net, lastType>>
  /\ YieldEnds("failure")
  /\ UNCHANGED <<ping, interval, subscribed, env, hist>>

\* iot_tls_read reports success for an error that comes before its timer is
\* over, and read_packet decodes a length it never received: when that happens
\* to be zero, the packet read before is taken for a new one.
StalePacket ==
  /\ TopOp \in Reading /\ link = "reset" /\ Incoming = "nothing"
  /\ \/ lastType \in AckTypes /\ TopOp = "yield" /\ UNCHANGED ping
     \/ lastType = "pingresp" /\ ping' = FALSE
  /\ stack' = AfterRead
  /\ UNCHANGED <<publisher, clientState, interval, subscribed, lastType,
                 net, env, hist>>

\* A wait ends without its packet: its timer is over, or the stale packet has the
\* type it waits for and then fails to parse.
WaitFails ==
  /\ TopOp \in Waiting
  /\ \E code \in {"timeout", "failure"} :
       /\ code = "failure" => /\ link = "reset" /\ Incoming = "nothing"
                              /\ lastType = Ack[TopOp]
       /\ \/ TopOp = "connect" /\ UNCHANGED attempt /\ ConnectFails
             /\ UNCHANGED <<ping, subscribed, givenUp>>
          \/ /\ TopOp = "subscribe"
             /\ clientState' = Top.saved /\ stack' = <<>>
             /\ rc' = code /\ pubPc' = "ended"
             /\ UNCHANGED <<attempt, left, ping, interval, subscribed, net, givenUp>>
          \/ TopOp = "resubscribe" /\ ReconnectFails(code)
             /\ UNCHANGED <<ping, subscribed, net, givenUp>>
          \/ /\ TopOp = "publish" /\ (link = "up" => givenUp < MaxTimeouts)
             /\ PublishReturns(code)
             /\ givenUp' = givenUp + 1
             /\ UNCHANGED <<attempt, left, ping, interval, subscribed, net>>
  /\ UNCHANGED <<lastType, env, issued, last, delivered>>

-----------------------------------------------------------------------------
(* Keep-alive and the end.                                                 *)

KeepAliveNotDue ==
  /\ TopOp = "keepAlive"
  /\ YieldEnds("success")
  /\ UNCHANGED <<ping, interval, subscribed, lastType, net, env, hist>>

PingSent ==
  /\ TopOp = "keepAlive" /\ ~ping
  /\ Sent(Packet("pingreq", 0))
  /\ ping' = TRUE
  /\ YieldEnds("success")
  /\ UNCHANGED <<interval, subscribed, lastType, env, hist>>

\* _aws_iot_mqtt_handle_disconnect, then the wait for the first reconnection.
HandleDisconnect ==
  /\ Destroy
  /\ clientState' = "pending" /\ stack' = <<>>
  /\ interval' = MinWait
  /\ YieldReturns("attempting")

\* Seeded fault: a ping that cannot be sent is left to the next yield.
PingFailsSilently ==
  /\ TopOp = "keepAlive" /\ ~ping
  /\ SendFails
  /\ YieldEnds("success")
  /\ UNCHANGED <<ping, interval, subscribed, lastType, env, hist>>

\* The last ping was not answered, or this one cannot be sent.
PingFails ==
  /\ TopOp = "keepAlive"
  /\ ping \/ link \in {"reset", "silent"}
  /\ HandleDisconnect
  /\ UNCHANGED <<ping, subscribed, lastType, env, hist>>

\* The read failed after its timer was over.
ReadTimesOut ==
  /\ TopOp = "yield" /\ link = "reset" /\ Incoming = "nothing"
  /\ HandleDisconnect
  /\ UNCHANGED <<ping, subscribed, lastType, env, hist>>

\* The publisher returns; no task may, and the device stops there.
Disconnect ==
  /\ pubPc = "disconnect"
  /\ pubPc' = "ended"
  /\ \/ clientState = "idle" /\ clientState' = "manually" /\ Destroy
     \/ clientState # "idle" /\ UNCHANGED <<clientState, net>>
  /\ UNCHANGED <<rc, attempt, left, stack, ping, interval, subscribed, lastType,
                 env, hist>>

-----------------------------------------------------------------------------
(* The broker and the link.                                                *)

Answer(p) ==
  CASE p.type = "connect"   -> {Packet("connack", 0), Packet("refusal", 0)}
    [] p.type = "subscribe" -> {Packet("suback", 0)}
    [] p.type = "publish"   -> {Packet("puback", p.of)}
    [] p.type = "pingreq"   -> {Packet("pingresp", 0)}

BrokerAnswers ==
  /\ link = "up" /\ toBroker # <<>>
  /\ LET p == Head(toBroker) IN
     /\ \E a \in Answer(p) : fromBroker' = Append(fromBroker, a)
     /\ brokerSub' = (brokerSub \/ p.type = "subscribe")
     /\ delivered' = IF p.type = "publish" THEN delivered \cup {p.of} ELSE delivered
  /\ toBroker' = Tail(toBroker)
  /\ UNCHANGED <<publisher, client, link, env, issued, last, givenUp>>

LedCommand ==
  /\ link = "up" /\ brokerSub /\ leds < Leds
  /\ leds' = leds + 1
  /\ fromBroker' = Append(fromBroker, Packet("led", 0))
  /\ UNCHANGED <<publisher, client, link, toBroker, brokerSub, breaks, hist>>

\* What is under way to the broker is lost, what has arrived stays, and the last
\* packet may have arrived in part.
LinkBreaks ==
  /\ link = "up" /\ breaks < Breaks
  /\ breaks' = breaks + 1
  /\ link' \in {"reset", "silent"}
  /\ toBroker' = <<>>
  /\ \E n \in 0..Len(fromBroker), whole \in BOOLEAN :
       fromBroker' = [i \in 1..n |-> [fromBroker[i] EXCEPT !.whole = whole \/ i < n]]
  /\ UNCHANGED <<publisher, client, brokerSub, leds, hist>>

TcpGivesUp ==
  /\ link = "silent"
  /\ link' = "reset"
  /\ UNCHANGED <<publisher, client, toBroker, fromBroker, brokerSub, env, hist>>

-----------------------------------------------------------------------------
Connecting == NetConnect \/ NetConnectFails \/ YieldPending \/ SubscribeCall \/ Resubscribe
Publishing ==
  \/ ReceiveRecord \/ ReceiveNothing \/ PublishCall \/ CallbackPublish \/ DeliverReturns
ReadingStep ==
  \/ YieldCall \/ TakeConnack \/ TakeRefusal \/ TakeSuback \/ TakePuback
  \/ SkipPacket \/ Deliver \/ ReadNothing \/ YieldReadFails \/ StalePacket \/ WaitFails
KeepAlive == KeepAliveNotDue \/ PingSent \/ PingFails \/ ReadTimesOut \/ Disconnect

Client == Connecting \/ Publishing \/ ReadingStep \/ KeepAlive
\* What happens around a device that has stopped is left out.
World  ==
  pubPc # "ended" /\ (BrokerAnswers \/ LedCommand \/ LinkBreaks \/ TcpGivesUp)

Next == Client \/ World

Spec == Init /\ [][Next]_vars

\* A PINGRESP, read or read again, starts the ping timer anew.
PingRestarts ==
  \/ SkipPacket /\ Incoming = "pingresp"
  \/ StalePacket /\ lastType = "pingresp"

\* The publisher runs whenever the tasks above it are blocked, and its timers run
\* out, the ping timer unless it is started anew for ever. A broker that can be
\* reached answers at last: beyond MaxTimeouts a wait depends on it.
FairSpec ==
  /\ Spec
  /\ WF_vars(Client)
  /\ []<><<PingRestarts>>_vars \/ SF_vars(PingSent \/ PingFails)
  /\ WF_vars(pubPc # "ended" /\ BrokerAnswers)

-----------------------------------------------------------------------------
Packets(types) == [type : types, of : 0..issued, whole : BOOLEAN]

TypeOK ==
  /\ pubPc \in {"connect", "subscribe", "yield", "receive", "publish", "stop",
                "disconnect", "ended"}
  /\ rc \in Goes \cup {"failure", "timeout", "timedOut", "disconnected"}
  /\ attempt \in 0..MaxAttempts /\ left \in 0..Records
  /\ clientState \in Connected \cup {"initialized", "connecting", "error",
                                     "pending", "manually"}
  /\ \A i \in DOMAIN stack :
       /\ stack[i].op \in Reading \cup {"reconnected", "keepAlive", "callback", "deliver"}
       /\ stack[i].saved \in Connected \cup {"connecting"} /\ stack[i].of \in 0..issued
  /\ ping \in BOOLEAN /\ subscribed \in BOOLEAN /\ interval \in MinWait..2*MaxWait
  /\ lastType \in AckTypes \cup {"none", "pingresp", "led"}
  /\ link \in {"none", "up", "reset", "silent"} /\ brokerSub \in BOOLEAN
  /\ toBroker \in Seq(Packets({"connect", "subscribe", "publish", "pingreq"}))
  /\ fromBroker \in Seq(Packets(AckTypes \cup {"refusal", "pingresp", "led"}))
  /\ leds \in 0..Leds /\ breaks \in 0..Breaks
  /\ last \in 0..issued /\ givenUp \in 0..issued /\ delivered \subseteq 1..issued

\* The state set and restored by compare-and-swap always names the innermost
\* call, and after the last one the client is left in a state that lets the
\* publisher go on: no failure path leaves it "in progress", where every later
\* call would be refused.
StateMatchesCall ==
  clientState \in CASE TopOp = "none"                     -> {"initialized", "error", "idle",
                                                              "pending", "manually"}
                    [] TopOp = "connect"                  -> {"connecting"}
                    [] TopOp = "reconnected"              -> {"idle"}
                    [] TopOp \in {"yield", "keepAlive"}   -> {"yield"}
                    [] TopOp \in {"callback", "deliver"}  -> {"cb"}
                    [] OTHER                              -> {TopOp}

\* The network stack is open exactly while the state says connected or
\* connecting: nothing is read from or written to a stack that was destroyed, and
\* no failure path leaves a stack open that the next connect would overwrite.
OpenWhileConnected ==
  link # "none" <=> clientState \in Connected \cup {"connecting"}

\* A client that is connected again, and between two calls in the loop, has its
\* subscription, even if the resubscription timed out and a publish that went
\* well made the publisher go on: the LED commands keep coming.
StaysSubscribed ==
  (pubPc = "yield" /\ stack = <<>> /\ clientState = "idle" /\ link = "up") => brokerSub

\* The publisher's publish has returned success in this step.
RecordPublished ==
  TopOp = "publish" /\ Tail(stack) = <<>> /\ stack' = <<>> /\ rc' = "success"

\* As long as no publish was given up, the success of a record means that the
\* broker has it, although acknowledgements are not compared, the handler's
\* publish may take the record's PUBACK, and acknowledgements of an earlier
\* connection or of another kind may still be read.
RecordIsDelivered ==
  [][(RecordPublished /\ givenUp = 0) => Top.of \in delivered]_vars

\* Every PUBACK is taken at most once, in the order of the publishes, and never
\* before its publish, across nested publishes, timeouts and reconnections.
Pubacks == INSTANCE AnswerOrder
           WITH Depth   <- 1 + Leds,
                waiting <- Cardinality({i \in DOMAIN stack : stack[i].op = "publish"})
PubacksInOrder == Pubacks!Spec

\* A lost connection is either restored or given up for good: the back-off ends.
ReconnectionEnds == clientState = "pending" ~> (clientState = "idle" \/ pubPc = "ended")

\* A broken link is left at last, by a reconnection or by the end of the publisher,
\* provided the last packet read was no PINGRESP, which a failing read may repeat
\* for ever.
BrokenLinkIsLeft ==
  (link \in {"reset", "silent"} /\ fromBroker = <<>> /\ lastType # "pingresp")
    ~> (link \notin {"reset", "silent"} \/ pubPc = "ended")

-----------------------------------------------------------------------------
(* What the comments say.                                                  *)

\* aws_iot_mqtt_client_publish.c: a QoS 1 publish "returns after the receipt of the
\* PUBACK control packet": a successful one has reached the broker.
SuccessIsDelivered == [][RecordPublished => Top.of \in delivered]_vars
=============================================================================
