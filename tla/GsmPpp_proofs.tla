--------------------------- MODULE GsmPpp_proofs ---------------------------
(***************************************************************************)
(* Proofs about GsmPpp.                                                    *)
(*                                                                         *)
(* None of the safety properties is inductive by itself. What carries them *)
(* is the order of the writes in gsmPPP_Tsk: PPP is closed first, then     *)
(* pppState is cleared, then PPP mode is switched off, and only then does  *)
(* init = false invite vGsmTask to use the line. The invariant below says  *)
(* which of these facts hold at which point of gsmPPP_Tsk. Its first half  *)
(* holds always. Its second half says that PPP is really closed, and needs *)
(* a gsmPPP_rawInput that was not in status_cb when ppp_close was called   *)
(* (~undercut): only a callback that ends a link closed by request, and    *)
(* writes nothing but not_inited, may come afterwards.                     *)
(***************************************************************************)
EXTENDS GsmPpp, TLAPS

\* PPP is closed, or closing on our own request, and cannot come back by itself.
Closed == phase = "dead" \/ (closing /\ errCode = "user")

\* gsmPPP_rawInput is not in status_cb, or in one that changes nothing any more.
InputIsQuiet == inPc = "loop" \/ (inPc = "cbReset" /\ cbErr = "user")

\* vGsmTask talks to the modem only as long as init = false.
DialogMeansDown == Dialog => ~init

\* PPP mode is switched on after the dialogue and off before init.
ModeMeansUp == pppModeEnable => init

\* gsmPPP_Tsk acts on a pppModeEnable it read earlier only while it stands.
FailurePathInMode ==
  /\ pppPc \in {"setWait", "connect", "close", "notInited", "modeOff"} => pppModeEnable
  /\ pppPc = "initOff" => init /\ ~pppModeEnable

\* runAtCommand clears receiveState after the dial command, its caller sets it again.
PppModeReceives == pppModeEnable => receiveState

\* "wait" is overwritten on the way out.
GivenUpWaitsNot == pppPc \in {"modeOff", "initOff", "reportLost"} => pppState # "wait"

ResetPaysTheDebt == gsmPc = "resetting" => ~resetOwed

\* gsmState.init = false is an invitation to use the line: it must be free.
LineIsFree == ~init => Closed /\ pppState = "not_inited"

\* The order of the writes after a failed ppp_connect.
FailureOrder ==
  /\ pppPc \in {"notInited", "modeOff", "initOff", "reportLost"} => Closed /\ InputIsQuiet
  /\ pppPc \in {"modeOff", "initOff", "reportLost"} => pppState = "not_inited"

\* A session that is there or may come by itself needs PPP mode.
SessionInPppMode ==
  ~Closed \/ pppState # "not_inited" \/ ~InputIsQuiet => pppModeEnable

ServingOnLine == pppPc = "serving" => pppModeEnable

\* The variables that hold a truth value, and the others. TypeOK alone is not
\* inductive: a probe that fails counts one attempt more.
FlagsTyped ==
  /\ init \in BOOLEAN /\ notRespond \in BOOLEAN
  /\ pppModeEnable \in BOOLEAN /\ receiveState \in BOOLEAN
  /\ healthy \in BOOLEAN /\ closing \in BOOLEAN
  /\ resetOwed \in BOOLEAN /\ undercut \in BOOLEAN

RangesTyped ==
  /\ pppState \in {"not_inited", "wait", "ready"}
  /\ gsmPc \in GsmPcs /\ cmd \in Command /\ attempt \in 0..PowerAttempts
  /\ pppPc \in PppPcs
  /\ phase \in Phases /\ errCode \in {"none", "user", "lost"}
  /\ inPc \in InPcs /\ cbErr \in {"none", "user", "lost"}
  /\ modem \in {"off", "command", "data"}
  /\ gsmPc \in {"send", "reply"} /\ cmd = 0 => attempt < PowerAttempts

Typed == FlagsTyped /\ RangesTyped

Flags ==
  /\ DialogMeansDown
  /\ ModeMeansUp
  /\ FailurePathInMode
  /\ PppModeReceives
  /\ GivenUpWaitsNot
  /\ WaitHasCallback
  /\ ResetNotForgotten
  /\ ResetPaysTheDebt

ClosedInOrder ==
  /\ LineIsFree
  /\ FailureOrder
  /\ SessionInPppMode
  /\ ServingOnLine

Protocol == Flags /\ (~undercut => ClosedInOrder)

IInv == Typed /\ Protocol

-----------------------------------------------------------------------------
(* Type correctness.                                                       *)

\* The probe of gsmLLR_PowerUp is none of the commands of the script.
LEMMA ProbeIsNoStage == cmd = 0 => cmd \notin 1..Dial-1 /\ cmd # Dial
  BY ScriptAssumption

\* Every step keeps the flags Boolean.
LEMMA FlagsStep == FlagsTyped /\ [Next]_vars => FlagsTyped'
<1> SUFFICES ASSUME FlagsTyped, [Next]_vars PROVE FlagsTyped'
  OBVIOUS
<1> USE DEF FlagsTyped, flags, pcb, link, input, world, history
<1>1. CASE CheckInit \/ WakeUp \/ AlreadyUp \/ StartPowerKey \/ PulsePowerKey
              \/ ProbeAfterKey \/ PowerUpFails \/ ModuleLost \/ ResetDone
  BY <1>1, Zenon DEF CheckInit, WakeUp, AlreadyUp, CheckResponding, StartPowerKey,
     PulsePowerKey, ProbeAfterKey, PowerUpFails, ModuleLost, ResetDone
<1>2. CASE SendCommand \/ CannotSend \/ ReplyFound \/ ReplyTimeout \/ DialWithoutMemory
  <2>1. CASE SendCommand
    BY <2>1, Zenon DEF SendCommand
  <2>2. CASE CannotSend
    BY <2>2, ProbeIsNoStage, Zenon DEF CannotSend, Returned, CheckResponding, EnterPppMode
  <2>3. CASE ReplyFound
    BY <2>3, ProbeIsNoStage, Zenon DEF ReplyFound, Returned, CheckResponding, EnterPppMode
  <2>4. CASE ReplyTimeout
    BY <2>4, ProbeIsNoStage, Zenon DEF ReplyTimeout, Returned, CheckResponding, EnterPppMode
  <2>5. CASE DialWithoutMemory
    BY <2>5, Zenon DEF DialWithoutMemory, EnterPppMode
  <2> QED
    BY <1>2, <2>1, <2>2, <2>3, <2>4, <2>5
<1>3. CASE PppTask
  BY <1>3, Zenon DEF PppTask, PollMode, SetWait, ConnectOk, ConnectAlready, Close,
     MarkNotInited, MarkModeOff, MarkInitOff, MarkNotRespond, CheckReady
<1>4. CASE PppInput
  BY <1>4, Zenon DEF PppInput, IpcpUp, IpcpDown, InputEndsLink, CbReset, CbReady,
     CbReadyAgain, CbConnect
<1>5. CASE Lwip
  BY <1>5, Zenon DEF Lwip, LinkCloses, LinkEnd, HoldoffExpires
<1>6. CASE World
  BY <1>6, Zenon DEF World, ModemFails, HealthChanges
<1>7. CASE UNCHANGED vars
  BY <1>7 DEF vars
<1> QED
  BY <1>1, <1>2, <1>3, <1>4, <1>5, <1>6, <1>7, Zenon DEF Next, GsmTask

\* ... and every counter, program counter and state in its range.
LEMMA RangesStep == RangesTyped /\ [Next]_vars => RangesTyped'
<1> SUFFICES ASSUME RangesTyped, [Next]_vars PROVE RangesTyped'
  OBVIOUS
<1> USE ScriptAssumption DEF RangesTyped, gsmVars, pcb, link, input, world,
        GsmPcs, PppPcs, InPcs, Phases, Command
<1>1. CASE GsmTask
  <2>1. CASE CheckInit \/ WakeUp
    BY <2>1 DEF CheckInit, WakeUp
  <2>2. CASE AlreadyUp
    BY <2>2 DEF AlreadyUp, CheckResponding
  <2>3. CASE StartPowerKey \/ PowerUpFails
    BY <2>3 DEF StartPowerKey, PowerUpFails
  <2>4. CASE PulsePowerKey \/ ProbeAfterKey
    BY <2>4 DEF PulsePowerKey, ProbeAfterKey
  <2>5. CASE ModuleLost \/ ResetDone
    BY <2>5 DEF ModuleLost, ResetDone
  <2>6. CASE SendCommand
    BY <2>6 DEF SendCommand
  <2>7. CASE CannotSend
    BY <2>7 DEF CannotSend, Returned, CheckResponding, EnterPppMode
  <2>8. CASE ReplyFound
    BY <2>8 DEF ReplyFound, Returned, CheckResponding, EnterPppMode
  <2>9. CASE ReplyTimeout
    BY <2>9 DEF ReplyTimeout, Returned, CheckResponding, EnterPppMode
  <2>10. CASE DialWithoutMemory
    BY <2>10 DEF DialWithoutMemory, EnterPppMode
  <2> QED
    BY <1>1, <2>1, <2>2, <2>3, <2>4, <2>5, <2>6, <2>7, <2>8, <2>9, <2>10, Zenon
       DEF GsmTask
<1>2. CASE PppTask
  BY <1>2 DEF PppTask, PppStep, PollMode, SetWait, ConnectOk, ConnectAlready, Close,
     StatusCb, MarkNotInited, MarkModeOff, MarkInitOff, MarkNotRespond, CheckReady
<1>3. CASE PppInput
  BY <1>3 DEF PppInput, InStep, IpcpUp, IpcpDown, InputEndsLink, CbReset, CbReady,
     CbReadyAgain, CbConnect
<1>4. CASE Lwip
  BY <1>4 DEF Lwip, LinkCloses, LinkEnd, HoldoffExpires, StatusCb
<1>5. CASE World
  BY <1>5 DEF World, ModemFails, HealthChanges
<1>6. CASE UNCHANGED vars
  BY <1>6 DEF vars
<1> QED
  BY <1>1, <1>2, <1>3, <1>4, <1>5, <1>6, Zenon DEF Next

\* The initial states are typed.
LEMMA TypedInit == Init => Typed
<1>1. Init => FlagsTyped
  BY Zenon DEF Init, FlagsTyped
<1>2. Init => RangesTyped
  BY ScriptAssumption DEF Init, RangesTyped, GsmPcs, PppPcs, InPcs, Phases, Command
<1> QED
  BY <1>1, <1>2 DEF Typed

\* The flags, program counters and lwIP state stay in their ranges in every
\* behaviour of the bring-up.
THEOREM TypeCorrect == Spec => []TypeOK
<1>1. Typed /\ [Next]_vars => Typed'
  BY FlagsStep, RangesStep DEF Typed
<1>2. Typed => TypeOK
  BY DEF Typed, FlagsTyped, RangesTyped, TypeOK
<1> QED
  BY TypedInit, <1>1, <1>2, PTL DEF Spec

-----------------------------------------------------------------------------
(* The protocol between vGsmTask and gsmPPP_Tsk.                           *)

\* vGsmTask keeps the protocol.
LEMMA GsmTaskStep == IInv /\ GsmTask => Protocol'
<1> SUFFICES ASSUME IInv, GsmTask PROVE Protocol'
  OBVIOUS
<1> USE DEF IInv, Typed, FlagsTyped, RangesTyped, Phases, InPcs,
        Protocol, Flags, ClosedInOrder, Closed, InputIsQuiet, DialogMeansDown,
        Dialog, ModeMeansUp, FailurePathInMode, PppModeReceives, GivenUpWaitsNot,
        WaitHasCallback, ResetNotForgotten, ResetPaysTheDebt, LineIsFree, FailureOrder,
        SessionInPppMode, ServingOnLine, flags, gsmVars, pcb, link, input, world,
        history
<1>1. CASE CheckInit \/ WakeUp
  BY <1>1 DEF CheckInit, WakeUp
<1>2. CASE AlreadyUp
  BY <1>2 DEF AlreadyUp, CheckResponding
<1>3. CASE StartPowerKey \/ PowerUpFails
  BY <1>3 DEF StartPowerKey, PowerUpFails
<1>4. CASE PulsePowerKey \/ ProbeAfterKey
  BY <1>4 DEF PulsePowerKey, ProbeAfterKey
<1>5. CASE ModuleLost
  BY <1>5 DEF ModuleLost
<1>6. CASE ResetDone
  BY <1>6 DEF ResetDone
<1>7. CASE SendCommand
  BY <1>7 DEF SendCommand
<1>8. CASE CannotSend
  BY <1>8 DEF CannotSend, Returned, CheckResponding, EnterPppMode
<1>9. CASE ReplyFound
  BY <1>9 DEF ReplyFound, Returned, CheckResponding, EnterPppMode
<1>10. CASE ReplyTimeout
  BY <1>10 DEF ReplyTimeout, Returned, CheckResponding, EnterPppMode
<1>11. CASE DialWithoutMemory
  BY <1>11 DEF DialWithoutMemory, EnterPppMode
<1> QED
  BY <1>1, <1>2, <1>3, <1>4, <1>5, <1>6, <1>7, <1>8, <1>9, <1>10, <1>11, Zenon
     DEF GsmTask

\* gsmPPP_Tsk keeps the protocol.
LEMMA PppTaskStep == IInv /\ PppTask => Protocol'
<1> SUFFICES ASSUME IInv, PppTask PROVE Protocol'
  OBVIOUS
<1> USE DEF IInv, Typed, FlagsTyped, RangesTyped, Phases, InPcs,
        Protocol, Flags, ClosedInOrder, Closed, InputIsQuiet, DialogMeansDown,
        Dialog, ModeMeansUp, FailurePathInMode, PppModeReceives, GivenUpWaitsNot,
        WaitHasCallback, ResetNotForgotten, ResetPaysTheDebt, LineIsFree, FailureOrder,
        SessionInPppMode, ServingOnLine, flags, gsmVars, pcb, link, input, world,
        history,
        PppStep
<1>1. CASE PollMode
  BY <1>1 DEF PollMode
<1>2. CASE SetWait
  BY <1>2 DEF SetWait
<1>3. CASE ConnectOk
  BY <1>3 DEF ConnectOk
<1>4. CASE ConnectAlready
  BY <1>4 DEF ConnectAlready
<1>5. CASE Close
  BY <1>5 DEF Close, StatusCb
<1>6. CASE MarkNotInited
  BY <1>6 DEF MarkNotInited
<1>7. CASE MarkModeOff
  BY <1>7 DEF MarkModeOff
<1>8. CASE MarkInitOff
  BY <1>8 DEF MarkInitOff
<1>9. CASE MarkNotRespond
  BY <1>9 DEF MarkNotRespond
<1>10. CASE CheckReady
  BY <1>10 DEF CheckReady
<1> QED
  BY <1>1, <1>2, <1>3, <1>4, <1>5, <1>6, <1>7, <1>8, <1>9, <1>10, Zenon DEF PppTask

\* gsmPPP_rawInput keeps the protocol, between any two steps of gsmPPP_Tsk.
LEMMA PppInputStep == IInv /\ PppInput => Protocol'
<1> SUFFICES ASSUME IInv, PppInput PROVE Protocol'
  OBVIOUS
<1> USE DEF IInv, Typed, FlagsTyped, RangesTyped, Phases, InPcs,
        Protocol, Flags, ClosedInOrder, Closed, InputIsQuiet, DialogMeansDown,
        Dialog, ModeMeansUp, FailurePathInMode, PppModeReceives, GivenUpWaitsNot,
        WaitHasCallback, ResetNotForgotten, ResetPaysTheDebt, LineIsFree, FailureOrder,
        SessionInPppMode, ServingOnLine, flags, gsmVars, pcb, link, input, world,
        history,
        InStep
<1>1. CASE IpcpUp
  BY <1>1 DEF IpcpUp
<1>2. CASE IpcpDown
  BY <1>2 DEF IpcpDown
<1>3. CASE InputEndsLink
  BY <1>3 DEF InputEndsLink
<1>4. CASE CbReset
  BY <1>4 DEF CbReset
<1>5. CASE CbReady
  BY <1>5 DEF CbReady
<1>6. CASE CbReadyAgain
  BY <1>6 DEF CbReadyAgain
<1>7. CASE CbConnect
  BY <1>7 DEF CbConnect
<1> QED
  BY <1>1, <1>2, <1>3, <1>4, <1>5, <1>6, <1>7, Zenon DEF PppInput

\* The lwIP thread keeps the protocol.
LEMMA LwipStep == IInv /\ Lwip => Protocol'
<1> SUFFICES ASSUME IInv, Lwip PROVE Protocol'
  OBVIOUS
<1> USE DEF IInv, Typed, FlagsTyped, RangesTyped, Phases, InPcs,
        Protocol, Flags, ClosedInOrder, Closed, InputIsQuiet, DialogMeansDown,
        Dialog, ModeMeansUp, FailurePathInMode, PppModeReceives, GivenUpWaitsNot,
        WaitHasCallback, ResetNotForgotten, ResetPaysTheDebt, LineIsFree, FailureOrder,
        SessionInPppMode, ServingOnLine, flags, gsmVars, pcb, link, input, world,
        history
<1>1. CASE LinkCloses
  BY <1>1 DEF LinkCloses
<1>2. CASE LinkEnd
  BY <1>2 DEF LinkEnd, StatusCb
<1>3. CASE HoldoffExpires
  BY <1>3 DEF HoldoffExpires
<1> QED
  BY <1>1, <1>2, <1>3, Zenon DEF Lwip

\* So do the modem, which no flag depends on, and stuttering.
LEMMA WorldStep == IInv /\ (World \/ UNCHANGED vars) => Protocol'
  BY DEF IInv, Protocol, Flags, ClosedInOrder, Closed, InputIsQuiet, DialogMeansDown,
     Dialog, ModeMeansUp, FailurePathInMode, PppModeReceives, GivenUpWaitsNot,
     WaitHasCallback, ResetNotForgotten, ResetPaysTheDebt, LineIsFree, FailureOrder,
     SessionInPppMode, ServingOnLine,
     World, ModemFails, HealthChanges, vars, flags, gsmVars, pcb, link, input, world,
     history

\* IInv is inductive.
LEMMA Invariance == Spec => []IInv
<1>1. Init => IInv
  <2>1. Init => Protocol
    BY DEF Init, Protocol, Flags, ClosedInOrder, Closed, InputIsQuiet, DialogMeansDown,
       Dialog, ModeMeansUp, FailurePathInMode, PppModeReceives, GivenUpWaitsNot,
       WaitHasCallback, ResetNotForgotten, ResetPaysTheDebt, LineIsFree, FailureOrder,
       SessionInPppMode, ServingOnLine
  <2> QED
    BY <2>1, TypedInit DEF IInv
<1>2. IInv /\ [Next]_vars => IInv'
  <2>1. IInv /\ [Next]_vars => Protocol'
    BY GsmTaskStep, PppTaskStep, PppInputStep, LwipStep, WorldStep DEF Next
  <2>2. IInv /\ [Next]_vars => Typed'
    BY FlagsStep, RangesStep DEF IInv, Typed
  <2> QED
    BY <2>1, <2>2 DEF IInv
<1> QED
  BY <1>1, <1>2, PTL DEF Spec

-----------------------------------------------------------------------------
(* What follows from it.                                                   *)

\* The AT parser never runs while the line is in PPP mode, whatever gsmPPP_Tsk
\* writes in between.
THEOREM ParserIsAlone == Spec => []ParserNeverSeesPppMode
<1>1. IInv => ParserNeverSeesPppMode
  BY DEF IInv, Protocol, Flags, ModeMeansUp, DialogMeansDown, Dialog,
     ParserNeverSeesPppMode
<1> QED
  BY Invariance, <1>1, PTL

\* The line as LineOwner sees it, in the terms of IInv.
LineOwnerOf == IF undercut THEN "contested"
               ELSE IF init THEN "ppp" ELSE IF Dialog THEN "dialogue" ELSE "nobody"

\* Only a link that exists is closed on request.
LEMMA SessionIsOpen == Session <=> ~Closed
  BY DEF Session, Closed

LEMMA TruthValues == Session \in BOOLEAN /\ (pppPc = "serving") \in BOOLEAN
  BY DEF Session

\* A step that leaves the line and the publisher alone may begin or end a session:
\* where one lives afterwards, the line is PPP's or contested.
LEMMA SessionStep ==
  ASSUME IInv', UNCHANGED LineOwnerOf, UNCHANGED (pppPc = "serving")
  PROVE  Line!SessionBegins \/ Line!SessionEnds
<1>1. CASE Session'
  <2>1. undercut' \/ init'
    BY <1>1, SessionIsOpen DEF IInv, Protocol, ClosedInOrder, LineIsFree, Session, Closed
  <2>2. LineOwnerOf \in {"ppp", "contested"}
    BY <2>1 DEF LineOwnerOf
  <2>3. Session' = TRUE
    BY <1>1 DEF Session
  <2>4. Line!SessionBegins
    BY <2>2, <2>3 DEF Line!SessionBegins, LineOwnerOf
  <2> QED
    BY <2>4
<1>2. CASE ~Session'
  <2>1. Session' = FALSE
    BY <1>2 DEF Session
  <2>2. Line!SessionEnds
    BY <2>1 DEF Line!SessionEnds, LineOwnerOf
  <2> QED
    BY <2>2
<1> QED
  BY <1>1, <1>2

\* vGsmTask takes the line when nobody has it; once it has it, it may do what it likes.
LEMMA GsmTaskImplements ==
  IInv /\ IInv' /\ GsmTask => Line!Next \/ UNCHANGED Line!vars
<1> SUFFICES ASSUME IInv, IInv', GsmTask PROVE Line!Next \/ UNCHANGED Line!vars
  OBVIOUS
<1>1. UNCHANGED <<link, pppPc, undercut>>
  BY DEF GsmTask, CheckInit, WakeUp, AlreadyUp, StartPowerKey, PulsePowerKey,
     ProbeAfterKey, PowerUpFails, ModuleLost, ResetDone, SendCommand, CannotSend,
     ReplyFound, ReplyTimeout, DialWithoutMemory, history
<1>2. UNCHANGED Session /\ UNCHANGED (pppPc = "serving")
  BY <1>1 DEF link, pcb, Session
<1>3. CASE undercut
  <2>1. UNCHANGED LineOwnerOf
    BY <1>1, <1>3 DEF LineOwnerOf
  <2> QED
    BY <1>2, <2>1 DEF Line!vars, LineOwnerOf
<1>4. CASE ~undercut /\ Dialog
  <2>1. LineOwnerOf = "dialogue"
    BY <1>4 DEF IInv, Protocol, Flags, DialogMeansDown, LineOwnerOf
  <2>2. LineOwnerOf' \in {"dialogue", "ppp", "nobody"}
    BY <1>1, <1>4 DEF LineOwnerOf
  <2>3. Line!HandOver \/ Line!PutBack \/ UNCHANGED Line!vars
    BY <1>2, <2>1, <2>2 DEF Line!HandOver, Line!PutBack, Line!vars, LineOwnerOf
  <2> QED
    BY <2>3 DEF Line!Next
<1>5. CASE ~undercut /\ CheckInit
  <2>1. LineOwnerOf' = LineOwnerOf \/ (LineOwnerOf = "nobody" /\ LineOwnerOf' = "dialogue")
    BY <1>1, <1>5 DEF CheckInit, flags, Dialog, LineOwnerOf
  <2>2. Line!Take \/ UNCHANGED Line!vars
    BY <1>2, <2>1 DEF Line!Take, Line!vars, LineOwnerOf
  <2> QED
    BY <2>2 DEF Line!Next
<1>6. CASE ~undercut /\ WakeUp
  <2>1. LineOwnerOf' = LineOwnerOf
    BY <1>1, <1>6 DEF WakeUp, flags, Dialog, LineOwnerOf
  <2> QED
    BY <1>2, <2>1 DEF Line!vars, LineOwnerOf
<1>7. Dialog \/ CheckInit \/ WakeUp
  BY DEF Dialog, GsmTask, AlreadyUp, StartPowerKey, PulsePowerKey,
     ProbeAfterKey, PowerUpFails, ModuleLost, ResetDone, SendCommand, CannotSend,
     ReplyFound, ReplyTimeout, DialWithoutMemory
<1> QED
  BY <1>3, <1>4, <1>5, <1>6, <1>7

\* ppp_close ends the session of the line, settles it or makes it contested.
LEMMA CloseImplements == IInv /\ IInv' /\ Close => Line!Next
<1> SUFFICES ASSUME IInv, IInv', Close PROVE Line!Next
  OBVIOUS
<1>1. pppPc = "close" /\ pppPc' = "notInited" /\ UNCHANGED <<init, gsmVars>>
  BY DEF Close, PppStep, flags
<1>2. init /\ UNCHANGED Dialog
  BY <1>1 DEF IInv, Protocol, Flags, FailurePathInMode, ModeMeansUp, Dialog, gsmVars
<1>3. (pppPc = "serving") = FALSE /\ UNCHANGED (pppPc = "serving")
  BY <1>1
<1>4. CASE undercut' = undercut
  <2>1. UNCHANGED LineOwnerOf
    BY <1>1, <1>2, <1>4 DEF LineOwnerOf
  <2> QED
    BY <1>3, <2>1, SessionStep DEF Line!Next
<1>5. CASE ~undercut /\ undercut'
  <2>1. LineOwnerOf = "ppp" /\ LineOwnerOf' = "contested"
    BY <1>2, <1>5 DEF LineOwnerOf
  <2>2. Session' \in BOOLEAN
    BY DEF Session
  <2>3. Line!Contest
    BY <1>3, <2>1, <2>2 DEF Line!Contest, LineOwnerOf
  <2> QED
    BY <2>3 DEF Line!Next
<1>6. CASE undercut /\ ~undercut'
  <2>1. LineOwnerOf = "contested" /\ LineOwnerOf' = "ppp"
    BY <1>1, <1>2, <1>6 DEF LineOwnerOf
  <2>2. Closed'
    BY <1>1, <1>6 DEF IInv, Protocol, ClosedInOrder, FailureOrder
  <2>3. Session' = FALSE
    BY <2>2 DEF Session, Closed
  <2>4. Line!Settle
    BY <1>3, <2>1, <2>3 DEF Line!Settle, LineOwnerOf
  <2> QED
    BY <2>4 DEF Line!Next
<1> QED
  BY <1>4, <1>5, <1>6 DEF IInv, Typed, FlagsTyped

\* gsmPPP_Tsk gives the line up where its session is closed.
LEMMA PppTaskImplements ==
  IInv /\ IInv' /\ PppTask => Line!Next \/ UNCHANGED Line!vars
<1> SUFFICES ASSUME IInv, IInv', PppTask PROVE Line!Next \/ UNCHANGED Line!vars
  OBVIOUS
<1>1. UNCHANGED gsmVars
  BY DEF PppTask, PollMode, SetWait, ConnectOk, ConnectAlready, Close, MarkNotInited,
     MarkModeOff, MarkInitOff, MarkNotRespond, CheckReady
<1>2. CASE Close
  BY <1>2, CloseImplements
<1>3. CASE MarkInitOff
  <2>1. /\ pppPc = "initOff" /\ pppPc' = "reportLost"
        /\ ~init' /\ UNCHANGED <<link, undercut>>
    BY <1>3 DEF MarkInitOff, PppStep, history
  <2>2. init /\ ~Dialog /\ ~Dialog'
    BY <1>1, <2>1 DEF IInv, Protocol, Flags, FailurePathInMode, DialogMeansDown, Dialog,
       gsmVars
  <2>3. UNCHANGED Session /\ UNCHANGED (pppPc = "serving")
    BY <2>1 DEF link, pcb, Session
  <2>4. CASE undercut
    BY <2>1, <2>3, <2>4 DEF Line!vars
  <2>5. CASE ~undercut
    <3>1. LineOwnerOf = "ppp" /\ LineOwnerOf' = "nobody"
      BY <2>1, <2>2, <2>5 DEF LineOwnerOf
    <3>2. ~Session
      BY <2>1, <2>5, SessionIsOpen DEF IInv, Protocol, ClosedInOrder, FailureOrder
    <3>3. Line!GiveUp
      BY <2>1, <2>3, <3>1, <3>2 DEF Line!GiveUp, LineOwnerOf
    <3> QED
      BY <3>3 DEF Line!Next
  <2> QED
    BY <2>4, <2>5
<1>4. CASE CheckReady
  <2>1. pppPc = "checkReady" /\ UNCHANGED <<flags, link, undercut>>
    BY <1>4 DEF CheckReady, PppStep, history
  <2>2. UNCHANGED Session /\ UNCHANGED LineOwnerOf
    BY <1>1, <2>1 DEF flags, link, pcb, gsmVars, Session, LineOwnerOf, Dialog
  <2>3. CASE pppPc' = "serving"
    <3>1. LineOwnerOf' \in {"ppp", "contested"}
      BY <2>3 DEF IInv, Protocol, Flags, ModeMeansUp, ClosedInOrder, ServingOnLine,
         LineOwnerOf
    <3>2. (pppPc = "serving")' = TRUE
      BY <2>3
    <3>3. Line!Publish
      BY <2>2, <3>1, <3>2 DEF Line!Publish, LineOwnerOf
    <3> QED
      BY <3>3 DEF Line!Next
  <2>4. CASE pppPc' # "serving"
    BY <2>1, <2>2, <2>4 DEF Line!vars, LineOwnerOf
  <2> QED
    BY <2>3, <2>4
<1>5. CASE ~Close /\ ~MarkInitOff /\ ~CheckReady
  <2>1. UNCHANGED <<init, undercut>> /\ pppPc # "serving" /\ pppPc' # "serving"
    BY <1>5 DEF PppTask, PollMode, SetWait, ConnectOk, ConnectAlready,
       MarkNotInited, MarkModeOff, MarkNotRespond, PppStep, flags, history
  <2>2. UNCHANGED LineOwnerOf /\ UNCHANGED (pppPc = "serving")
    BY <1>1, <2>1 DEF LineOwnerOf, Dialog, gsmVars
  <2> QED
    BY <2>2, SessionStep DEF Line!Next
<1> QED
  BY <1>2, <1>3, <1>4, <1>5

\* The end of a link settles a contested line, unless the publisher runs on it.
LEMMA LinkEndImplements == IInv /\ IInv' /\ LinkEnd => Line!Next
<1> SUFFICES ASSUME IInv, IInv', LinkEnd PROVE Line!Next
  OBVIOUS
<1>1. UNCHANGED <<flags, gsmVars, pppPc>> /\ (undercut' => undercut)
  BY DEF LinkEnd
<1>2. UNCHANGED (pppPc = "serving") /\ UNCHANGED Dialog /\ UNCHANGED init
  BY <1>1 DEF flags, gsmVars, Dialog
<1>3. CASE undercut' = undercut
  <2>1. UNCHANGED LineOwnerOf
    BY <1>2, <1>3 DEF LineOwnerOf
  <2> QED
    BY <1>2, <2>1, SessionStep DEF Line!Next
<1>4. CASE undercut /\ ~undercut'
  <2>1. phase' = "dead" /\ pppPc # "serving"
    BY <1>4 DEF LinkEnd
  <2>2. LineOwnerOf = "contested" /\ LineOwnerOf' \in {"dialogue", "ppp", "nobody"}
    BY <1>4 DEF LineOwnerOf
  <2>3. Session' = FALSE /\ (pppPc = "serving") = FALSE
    BY <2>1 DEF Session
  <2>4. Line!Settle
    BY <1>2, <2>2, <2>3 DEF Line!Settle, LineOwnerOf
  <2> QED
    BY <2>4 DEF Line!Next
<1> QED
  BY <1>1, <1>3, <1>4 DEF IInv, Typed, FlagsTyped

\* gsmPPP_rawInput, the rest of lwIP and the modem begin and end sessions.
LEMMA OthersImplement ==
  /\ IInv /\ IInv'
  /\ PppInput \/ Lwip \/ World \/ UNCHANGED vars
  => Line!Next
<1> SUFFICES ASSUME IInv, IInv', PppInput \/ Lwip \/ World \/ UNCHANGED vars
             PROVE  Line!Next
  OBVIOUS
<1>1. CASE LinkEnd
  BY <1>1, LinkEndImplements
<1>2. CASE ~LinkEnd
  <2>1. UNCHANGED <<flags, gsmVars, pppPc, undercut>>
    BY <1>2 DEF PppInput, IpcpUp, IpcpDown, InputEndsLink, CbReset, CbReady,
       CbReadyAgain, CbConnect, Lwip, LinkCloses, HoldoffExpires, World, ModemFails,
       HealthChanges, vars, history
  <2>2. UNCHANGED LineOwnerOf /\ UNCHANGED (pppPc = "serving")
    BY <2>1 DEF flags, gsmVars, LineOwnerOf, Dialog
  <2> QED
    BY <2>2, SessionStep DEF Line!Next
<1> QED
  BY <1>1, <1>2

\* The bring-up implements LineOwner: whatever the tasks, lwIP and the modem do
\* between each other's steps, the line goes from hand to hand as LineOwner says, and
\* is contested only once PPP was closed under a callback.
THEOREM LineImplementsOwner == Spec => LineIsHandedOver
<1>1. Init => Line!Init
  BY DEF Init, Line!Init, Session, Dialog
<1>2. IInv /\ IInv' /\ [Next]_vars => [Line!Next]_(Line!vars)
  BY GsmTaskImplements, PppTaskImplements, OthersImplement DEF Next
<1> QED
  BY <1>1, <1>2, Invariance, PTL DEF Spec, LineIsHandedOver, Line!Spec

\* During the AT dialogue PPP neither negotiates nor transports on the same line, nor
\* will it by itself, and the publisher is not running, unless the line is contested.
THEOREM DialogueHasLine == Spec => []Line!DialogueIsAlone
<1>1. IInv => Line!DialogueIsAlone
  BY SessionIsOpen DEF IInv, Protocol, Flags, ModeMeansUp, ClosedInOrder, LineIsFree,
     ServingOnLine, Line!DialogueIsAlone
<1> QED
  BY Invariance, <1>1, PTL

\* The dial command finds a pppState from which gsmPPP_Tsk will connect, unless a
\* callback that PPP was closed under has written another one.
THEOREM DialFindsIdle == Spec => []DialFindsPppIdle
<1>1. IInv => DialFindsPppIdle
  BY DEF IInv, Protocol, Flags, ClosedInOrder, LineIsFree, DialogMeansDown,
     DialFindsPppIdle
<1> QED
  BY Invariance, <1>1, PTL

\* gsmPPP_Tsk never waits for a status callback that nobody will make.
THEOREM WaitIsAnswered == Spec => []WaitHasCallback
<1>1. IInv => WaitHasCallback
  BY DEF IInv, Protocol, Flags
<1> QED
  BY Invariance, <1>1, PTL

\* Once the publisher runs, the line is PPP's for good, unless a callback that PPP
\* was closed under has started it.
THEOREM LineIsPublishers == Spec => []PublisherKeepsLine
<1>1. IInv => PublisherKeepsLine
  BY DEF IInv, Protocol, Flags, ModeMeansUp, ClosedInOrder, ServingOnLine,
     PppModeReceives, DialogMeansDown, PublisherKeepsLine
<1> QED
  BY Invariance, <1>1, PTL

\* The request for a reset survives the race with gsmLLR_ModuleLost.
THEOREM ResetIsKept == Spec => []ResetNotForgotten
<1>1. IInv => ResetNotForgotten
  BY DEF IInv, Protocol, Flags
<1> QED
  BY Invariance, <1>1, PTL
=============================================================================
