------------------------------- MODULE GsmPpp -------------------------------
(***************************************************************************)
(* Bringing the GSM modem up and handing its serial line to PPP.           *)
(*                                                                         *)
(* Five actors share a handful of flags and none of them takes a lock:     *)
(*   - vGsmTask (Src/modem/gsm.c), priority idle+1: powers the modem, runs *)
(*     the AT script, dials, then polls gsmState.init every 3 seconds;     *)
(*   - gsmPPP_Tsk (Src/modem/gsmPPP.c), priority idle: starts PPP on the   *)
(*     dialled line and, when that fails, asks for a new bring-up;         *)
(*   - gsmPPP_rawInput (same file), priority idle: pppos_input handles     *)
(*     what the peer sends, and calls status_cb, in this task;             *)
(*   - the lwIP core thread, priority idle+1: PPP's timers, and the        *)
(*     status_cb of a negotiation that they end;                           *)
(*   - the modem and the network.                                          *)
(*                                                                         *)
(* Granularity.  vGsmTask and the lwIP thread outrank both tasks of        *)
(* gsmPPP.c and touch no common flag, so what they do between two blocking *)
(* calls is a single step.  The two tasks of gsmPPP.c share one priority   *)
(* and are time-sliced: each of gsmPPP_Tsk's reads and writes of a shared  *)
(* flag is a step of its own, and so is each write of status_cb in         *)
(* gsmPPP_rawInput. A call of ppp_connect or ppp_close is one step.        *)
(***************************************************************************)
EXTENDS Naturals

CONSTANTS
  Dial,           \* the number of AT commands from AT to ATD*99#: 13
  FirstDial,      \* the first of them that gsmLLR_StartPPP sends: 10
  PowerAttempts   \* how often gsmLLR_PowerUp looks at the status pin: 3

ASSUME ScriptAssumption ==
  /\ Dial \in Nat
  /\ FirstDial \in 1..Dial
  /\ PowerAttempts \in Nat

VARIABLES
  init,           \* gsmState.init
  notRespond,     \* gsmState.notRespond
  pppModeEnable,  \* uartParcerStruct.ppp.pppModeEnable
  receiveState,   \* uartParcerStruct.uart.receiveState: the rx interrupt stores bytes
  pppState,       \* the global pppState
  gsmPc,          \* where vGsmTask is blocked
  cmd,            \* the AT command it is running, 0 between two scripts
  attempt,        \* the attempt counter of gsmLLR_PowerUp, 0 outside
  pppPc,          \* where gsmPPP_Tsk is
  phase,          \* lwIP: pcb->phase
  errCode,        \* lwIP: pcb->err_code
  closing,        \* lwIP: LCP is terminating, of its own or on request
  inPc,           \* where gsmPPP_rawInput is: in its loop or in status_cb
  cbErr,          \* the err_code it gave to status_cb, until it has been looked at
  modem,          \* external: the modem
  healthy,        \* external: modem, SIM, network and heap behave from now on
  resetOwed,      \* history: PPP failed and the modem was not reset since
  undercut        \* history: gsmPPP_Tsk closed PPP under a status_cb of
                  \* gsmPPP_rawInput, and what that callback did may stand

flags   == <<init, notRespond, pppModeEnable, receiveState>>
gsmVars == <<gsmPc, cmd, attempt>>
pcb     == <<phase, errCode, closing>>
link    == <<pppState, pcb>>
input   == <<inPc, cbErr>>
world   == <<modem, healthy>>
history == <<resetOwed, undercut>>
vars    == <<flags, gsmVars, pppPc, link, input, world, history>>

-----------------------------------------------------------------------------
(* The script of vGsmTask, one entry per call of runAtCommand.             *)

\* Command 0 is the AT with which gsmLLR_PowerUp probes a module it has just
\* switched on. The script proper is
\*    1 AT     2 AT+CBATRANG   3 ATZ        4 AT+GSN        5 AT+CIMI
\*    6 AT+CGMR   7 AT+CREG    8 AT+CSQ     9 AT+CNUM
\*   10 AT+CFUN  11 AT+CSTT   12 AT+CGDCONT   13 ATD*99#
Command == 0..Dial

\* gsmLLR_WarningOff overwrites the result of its first command, and
\* gsmLLR_StartPPP looks at none of its four.
ResultIgnored(c) == c = 2 \/ c >= FirstDial

GsmPcs == {"top", "powerUp", "powerKey", "lost", "resetting", "send", "reply",
           "pause"}
PppPcs == {"poll", "setWait", "connect", "close", "notInited", "modeOff",
           "initOff", "reportLost", "checkReady", "serving"}
InPcs  == {"loop", "cbReset", "cbReady", "cbReadyAgain", "cbConnect"}

\* "establish" stands for every phase from PPP_PHASE_ESTABLISH to _NETWORK, and for
\* _TERMINATE and _DISCONNECT: closing tells these apart.
Phases == {"dead", "holdoff", "establish", "running"}

\* vGsmTask talks to the modem, or is about to.
Dialog == gsmPc \in {"powerUp", "powerKey", "lost", "resetting", "send", "reply"}

Init ==
  /\ init = FALSE /\ notRespond = FALSE
  /\ pppModeEnable = FALSE /\ receiveState = FALSE
  /\ pppState = "not_inited"
  /\ gsmPc = "top" /\ cmd = 0 /\ attempt = 0
  /\ pppPc = "poll"
  /\ phase = "dead" /\ errCode = "none" /\ closing = FALSE
  /\ inPc = "loop" /\ cbErr = "none"
  /\ modem \in {"off", "command"}
  /\ healthy \in BOOLEAN
  /\ resetOwed = FALSE /\ undercut = FALSE

-----------------------------------------------------------------------------
(* vGsmTask.                                                               *)

\* The head of the endless loop.
CheckInit ==
  /\ gsmPc = "top"
  /\ gsmPc' = IF init THEN "pause" ELSE "powerUp"
  /\ UNCHANGED <<flags, cmd, attempt, pppPc, link, input, world, history>>

WakeUp ==
  /\ gsmPc = "pause"
  /\ gsmPc' = "top"
  /\ UNCHANGED <<flags, cmd, attempt, pppPc, link, input, world, history>>

\* What follows a gsmLLR_PowerUp that succeeded.
CheckResponding ==
  IF notRespond
  THEN /\ gsmPc' = "lost"
       /\ UNCHANGED cmd
  ELSE /\ gsmPc' = "send"
       /\ cmd' = 1

\* gsmLLR_PowerUp with the status pin telling that the module is on.
AlreadyUp ==
  /\ gsmPc = "powerUp"
  /\ modem # "off"
  /\ CheckResponding
  /\ UNCHANGED <<flags, attempt, pppPc, link, input, world, history>>

StartPowerKey ==
  /\ gsmPc = "powerUp"
  /\ modem = "off"
  /\ gsmPc' = "powerKey"
  /\ attempt' = 0
  /\ UNCHANGED <<flags, cmd, pppPc, link, input, world, history>>

\* Seeded fault: one attempt too many.
PulsePowerKeyOnceMore ==
  /\ gsmPc = "powerKey"
  /\ attempt <= PowerAttempts
  /\ modem = "off"
  /\ attempt' = attempt + 1
  /\ modem' \in {"off", "command"}
  /\ UNCHANGED <<flags, gsmPc, cmd, pppPc, link, input, healthy, history>>

\* One turn of its loop that finds the module off: raise PWRKEY, wait 6 s. The
\* key is never released, so even a healthy module may ignore it.
PulsePowerKey ==
  /\ gsmPc = "powerKey"
  /\ attempt < PowerAttempts
  /\ modem = "off"
  /\ attempt' = attempt + 1
  /\ modem' \in {"off", "command"}
  /\ UNCHANGED <<flags, gsmPc, cmd, pppPc, link, input, healthy, history>>

\* One turn that finds it on: probe it with AT.
ProbeAfterKey ==
  /\ gsmPc = "powerKey"
  /\ attempt < PowerAttempts
  /\ modem # "off"
  /\ gsmPc' = "send"
  /\ cmd' = 0
  /\ UNCHANGED <<flags, attempt, pppPc, link, input, world, history>>

PowerUpFails ==
  /\ gsmPc = "powerKey"
  /\ attempt = PowerAttempts
  /\ gsmPc' = "lost"
  /\ attempt' = 0
  /\ UNCHANGED <<flags, cmd, pppPc, link, input, world, history>>

\* gsmLLR_ModuleLost up to the delays of gsmLLR_Reset, and after them.
ModuleLost ==
  /\ gsmPc = "lost"
  /\ init' = FALSE
  /\ gsmPc' = "resetting"
  /\ modem' \in IF healthy THEN {"command"} ELSE {"off", "command"}
  /\ resetOwed' = FALSE
  /\ UNCHANGED <<notRespond, pppModeEnable, receiveState, cmd, attempt, pppPc, link,
                 input, healthy, undercut>>

\* Seeded fault: the module stays marked as lost.
ResetDoneStillLost ==
  /\ gsmPc = "resetting"
  /\ gsmPc' = "top"
  /\ UNCHANGED <<flags, cmd, attempt, pppPc, link, input, world, history>>

ResetDone ==
  /\ gsmPc = "resetting"
  /\ notRespond' = FALSE
  /\ gsmPc' = "top"
  /\ UNCHANGED <<init, pppModeEnable, receiveState, cmd, attempt, pppPc, link,
                 input, world, history>>

-----------------------------------------------------------------------------
(* runAtCommand and what its callers do with the result.                   *)

\* Seeded fault: gsmPPP_Tsk is not told.
EnterPppModeUntold ==
  /\ receiveState' = TRUE
  /\ init' = TRUE
  /\ gsmPc' = "pause"
  /\ cmd' = 0
  /\ UNCHANGED <<notRespond, pppModeEnable, attempt>>

\* The end of gsmLLR_StartPPP and the lines after it: the line goes to PPP.
EnterPppMode ==
  /\ pppModeEnable' = TRUE
  /\ receiveState' = TRUE
  /\ init' = TRUE
  /\ gsmPc' = "pause"
  /\ cmd' = 0
  /\ UNCHANGED <<notRespond, attempt>>

\* Command cmd returned a result equal to eOk (ok) or not; rx is what
\* runAtCommand left in receiveState.
Returned(ok, rx) ==
  \/ /\ cmd = 0 /\ ok
     /\ init' = FALSE
     /\ receiveState' = rx
     /\ CheckResponding
     /\ attempt' = 0
     /\ UNCHANGED <<notRespond, pppModeEnable>>
  \/ /\ cmd = 0 /\ ~ok
     /\ attempt' = attempt + 1
     /\ gsmPc' = "powerKey"
     /\ receiveState' = rx
     /\ UNCHANGED <<init, notRespond, pppModeEnable, cmd>>
  \/ /\ cmd \in 1..Dial-1
     /\ ok \/ ResultIgnored(cmd)
     /\ cmd' = cmd + 1
     /\ gsmPc' = "send"
     /\ receiveState' = rx
     /\ UNCHANGED <<init, notRespond, pppModeEnable, attempt>>
  \/ /\ cmd \in 1..Dial-1
     /\ ~ok /\ ~ResultIgnored(cmd)
     /\ notRespond' = TRUE
     /\ gsmPc' = "top"
     /\ cmd' = 0
     /\ receiveState' = rx
     /\ UNCHANGED <<init, pppModeEnable, attempt>>
  \/ /\ cmd = Dial
     /\ EnterPppMode

\* After the 500 ms delay: the command goes out and the task waits for bytes.
SendCommand ==
  /\ gsmPc = "send"
  /\ receiveState' = TRUE
  /\ gsmPc' = "reply"
  /\ UNCHANGED <<init, notRespond, pppModeEnable, cmd, attempt, pppPc, link, input,
                 world, history>>

\* It does not go out: no memory for it (receiveState stays), or the transmitter
\* is busy (receiveState is already set). result was never assigned.
CannotSend ==
  /\ gsmPc = "send"
  /\ ~healthy
  /\ \E garbage \in BOOLEAN, rx \in {receiveState, TRUE} : Returned(garbage, rx)
  /\ UNCHANGED <<pppPc, link, input, world, history>>

\* OK or CONNECT is found in the bytes received. The queue is never emptied
\* between two commands, so the marker may be a late one that was meant for an
\* earlier command: no condition on the modem.
ReplyFound ==
  /\ gsmPc = "reply"
  /\ healthy => modem = "command"
  /\ Returned(TRUE, FALSE)
  /\ modem' \in IF cmd = Dial /\ modem = "command"
                THEN (IF healthy THEN {"data"} ELSE {"command", "data"})
                ELSE {modem}
  /\ UNCHANGED <<pppPc, link, input, healthy, history>>

\* One second of silence, an ERROR before it or not: result was never assigned.
ReplyTimeout ==
  /\ gsmPc = "reply"
  /\ healthy => modem # "command"
  /\ \E garbage \in BOOLEAN : Returned(garbage, FALSE)
  /\ UNCHANGED <<pppPc, link, input, world, history>>

\* gsmLLR_StartPPP gets no memory: it sends nothing and still returns eOk.
DialWithoutMemory ==
  /\ gsmPc = "send"
  /\ cmd = FirstDial
  /\ ~healthy
  /\ EnterPppMode
  /\ UNCHANGED <<pppPc, link, input, world, history>>

-----------------------------------------------------------------------------
(* status_cb as one step, with the error code err: in the lwIP thread, which  *)
(* outranks the tasks of gsmPPP.c, and in gsmPPP_Tsk itself, where err is     *)
(* PPPERR_USER. The control block is dead by then.                            *)

\* Seeded fault: the state is not reset before the error is looked at.
StatusCbKeepsState(err) ==
  /\ errCode' = err
  /\ phase' = IF err = "user" THEN "dead" ELSE "holdoff"
  /\ UNCHANGED pppState

StatusCb(err) ==
  /\ pppState' = "not_inited"
  /\ errCode' = err
  /\ phase' = IF err = "user" THEN "dead" ELSE "holdoff"    \* ppp_connect(pcb, 30)

-----------------------------------------------------------------------------
(* gsmPPP_Tsk.                                                             *)

PppStep(from, to) == pppPc = from /\ pppPc' = to

PollMode ==
  /\ PppStep("poll", IF pppModeEnable /\ pppState \notin {"wait", "ready"}
                     THEN "setWait" ELSE "checkReady")
  /\ UNCHANGED <<flags, gsmVars, link, input, world, history>>

SetWait ==
  /\ PppStep("setWait", "connect")
  /\ pppState' = "wait"
  /\ UNCHANGED <<flags, gsmVars, pcb, input, world, history>>

\* ppp_connect(ppp, 0). It does not clear err_code.
ConnectOk ==
  /\ phase = "dead"
  /\ PppStep("connect", "checkReady")
  /\ phase' = "establish"
  /\ UNCHANGED <<flags, gsmVars, pppState, errCode, closing, input, world, history>>

ConnectAlready ==
  /\ phase # "dead"
  /\ PppStep("connect", "close")
  /\ resetOwed' = TRUE
  /\ UNCHANGED <<flags, gsmVars, link, input, world, undercut>>

\* Seeded fault: ppp_close is not called.
CloseForgotten ==
  /\ PppStep("close", "notInited")
  /\ UNCHANGED <<flags, gsmVars, link, input, world, history>>

\* ppp_close(ppp, 0): in the hold-off and dead phases the callback is called on
\* the spot, otherwise LCP starts to terminate, and leaves the running phase.
Close ==
  /\ PppStep("close", "notInited")
  /\ \/ /\ phase \in {"dead", "holdoff"}
        /\ StatusCb("user")
        /\ UNCHANGED closing
     \/ /\ phase \in {"establish", "running"}
        /\ phase' = "establish"
        /\ errCode' = "user"
        /\ closing' = TRUE
        /\ UNCHANGED pppState
  /\ undercut' = (inPc # "loop")
  /\ UNCHANGED <<flags, gsmVars, input, world, resetOwed>>

\* Seeded fault: pppState keeps its value.
MarkNotInitedForgotten ==
  /\ PppStep("notInited", "modeOff")
  /\ UNCHANGED <<flags, gsmVars, link, input, world, history>>

MarkNotInited ==
  /\ PppStep("notInited", "modeOff")
  /\ pppState' = "not_inited"
  /\ UNCHANGED <<flags, gsmVars, pcb, input, world, history>>

\* Seeded fault: PPP mode stays on.
MarkModeOffForgotten ==
  /\ PppStep("modeOff", "initOff")
  /\ UNCHANGED <<flags, gsmVars, link, input, world, history>>

MarkModeOff ==
  /\ PppStep("modeOff", "initOff")
  /\ pppModeEnable' = FALSE
  /\ UNCHANGED <<init, notRespond, receiveState, gsmVars, link, input, world,
                 history>>

\* Seeded fault: gsmState.init keeps its value.
MarkInitOffForgotten ==
  /\ PppStep("initOff", "reportLost")
  /\ UNCHANGED <<flags, gsmVars, link, input, world, history>>

MarkInitOff ==
  /\ PppStep("initOff", "reportLost")
  /\ init' = FALSE
  /\ UNCHANGED <<notRespond, pppModeEnable, receiveState, gsmVars, link, input,
                 world, history>>

\* Seeded fault: nobody asks for the reset.
MarkNotRespondForgotten ==
  /\ PppStep("reportLost", "checkReady")
  /\ UNCHANGED <<flags, gsmVars, link, input, world, history>>

MarkNotRespond ==
  /\ PppStep("reportLost", "checkReady")
  /\ notRespond' = TRUE
  /\ UNCHANGED <<init, pppModeEnable, receiveState, gsmVars, link, input, world,
                 history>>

\* Once it has seen a ready link the task starts the publisher and never comes
\* back to the loop.
CheckReady ==
  /\ PppStep("checkReady", IF pppState = "ready" THEN "serving" ELSE "poll")
  /\ UNCHANGED <<flags, gsmVars, link, input, world, history>>

-----------------------------------------------------------------------------
(* gsmPPP_rawInput: a packet of the peer changes the link, and status_cb    *)
(* runs in this task, write by write. Its parameter is a copy of err_code.  *)

InStep(from, to) == inPc = from /\ inPc' = to

\* ipcp_up calls sifup, which clears err_code and calls the callback. The phase
\* becomes PPP_PHASE_RUNNING afterwards, in np_up.
IpcpUp ==
  /\ InStep("loop", "cbReset")
  /\ pppModeEnable
  /\ phase = "establish" /\ ~closing
  /\ modem = "data"
  /\ errCode' = "none"
  /\ cbErr' = "none"
  /\ UNCHANGED <<flags, gsmVars, pppPc, pppState, phase, closing, world, history>>

\* The peer negotiates IPCP anew: np_down. No callback tells of it.
IpcpDown ==
  /\ inPc = "loop"
  /\ pppModeEnable
  /\ phase = "running" /\ ~closing
  /\ ~healthy
  /\ phase' = "establish"
  /\ UNCHANGED <<flags, gsmVars, pppPc, pppState, errCode, closing, input, world,
                 history>>

\* The last packet of a link, as a rule a Terminate-Ack: ppp_link_end. The bytes may
\* have been taken from the queue before PPP mode was switched off.
InputEndsLink ==
  /\ InStep("loop", "cbReset")
  /\ phase \in {"establish", "running"}
  /\ closing \/ ~(healthy /\ modem = "data")
  /\ phase' = "dead"
  /\ closing' = FALSE
  /\ errCode' = IF errCode = "none" THEN "lost" ELSE errCode
  /\ cbErr' = errCode'
  /\ UNCHANGED <<flags, gsmVars, pppPc, pppState, world, history>>

CbReset ==
  /\ InStep("cbReset", CASE cbErr = "none" -> "cbReady"
                         [] cbErr = "user" -> "loop"
                         [] OTHER          -> "cbConnect")
  /\ pppState' = "not_inited"
  /\ cbErr' = "none"
  /\ UNCHANGED <<flags, gsmVars, pppPc, pcb, world, history>>

\* The two writes of PPPERR_NONE, before and after the addresses are printed. The
\* second one is followed by np_up: a terminating LCP does not keep it from
\* entering the running phase.
CbReady ==
  /\ InStep("cbReady", "cbReadyAgain")
  /\ pppState' = "ready"
  /\ UNCHANGED <<flags, gsmVars, pppPc, pcb, cbErr, world, history>>

CbReadyAgain ==
  /\ InStep("cbReadyAgain", "loop")
  /\ pppState' = "ready"
  /\ phase' = "running"
  /\ UNCHANGED <<flags, gsmVars, pppPc, errCode, closing, cbErr, world, history>>

\* ppp_connect(pcb, 30), ERR_ALREADY if the control block lives again.
CbConnect ==
  /\ InStep("cbConnect", "loop")
  /\ phase' = IF phase = "dead" THEN "holdoff" ELSE phase
  /\ UNCHANGED <<flags, gsmVars, pppPc, pppState, errCode, closing, cbErr, world,
                 history>>

-----------------------------------------------------------------------------
(* LCP and its timers, in the lwIP core thread.                            *)

\* LCP of either side closes the link; a failed authentication and a looped-back
\* line set an err_code of their own first.
LinkCloses ==
  /\ phase \in {"establish", "running"} /\ ~closing
  /\ ~(healthy /\ modem = "data")
  /\ phase' = "establish"
  /\ closing' = TRUE
  /\ errCode' \in {errCode, "lost"}
  /\ UNCHANGED <<flags, gsmVars, pppPc, pppState, input, world, history>>

\* ppp_link_end, after the last retransmission: an err_code left by an earlier
\* failure stays, only "none" becomes PPPERR_CONNECT. It takes seconds, and
\* status_cb waits for nothing: a callback of gsmPPP_rawInput is over by then. The
\* end of a link closed under one heals the mix-up, unless the publisher runs.
LinkEnd ==
  /\ phase \in {"establish", "running"}
  /\ closing \/ ~(healthy /\ modem = "data")
  /\ inPc = "loop"
  /\ StatusCb(IF errCode = "none" THEN "lost" ELSE errCode)
  /\ closing' = FALSE
  /\ undercut' = (undercut /\ (phase' # "dead" \/ pppPc = "serving"))
  /\ UNCHANGED <<flags, gsmVars, pppPc, input, world, resetOwed>>

HoldoffExpires ==
  /\ phase = "holdoff"
  /\ phase' = "establish"
  /\ UNCHANGED <<flags, gsmVars, pppPc, pppState, errCode, closing, input, world,
                 history>>

-----------------------------------------------------------------------------
(* The modem and everything else that can fail.                            *)

ModemFails ==
  /\ ~healthy
  /\ modem' \in {m \in {"off", "command"} : modem = "data" \/ m = "off"}
  /\ modem' # modem
  /\ UNCHANGED <<flags, gsmVars, pppPc, link, input, healthy, history>>

HealthChanges ==
  /\ healthy' = ~healthy
  /\ UNCHANGED <<flags, gsmVars, pppPc, link, input, modem, history>>

-----------------------------------------------------------------------------
GsmTask ==
  \/ CheckInit \/ WakeUp
  \/ AlreadyUp \/ StartPowerKey \/ PulsePowerKey \/ ProbeAfterKey \/ PowerUpFails
  \/ ModuleLost \/ ResetDone
  \/ SendCommand \/ CannotSend \/ ReplyFound \/ ReplyTimeout \/ DialWithoutMemory

PppTask ==
  \/ PollMode \/ SetWait \/ ConnectOk \/ ConnectAlready \/ Close
  \/ MarkNotInited \/ MarkModeOff \/ MarkInitOff \/ MarkNotRespond \/ CheckReady

PppInput ==
  \/ IpcpUp \/ IpcpDown \/ InputEndsLink
  \/ CbReset \/ CbReady \/ CbReadyAgain \/ CbConnect

Lwip == LinkCloses \/ LinkEnd \/ HoldoffExpires

World == ModemFails \/ HealthChanges

Next == GsmTask \/ PppTask \/ PppInput \/ Lwip \/ World

Spec == Init /\ [][Next]_vars

\* Every delay ends, every received byte or timeout wakes vGsmTask; the scheduler
\* runs the tasks of gsmPPP.c in turn whenever the ones above them are blocked; the
\* retransmission counters and the hold-off timer run out, so a negotiation ends, up
\* or not. Nothing is assumed of the modem: IPCP comes up only while it is healthy.
Fairness ==
  /\ WF_vars(GsmTask)
  /\ WF_vars(PppTask)
  /\ WF_vars(healthy /\ IpcpUp)
  /\ WF_vars(CbReset \/ CbReady \/ CbReadyAgain \/ CbConnect)
  /\ WF_vars(LinkEnd)
  /\ WF_vars(IpcpUp \/ LinkEnd)
  /\ WF_vars(HoldoffExpires)

FairSpec == Spec /\ Fairness

-----------------------------------------------------------------------------
(* Safety.                                                                 *)

TypeOK ==
  /\ init \in BOOLEAN /\ notRespond \in BOOLEAN
  /\ pppModeEnable \in BOOLEAN /\ receiveState \in BOOLEAN
  /\ pppState \in {"not_inited", "wait", "ready"}
  /\ gsmPc \in GsmPcs /\ cmd \in Command /\ attempt \in 0..PowerAttempts
  /\ pppPc \in PppPcs
  /\ phase \in Phases /\ errCode \in {"none", "user", "lost"} /\ closing \in BOOLEAN
  /\ inPc \in InPcs /\ cbErr \in {"none", "user", "lost"}
  /\ modem \in {"off", "command", "data"} /\ healthy \in BOOLEAN
  /\ resetOwed \in BOOLEAN /\ undercut \in BOOLEAN

\* While vGsmTask reads the reply of an AT command the line is not in PPP mode:
\* uartParceReceiveData never reaches its "pppModeEnable = TRUE ERROR" branch,
\* although gsmPPP_Tsk asks for the bring-up with unguarded writes.
ParserNeverSeesPppMode == gsmPc = "reply" => ~pppModeEnable

\* The line is handed over as LineOwner says, by flags that no lock guards: while
\* vGsmTask talks to the modem no PPP session is negotiated, used or coming back by
\* itself on the same line, for gsmPPP_Tsk closes PPP before it lets the bring-up
\* begin; and once the publisher was started neither task takes the line back. The
\* one way in which this fails is the owner "contested": gsmPPP_Tsk closed PPP while
\* gsmPPP_rawInput was in status_cb, and the callback goes on as if it had not.
Session == phase # "dead" /\ ~(closing /\ errCode = "user")
Line == INSTANCE LineOwner
        WITH owner      <- IF undercut THEN "contested"
                           ELSE IF init THEN "ppp"
                           ELSE IF Dialog THEN "dialogue" ELSE "nobody",
             session    <- Session,
             publishing <- pppPc = "serving"
LineIsHandedOver == Line!Spec

\* When vGsmTask turns PPP mode on, pppState must be one that lets gsmPPP_Tsk
\* connect; a value left over from the last session would be taken for a
\* connection that is still coming or already there. Only a status_cb that
\* gsmPPP_Tsk closed PPP under leaves one.
DialFindsPppIdle == Dialog /\ ~undercut => pppState = "not_inited"

\* gsmPPP_Tsk only waits for a status callback that is still to come: "wait" is
\* never left standing over a control block that is dead, where nobody would
\* ever call back. The writes of a callback may come between any two of its steps.
WaitHasCallback ==
  (pppState = "wait" /\ pppPc \in {"poll", "checkReady", "serving"})
     => phase = "establish" \/ inPc = "cbReset"

\* A reset asked for after a PPP failure is never forgotten, although
\* gsmLLR_ModuleLost clears notRespond while gsmPPP_Tsk may be about to set it.
ResetNotForgotten ==
  resetOwed => \/ notRespond
               \/ pppPc \in {"close", "notInited", "modeOff", "initOff", "reportLost"}

\* The publisher is started, for ever, on a line that vGsmTask has left in PPP mode
\* with the receive interrupt storing what arrives: no status callback of a session
\* that gsmPPP_Tsk is giving up makes it start one, except the one it closed PPP
\* under, no dial command leaves receiveState cleared, and nobody takes the line away
\* afterwards.
PublisherKeepsLine ==
  pppPc = "serving" /\ ~undercut => init /\ pppModeEnable /\ receiveState /\ ~Dialog

-----------------------------------------------------------------------------
(* Liveness.                                                               *)

\* With a modem that answers from some time on, every bring-up comes to its end.
BringUpEnds == <>[]healthy => (~init ~> init)

\* A dialled line whose two ends behave ends up as a running PPP link, unless
\* gsmPPP_Tsk closed PPP under a callback and serves a line that is not there.
DialledLineConnects ==
  <>[](healthy /\ modem = "data")
    => <>[](phase = "running") \/ <>[](undercut /\ pppPc = "serving")

\* A link that lwIP gave up (hold-off) before the publisher was started comes
\* back by itself or gsmPPP_Tsk asks for a new bring-up, unless again and again its
\* ppp_connect comes just when a packet of the peer is ending the link.
FirstFailureIsHandled ==
  \/ (phase = "holdoff" /\ ~undercut) ~> (phase = "running" \/ ~init \/ pppPc = "serving")
  \/ []<>(inPc # "loop" /\ pppPc = "connect")

-----------------------------------------------------------------------------
(* What the comments say.                                                  *)

\* gsm.c: "if gsm is ready then the task does nothing in the pause otherwise
\* begin initialization": a modem that is not ready is initialised again. Once
\* the publisher has been started nobody looks; the property asks for it before, and
\* only where no packet of the peer ends a link: lwIP's timers alone tell of it.
LostModemIsReinitialisedEarly ==
  (init /\ modem # "data")
    ~> (~init \/ modem = "data" \/ pppPc = "serving" \/ inPc # "loop")

\* gsmPPP.c: "AWS PPP: module initialized.", logged before the publisher is started,
\* and "PPP status callback is called on PPP status change ... from lwIP core
\* thread", which gsmPPP_Tsk would see as one step: the module the publisher is
\* started on is one that vGsmTask has initialised.
ServedModuleIsInitialised == pppPc = "serving" => init
=============================================================================
