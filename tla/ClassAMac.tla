------------------------------ MODULE ClassAMac -----------------------------
(***************************************************************************)
(* The Class-A end-device MAC of model/end-device-lorawan-mac.cc and       *)
(* model/class-a-end-device-lorawan-mac.cc, driven by the ns-3 simulator's *)
(* event queue and by the PHY's callbacks.                                 *)
(*                                                                         *)
(* Every handler of the code is an operator from a world record (one field *)
(* per variable) to the world after the handler, so that a handler that    *)
(* calls another (CloseSecondReceiveWindow -> Send -> DoSend -> SendToPhy) *)
(* is their composition, taken in one step as the simulator runs it.  The  *)
(* random draws of a handler (ack_timeout, the channel picked for TX) come *)
(* in as an argument rng that the action chooses.                          *)
(***************************************************************************)
EXTENDS Integers, SequencesExt, MacCommands

CONSTANTS
    InitChannels,     \* Slots -> channel record or NoChannel, as the helper installs them
    MaxPackets,       \* number of application packets
    PayloadSizes,     \* FRMPayload sizes the application may hand to Send
    AdrAckLimit,      \* ADR_ACK_LIMIT (64 in the code, scaled down)
    AdrAckDelay,      \* ADR_ACK_DELAY (32 in the code, scaled down)
    ReceiveDelay1,    \* m_receiveDelay1 (1 s)
    ReceiveDelay2,    \* m_receiveDelay2 (2 s)
    WindowDuration,   \* m_receiveWindowDurationInSymbols * tSym, rounded up to one unit
    AirTime,          \* time on air of an uplink
    AckTimeouts,      \* values of m_uniformRV->GetValue(1, 3) in time units
    RxDurations,      \* durations of a downlink reception the PHY may lock on
    MaxTime,          \* bound on idle time passing
    InitRadios,       \* set of [dataRate, txPowerDbm, nbTrans, adr, mType] set by the helper and app
    AppWaitsForIdle,  \* the application only sends when the MAC has nothing scheduled
    DownlinkCommands, \* command lists a downlink for this device may carry in FOpts
    AppCommands       \* commands the application may queue with AddMacCommand

ASSUME ReceiveDelay1 + WindowDuration < ReceiveDelay2

VARIABLES
    now,         \* Simulator::Now()
    events,      \* pending simulator events [id, at, kind, pkt]
    nextId,      \* uid of the next scheduled event (same-time events fire in uid order)
    handles,     \* the EventIds m_nextTx, m_closeFirstWindow, m_closeSecondWindow, m_secondReceiveWindow
    phy,         \* EndDeviceLoraPhy state
    mac,         \* radio parameters, counters and the MAC command answer list
    retx,        \* m_retxParams
    channels,    \* LogicalLoraChannelHelper::m_channelVec
    nextTxTime,  \* SubBand::m_nextTransmissionTime per sub-band
    nextPkt,     \* next application packet
    pktSize,     \* FRMPayload size of each application packet
    reports,     \* history: the RequiredTransmissions trace (txs, success, packet)
    txCount,     \* history: frames handed to the PHY per packet
    lastTx,      \* history: the last frame handed to the PHY
    fault        \* "none", or the abort / null dereference the code reached

vars == <<now, events, nextId, handles, phy, mac, retx, channels, nextTxTime,
          nextPkt, pktSize, reports, txCount, lastTx, fault>>

Packets == 1..MaxPackets
NoPacket == 0                     \* m_retxParams.packet = nullptr
PhyStates == {"SLEEP", "STANDBY", "RX", "TX"}
EventKinds == {"DoSend", "TxEnd", "OpenRx1", "CloseRx1", "OpenRx2", "CloseRx2", "RxEnd"}
NoEvent == [id |-> 0, ts |-> 0]   \* EventId(): expired, timestamp 0
Rng == [ack : AckTimeouts, ch : Slots]

\* No frame handed to the PHY yet.
NoFrame == [pkt |-> NoPacket, ch |-> 0, freq |-> 0, at |-> 0, phyBefore |-> "SLEEP",
            fOptsLen |-> 0, fCnt |-> 0, adrAckReq |-> FALSE, dataRate |-> 0, txPowerDbm |-> 0]

\* The downlink or uplink frames a reception may deliver to Receive.
Frames == [downlink : {TRUE}, forUs : {TRUE}, ack : BOOLEAN, cmds : DownlinkCommands]
          \cup [downlink : {TRUE}, forUs : {FALSE}, ack : {FALSE}, cmds : {<<>>}]
          \cup [downlink : {FALSE}, forUs : {FALSE}, ack : {FALSE}, cmds : {<<>>}]

World == [now |-> now, events |-> events, nextId |-> nextId, handles |-> handles,
          phy |-> phy, mac |-> mac, retx |-> retx, channels |-> channels,
          nextTxTime |-> nextTxTime, nextPkt |-> nextPkt, pktSize |-> pktSize,
          reports |-> reports, txCount |-> txCount, lastTx |-> lastTx,
          fault |-> fault, valid |-> TRUE]

Apply(w) ==
    /\ w.valid
    /\ now' = w.now /\ events' = w.events /\ nextId' = w.nextId
    /\ handles' = w.handles /\ phy' = w.phy /\ mac' = w.mac /\ retx' = w.retx
    /\ channels' = w.channels /\ nextTxTime' = w.nextTxTime /\ nextPkt' = w.nextPkt
    /\ pktSize' = w.pktSize /\ reports' = w.reports /\ txCount' = w.txCount
    /\ lastTx' = w.lastTx /\ fault' = w.fault

-----------------------------------------------------------------------------
(* The simulator: Schedule, Cancel and EventId::IsExpired.                 *)

Schedule(w, delay, kind, pkt) ==
    [w EXCEPT !.events = @ \cup {[id |-> w.nextId, at |-> w.now + delay,
                                  kind |-> kind, pkt |-> pkt]},
              !.nextId = @ + 1]

\* Schedule and keep the EventId in the named handle.
ScheduleInto(w, h, delay, kind, pkt) ==
    [Schedule(w, delay, kind, pkt) EXCEPT
        !.handles[h] = [id |-> w.nextId, ts |-> w.now + delay]]

Cancel(w, h) == [w EXCEPT !.events = {e \in @ : e.id # w.handles[h].id}]

IsExpired(w, h) == \A e \in w.events : e.id # w.handles[h].id

-----------------------------------------------------------------------------
(* EndDeviceLorawanMac helpers.                                            *)

\* Mutant: retxLeft restarts one short of m_nbTrans.
ResetRetransmissionParametersOffByOne(w) ==
    Cancel([w EXCEPT !.retx = [packet |-> NoPacket, waitingAck |-> FALSE,
                               retxLeft |-> w.mac.nbTrans - 1]], "nextTx")

ResetRetransmissionParameters(w) ==
    Cancel([w EXCEPT !.retx = [packet |-> NoPacket, waitingAck |-> FALSE,
                               retxLeft |-> w.mac.nbTrans]], "nextTx")

\* m_requiredTxCallback(txs, success, firstAttempt, packet); txs is a uint8_t.
RequiredTx(w, success) ==
    [w EXCEPT !.reports = Append(@, [pkt |-> w.retx.packet, success |-> success,
                                     txs |-> (w.mac.nbTrans - w.retx.retxLeft) % 256])]

\* Mutant: the last back-off step sets nbTrans to 0 instead of 1.
ExecuteADRBackoffNbTransZero(w) ==
    CASE ~w.mac.adr -> w
      [] w.mac.adr /\ w.mac.txPowerDbm < DefaultTxPowerDbm ->
            [w EXCEPT !.mac.txPowerDbm = DefaultTxPowerDbm]
      [] w.mac.adr /\ w.mac.txPowerDbm >= DefaultTxPowerDbm /\ w.mac.dataRate # 0 ->
            [w EXCEPT !.mac.dataRate = @ - 1]
      [] w.mac.adr /\ w.mac.txPowerDbm >= DefaultTxPowerDbm /\ w.mac.dataRate = 0 ->
            [w EXCEPT !.mac.nbTrans = 0]

ExecuteADRBackoff(w) ==
    CASE ~w.mac.adr -> w
      [] w.mac.adr /\ w.mac.txPowerDbm < DefaultTxPowerDbm ->
            [w EXCEPT !.mac.txPowerDbm = DefaultTxPowerDbm]
      [] w.mac.adr /\ w.mac.txPowerDbm >= DefaultTxPowerDbm /\ w.mac.dataRate # 0 ->
            [w EXCEPT !.mac.dataRate = @ - 1]
      [] w.mac.adr /\ w.mac.txPowerDbm >= DefaultTxPowerDbm /\ w.mac.dataRate = 0 ->
            IF \E i \in 0..2 : w.channels[i] = NoChannel
            THEN [w EXCEPT !.fault = "NullDefaultChannel"]
            ELSE [w EXCEPT !.mac.nbTrans = 1,
                           !.channels = [i \in Slots |->
                               IF i \in 0..2 THEN EnableForUplink(w.channels[i])
                                             ELSE w.channels[i]]]

\* Serialized size of the queued MAC command answers (FOpts).
FOptsLen(list) == FoldSeq(LAMBDA c, acc : acc + c.size, 0, list)

\* Mutant: the one-byte FPort is left out of the size.
IsPayloadSizeValidNoFPort(w, appPayloadSize, dataRate) ==
    7 + FOptsLen(w.mac.macCommandList) + appPayloadSize <= MaxMacPayload(dataRate)

IsPayloadSizeValid(w, appPayloadSize, dataRate) ==
    7 + FOptsLen(w.mac.macCommandList) + 1 + appPayloadSize <= MaxMacPayload(dataRate)

\* GetCompatibleTxChannels asks GetTxPowerForChannel of every enabled channel,
\* which asserts that its frequency lies in a sub-band.
OutOfBandEnabled(w) ==
    \E i \in Slots : w.channels[i] # NoChannel /\ w.channels[i].enabled
                    /\ ~IsFrequencyValid(w.channels[i].freq)

GetCompatibleTxChannels(w) ==
    {i \in Slots : /\ w.channels[i] # NoChannel
                   /\ w.channels[i].enabled
                   /\ w.channels[i].minDr <= w.mac.dataRate
                   /\ w.mac.dataRate <= w.channels[i].maxDr
                   /\ w.mac.txPowerDbm <= GetTxPowerForChannel(w.channels[i].freq)}

WaitTimeOf(w, i) == GetWaitTime(w.nextTxTime, w.now, w.channels[i].freq)

\* Mutant: a retransmission waits for the ack timeout only, not the duty cycle.
GetNextClassTransmissionDelayNoDutyWait(w, waitTime, rng) ==
    IF ~w.retx.waitingAck
    THEN IF \/ ~IsExpired(w, "closeFirstWindow")
            \/ ~IsExpired(w, "closeSecondWindow")
            \/ ~IsExpired(w, "secondReceiveWindow")
         THEN Max({waitTime, w.handles.secondReceiveWindow.ts + WindowDuration - w.now})
         ELSE waitTime
    ELSE w.handles.secondReceiveWindow.ts - w.now + rng.ack

\* ClassAEndDeviceLorawanMac::GetNextClassTransmissionDelay
GetNextClassTransmissionDelay(w, waitTime, rng) ==
    IF ~w.retx.waitingAck
    THEN IF \/ ~IsExpired(w, "closeFirstWindow")
            \/ ~IsExpired(w, "closeSecondWindow")
            \/ ~IsExpired(w, "secondReceiveWindow")
         THEN Max({waitTime, w.handles.secondReceiveWindow.ts + WindowDuration - w.now})
         ELSE waitTime
    ELSE Max({waitTime, w.handles.secondReceiveWindow.ts - w.now + rng.ack})

GetNextTransmissionDelay(w, rng) ==
    GetNextClassTransmissionDelay(w, Min({WaitTimeOf(w, i) : i \in GetCompatibleTxChannels(w)}), rng)

PostponeTransmission(w, delay, p) ==
    ScheduleInto(Cancel(w, "nextTx"), "nextTx", delay, "DoSend", p)

\* GetRandomChannelForTx: the compatible channels of zero wait, one of which
\* is drawn (m_uniformRV); none gives the nullptr.
GetRandomChannelForTx(w) == {i \in GetCompatibleTxChannels(w) : WaitTimeOf(w, i) = 0}

\* ClassAEndDeviceLorawanMac::SendToPhy: the drawn channel; with none the
\* returned nullptr is dereferenced.
SendToPhy(w, p, hdr, rng) ==
    LET cands == GetRandomChannelForTx(w)
        f     == w.channels[rng.ch].freq
    IN  IF OutOfBandEnabled(w) THEN [w EXCEPT !.fault = "OutOfBand"]
        ELSE IF cands = {} THEN [w EXCEPT !.fault = "NullTxChannel"]
        ELSE IF rng.ch \notin cands THEN [w EXCEPT !.valid = FALSE]
        ELSE [Schedule(w, AirTime, "TxEnd", p) EXCEPT
                 !.phy = "TX",
                 !.nextTxTime = AddEvent(w.nextTxTime, w.now, AirTime, f),
                 !.txCount[p] = @ + 1,
                 !.lastTx = [hdr EXCEPT !.pkt = p, !.ch = rng.ch, !.freq = f, !.at = w.now,
                                        !.phyBefore = w.phy, !.dataRate = w.mac.dataRate,
                                        !.txPowerDbm = w.mac.txPowerDbm]]

\* ApplyNecessaryOptions: the frame header of DoSend, built before anything
\* else; the fields SendToPhy fills in come with it.
FrameHeader(w) ==
    [NoFrame EXCEPT !.fOptsLen = FOptsLen(w.mac.macCommandList), !.fCnt = w.mac.fCnt,
                    !.adrAckReq = w.mac.adrAckReq]

\* EndDeviceLorawanMac::DoSend: the header from the state before the list is
\* cleared, then the reset for a new packet, SendToPhy and the counters.
DoSend(w, p, rng) ==
    LET isNew == p # w.retx.packet
        w1 == IF isNew
              THEN [ResetRetransmissionParameters([w EXCEPT !.mac.macCommandList = <<>>])
                        EXCEPT !.retx.packet = p,
                               !.retx.waitingAck = (w.mac.mType = "CONFIRMED")]
              ELSE w
        w2 == [SendToPhy(w1, p, FrameHeader(w), rng) EXCEPT !.retx.retxLeft = (@ - 1) % 256]
    IN  IF isNew THEN [w2 EXCEPT !.mac.fCnt = @ + 1, !.mac.adrAckCnt = @ + 1] ELSE w2

\* EndDeviceLorawanMac::Send, for a new packet and for a retransmission alike;
\* its two NS_ASSERTs are faults, its early returns leave the packet unsent.
Send(w, p, rng) ==
    LET isRetx == p = w.retx.packet
        w1 == IF ~isRetx /\ w.retx.waitingAck THEN RequiredTx(w, FALSE) ELSE w
        w2 == [w1 EXCEPT !.mac.adrAckReq = (w1.mac.adrAckCnt >= AdrAckLimit)]
        w3 == IF w2.mac.adrAckCnt >= AdrAckLimit + AdrAckDelay
              THEN [ExecuteADRBackoff(w2) EXCEPT !.mac.adrAckCnt = AdrAckLimit]
              ELSE w2
        delay == GetNextTransmissionDelay(w3, rng)
    IN  IF isRetx /\ w.retx.retxLeft = 0 THEN [w EXCEPT !.fault = "AssertRetxLeft"]
        ELSE IF isRetx /\ ~w.retx.waitingAck THEN [w EXCEPT !.fault = "AssertWaitingAck"]
        ELSE IF w3.fault # "none" THEN w3
        ELSE IF ~IsPayloadSizeValid(w3, w3.pktSize[p], w3.mac.dataRate) THEN w3
        ELSE IF OutOfBandEnabled(w3) THEN [w3 EXCEPT !.fault = "OutOfBand"]
        ELSE IF GetCompatibleTxChannels(w3) = {} THEN w3
        ELSE IF delay > 0 THEN PostponeTransmission(w3, delay, p)
        ELSE DoSend(w3, p, rng)

\* Mutant: the failure is reported but m_retxParams is not reset.
RetransmitOrFailNoReset(w, rng) ==
    IF w.retx.retxLeft > 0 THEN Send(w, w.retx.packet, rng) ELSE RequiredTx(w, FALSE)

\* The retransmit-or-give-up step shared by Receive, FailedReception and
\* CloseSecondReceiveWindow once the second window is over.
RetransmitOrFail(w, rng) ==
    IF w.retx.retxLeft > 0
    THEN Send(w, w.retx.packet, rng)
    ELSE ResetRetransmissionParameters(RequiredTx(w, FALSE))

\* Mutant: the ACK is reported but m_retxParams is not reset.
ParseCommandsNoReset(w, fr) ==
    HandleCommands(IF w.retx.waitingAck /\ fr.ack THEN RequiredTx(w, TRUE) ELSE w, fr.cmds)

ParseCommands(w, fr) ==
    HandleCommands(IF w.retx.waitingAck /\ fr.ack
                   THEN ResetRetransmissionParameters(RequiredTx(w, TRUE))
                   ELSE w,
                   fr.cmds)

-----------------------------------------------------------------------------
(* ClassAEndDeviceLorawanMac handlers.                                     *)

Receive(w, fr, rng) ==
    LET rx2Over == IsExpired(w, "secondReceiveWindow")
        w1 == CASE fr.downlink /\ fr.forUs ->
                    ParseCommands([Cancel(w, "secondReceiveWindow")
                                      EXCEPT !.mac.adrAckCnt = 0], fr)
                [] fr.downlink /\ ~fr.forUs /\ w.retx.waitingAck /\ rx2Over ->
                    RetransmitOrFail(w, rng)
                [] ~fr.downlink /\ w.retx.waitingAck /\ rx2Over ->
                    RetransmitOrFail(w, rng)
                [] ~(fr.downlink /\ fr.forUs) /\ ~(w.retx.waitingAck /\ rx2Over) -> w
    IN  [w1 EXCEPT !.phy = "SLEEP"]

FailedReception(w, rng) ==
    LET w1 == [w EXCEPT !.phy = "SLEEP"]
    IN  IF IsExpired(w1, "secondReceiveWindow") /\ w1.retx.waitingAck
        THEN RetransmitOrFail(w1, rng)
        ELSE w1

TxFinished(w) ==
    [ScheduleInto(Schedule(w, ReceiveDelay1, "OpenRx1", NoPacket),
                  "secondReceiveWindow", ReceiveDelay2, "OpenRx2", NoPacket)
        EXCEPT !.phy = "SLEEP"]

OpenFirstReceiveWindow(w) ==
    ScheduleInto([w EXCEPT !.phy = "STANDBY"], "closeFirstWindow", WindowDuration,
                 "CloseRx1", NoPacket)

CloseFirstReceiveWindow(w) ==
    CASE w.phy = "TX"          -> [w EXCEPT !.fault = "CloseRx1InTx"]
      [] w.phy = "STANDBY"     -> [w EXCEPT !.phy = "SLEEP"]
      [] w.phy \in {"RX", "SLEEP"} -> w

OpenSecondReceiveWindow(w) ==
    IF w.phy = "RX" THEN w
    ELSE ScheduleInto([w EXCEPT !.phy = "STANDBY"], "closeSecondWindow", WindowDuration,
                      "CloseRx2", NoPacket)

\* Mutant: the STANDBY case does not switch the PHY to sleep.
CloseSecondReceiveWindowNoSleep(w, rng) ==
    CASE w.phy = "RX" -> w
      [] w.phy # "RX" /\ w.retx.waitingAck -> RetransmitOrFail(w, rng)
      [] w.phy # "RX" /\ ~w.retx.waitingAck ->
            ResetRetransmissionParameters(RequiredTx(w, TRUE))

CloseSecondReceiveWindow(w, rng) ==
    LET w1 == IF w.phy = "STANDBY" THEN [w EXCEPT !.phy = "SLEEP"] ELSE w
    IN  CASE w.phy = "RX" -> w
          [] w.phy # "RX" /\ w1.retx.waitingAck -> RetransmitOrFail(w1, rng)
          [] w.phy # "RX" /\ ~w1.retx.waitingAck ->
                ResetRetransmissionParameters(RequiredTx(w1, TRUE))

-----------------------------------------------------------------------------
(* Construction and the setters the helper, the application and the tests *)
(* call before the first Send.                                             *)

\* The EndDeviceLorawanMac constructor's radio parameters and m_retxParams;
\* m_aggregatedDutyCycle = 1 is the exponent maxDutyCycle = 0.
Constructed ==
    [mac |-> [dataRate |-> 0, txPowerDbm |-> 14, nbTrans |-> 1, adrAckCnt |-> 0,
              adrAckReq |-> FALSE, fCnt |-> 0, adr |-> TRUE, mType |-> "CONFIRMED",
              macCommandList |-> <<>>, lastKnownLinkMarginDb |-> 0,
              lastKnownGatewayCount |-> 0, maxDutyCycle |-> 0, rx1DrOffset |-> 0,
              rx2DataRate |-> Rx2DefaultDataRate, rx2Freq |-> Rx2DefaultFreq],
     retx |-> [packet |-> NoPacket, waitingAck |-> FALSE, retxLeft |-> 1]]

SetDataRate(w, dataRate) == [w EXCEPT !.mac.dataRate = dataRate]
SetTransmissionPowerDbm(w, txPowerDbm) == [w EXCEPT !.mac.txPowerDbm = txPowerDbm]
\* The retransmissions left restart from the new count as well.
SetMaxNumberOfTransmissions(w, nbTrans) ==
    [w EXCEPT !.mac.nbTrans = nbTrans, !.retx.retxLeft = nbTrans]
SetUplinkAdrBit(w, adr) == [w EXCEPT !.mac.adr = adr]
SetMType(w, mType) == [w EXCEPT !.mac.mType = mType]

\* EndDeviceLorawanMac::AddMacCommand: the command joins the list that the
\* next new packet's frame header carries.
AddMacCommand(w, macCommand) == Queue(w, macCommand)

-----------------------------------------------------------------------------
(* The specification.                                                      *)

Init ==
    /\ now = 0
    /\ events = {}
    /\ nextId = 1
    /\ handles = [h \in {"nextTx", "closeFirstWindow", "closeSecondWindow",
                         "secondReceiveWindow"} |-> NoEvent]
    /\ phy = "SLEEP"
    /\ \E r \in InitRadios :
          LET d == SetMType(SetUplinkAdrBit(SetMaxNumberOfTransmissions(
                       SetTransmissionPowerDbm(SetDataRate(Constructed, r.dataRate),
                                               r.txPowerDbm), r.nbTrans), r.adr), r.mType)
          IN  mac = d.mac /\ retx = d.retx
    /\ channels = InitChannels
    /\ nextTxTime = [sb \in SubBandIds |-> 0]
    /\ nextPkt = 1
    /\ pktSize = [p \in Packets |-> 0]
    /\ reports = <<>>
    /\ txCount = [p \in Packets |-> 0]
    /\ lastTx = NoFrame
    /\ fault = "none"

\* The next event the simulator runs: earliest time, then earliest uid.
NextEvent == CHOOSE e \in events : \A d \in events :
                 e.at < d.at \/ (e.at = d.at /\ e.id <= d.id)

Idle == events = {} /\ phy = "SLEEP"

\* The application hands a new packet to Send.
AppSend ==
    /\ fault = "none"
    /\ nextPkt \in Packets
    /\ AppWaitsForIdle => Idle
    /\ \E size \in PayloadSizes, rng \in Rng :
          Apply(Send([World EXCEPT !.pktSize[nextPkt] = size, !.nextPkt = @ + 1],
                     nextPkt, rng))

\* The application queues a MAC command (a LinkCheckReq) for its next
\* uplink, when it would send, and not one it has queued already.
AppAddMacCommand ==
    /\ fault = "none"
    /\ AppWaitsForIdle => Idle
    /\ \E c \in AppCommands :
          /\ \A i \in DOMAIN mac.macCommandList : mac.macCommandList[i] # c
          /\ Apply(AddMacCommand(World, c))

\* The simulator runs its next event, of the given kind.
Due(kind) == fault = "none" /\ events # {} /\ NextEvent.kind = kind

\* The world as the event's handler starts: the clock at the event, the
\* event gone from the queue.
Fired == [World EXCEPT !.now = NextEvent.at, !.events = @ \ {NextEvent}]

RunDoSend == Due("DoSend") /\ \E rng \in Rng : Apply(DoSend(Fired, NextEvent.pkt, rng))
RunTxFinished == Due("TxEnd") /\ Apply(TxFinished(Fired))
RunOpenFirstReceiveWindow == Due("OpenRx1") /\ Apply(OpenFirstReceiveWindow(Fired))
RunCloseFirstReceiveWindow == Due("CloseRx1") /\ Apply(CloseFirstReceiveWindow(Fired))
RunOpenSecondReceiveWindow == Due("OpenRx2") /\ Apply(OpenSecondReceiveWindow(Fired))
RunCloseSecondReceiveWindow ==
    Due("CloseRx2") /\ \E rng \in Rng : Apply(CloseSecondReceiveWindow(Fired, rng))

\* The PHY ends a reception: a failure to decode it (FailedReception) or a
\* frame (EndDeviceLoraPhy calls Receive).
RunFailedReception == Due("RxEnd") /\ \E rng \in Rng : Apply(FailedReception(Fired, rng))
RunReceive == Due("RxEnd") /\ \E rng \in Rng, fr \in Frames : Apply(Receive(Fired, fr, rng))

Fire ==
    \/ RunDoSend \/ RunTxFinished
    \/ RunOpenFirstReceiveWindow \/ RunCloseFirstReceiveWindow
    \/ RunOpenSecondReceiveWindow \/ RunCloseSecondReceiveWindow
    \/ RunFailedReception \/ RunReceive

\* The PHY, listening in a receive window, locks on a preamble.
StartReception ==
    /\ fault = "none"
    /\ phy = "STANDBY"
    /\ \E d \in RxDurations :
          Apply([Schedule(World, d, "RxEnd", NoPacket) EXCEPT !.phy = "RX"])

\* Time passes with nothing due.
Tick ==
    /\ fault = "none"
    /\ now < MaxTime
    /\ \A e \in events : e.at > now
    /\ now' = now + 1
    /\ UNCHANGED <<events, nextId, handles, phy, mac, retx, channels, nextTxTime,
                   nextPkt, pktSize, reports, txCount, lastTx, fault>>

Next == AppSend \/ AppAddMacCommand \/ Fire \/ StartReception \/ Tick

\* ENABLED Fire: every handler yields a successor for some random draw (an
\* empty candidate set is the NullTxChannel fault, not a missing step).
FireEnabled == fault = "none" /\ events # {}

\* The simulator always runs what it has scheduled: weak fairness of Fire,
\* WF_vars(Fire), written out with its enabling condition so that TLC need
\* not compute ENABLED Fire by generating every successor of every state.
Spec == Init /\ [][Next]_vars /\ ([]<>~FireEnabled \/ []<><<Fire>>_vars)
-----------------------------------------------------------------------------
(* Properties.                                                             *)

Frame == [pkt : Packets, ch : Slots, freq : Nat, at : Nat, phyBefore : PhyStates,
          fOptsLen : Nat, fCnt : Nat, adrAckReq : BOOLEAN, dataRate : ValidDataRates,
          txPowerDbm : Int]

TypeOK ==
    /\ now \in Nat
    /\ \A e \in events : e.kind \in EventKinds /\ e.at >= now /\ e.id < nextId
    /\ phy \in PhyStates
    /\ retx.packet \in Packets \cup {NoPacket} /\ retx.waitingAck \in BOOLEAN
    /\ retx.retxLeft \in 0..255
    /\ mac.dataRate \in ValidDataRates /\ mac.nbTrans \in 1..15
    /\ nextTxTime \in [SubBandIds -> Nat]
    /\ \A i \in 1..Len(reports) : reports[i].pkt \in Packets \cup {NoPacket}
                                  /\ reports[i].txs \in 0..255
    /\ txCount \in [Packets -> Nat]
    /\ lastTx \in Frame \cup {NoFrame}
    /\ mac.rx1DrOffset \in ReplyDataRateOffsets /\ mac.rx2DataRate \in ValidDataRates

\* No NS_ASSERT, NS_ABORT or null-pointer dereference of the MAC is reached:
\* in particular GetRandomChannelForTx finds a channel free of duty-cycle wait
\* whenever a (possibly postponed) DoSend runs.
NoFault == fault = "none"

\* The RequiredTransmissions trace reports every packet at most once, and
\* always a packet (never the nullptr of a reset m_retxParams).
AtMostOneReport ==
    \A i, j \in 1..Len(reports) :
        /\ reports[i].pkt # NoPacket
        /\ i # j => reports[i].pkt # reports[j].pkt

\* The txs that Send, Receive, FailedReception, ParseCommands and
\* CloseSecondReceiveWindow compute as m_nbTrans - retxLeft is the number of
\* frames of that packet actually handed to the PHY.
ReportedTxsAreSent ==
    \A i \in 1..Len(reports) :
        reports[i].pkt \in Packets => reports[i].txs = txCount[reports[i].pkt]

\* SendToPhy only starts a transmission when the radio is idle: never while
\* it is transmitting, listening in a receive window, or receiving.
TxOnlyFromSleep ==
    [][lastTx' # lastTx => lastTx'.phyBefore = "SLEEP"]_vars

\* Two consecutive transmissions in the same sub-band are at least the
\* airtime divided by the sub-band's duty cycle apart, whatever path
\* (new packet, postponed DoSend, retransmission) started the second one.
DutyCycleRespected ==
    [][/\ lastTx' # lastTx
       /\ lastTx.pkt # NoPacket
       /\ GetSubBandFromFrequency(lastTx'.freq) = GetSubBandFromFrequency(lastTx.freq)
       => lastTx'.at - lastTx.at
            >= AirTime * SubBandList[GetSubBandFromFrequency(lastTx.freq)].dutyCycleInv]_vars

\* A receive window that opens (PHY in STANDBY or locked in RX) is always
\* eventually closed and the radio put back to sleep.
WindowsEventuallyClose == (phy \in {"STANDBY", "RX"}) ~> (phy = "SLEEP")

\* The MAC implements what it promises the application (AbstractUplink):
\* only the last packet handed to Send is transmitted, it is reported at
\* most once, after at least one transmission, with the transmissions it
\* used, and never transmitted after its report; handing over the next
\* packet is the only step that may report the previous one failed.
Uplink == INSTANCE AbstractUplink WITH submitted <- nextPkt - 1, sent <- txCount

ImplementsAbstractUplink == Uplink!Spec

\* A retry is the frame of the packet sent again (spec 4.5a: a retransmission
\* re-runs neither header construction nor the counter increments): two
\* consecutive frames carry the same frame counter exactly when they carry
\* the same packet.  Send strips the stored frame's headers and DoSend builds
\* a new one from m_currentFCnt, already bumped by the first transmission.
FCntIdentifiesPacket ==
    [][lastTx' # lastTx /\ lastTx.pkt # NoPacket
         => (lastTx'.pkt = lastTx.pkt <=> lastTx'.fCnt = lastTx.fCnt)]_vars

\* Every frame handed to the PHY eventually gets its outcome reported through
\* the RequiredTransmissions trace.
EveryTxReported ==
    \A p \in Packets : (txCount[p] > 0) ~> (\E i \in 1..Len(reports) : reports[i].pkt = p)

\* Every frame handed to the PHY fits the maximum MAC payload of the data rate
\* it is sent at: the check Send makes (IsPayloadSizeValid, with the answers
\* queued then) still holds when DoSend builds the frame, with the answers and
\* the data rate of that moment.
FrameFitsDataRate ==
    lastTx # NoFrame =>
        7 + lastTx.fOptsLen + 1 + pktSize[lastTx.pkt] <= MaxMacPayload(lastTx.dataRate)

\* The frame header's 4-bit FOptsLen field (LoraFrameHeader::Serialize)
\* can hold the length of the answers carried in FOpts.
FOptsFitInFCtrl == lastTx.fOptsLen <= 15

\* Every enabled channel lies in a sub-band, so GetCompatibleTxChannels can
\* ask GetTxPowerForChannel for its power limit.
EnabledChannelsInBand == ~OutOfBandEnabled(World)
=============================================================================
