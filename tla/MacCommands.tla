----------------------------- MODULE MacCommands -----------------------------
(***************************************************************************)
(* The MAC command handlers an end device runs for the commands of a      *)
(* downlink (EndDeviceLorawanMac::On* and                                  *)
(* ClassAEndDeviceLorawanMac::OnRxParamSetupReq).  Each handler is an      *)
(* operator over the device's world record: it reads and writes the radio  *)
(* parameters in w.mac and the channel array in w.channels, and appends    *)
(* its answer to w.mac.macCommandList.                                     *)
(*                                                                         *)
(* A channel mask is the set of channel-array indices whose bit is set.    *)
(***************************************************************************)
EXTENDS Integers, SequencesExt, ChannelPlan, LoRaRegion

\* The 0xF value of the dataRate and txPower fields: "keep the current one".
Unchanged4Bit == 15

-----------------------------------------------------------------------------
(* Downlink requests, as ParseCommands receives them after Deserialize.    *)

LinkCheckAns(margin, gwCnt) == [cid |-> "LinkCheckAns", margin |-> margin, gwCnt |-> gwCnt]

LinkAdrReq(dataRate, txPower, chMask, chMaskCntl, nbTrans) ==
    [cid |-> "LinkAdrReq", dataRate |-> dataRate, txPower |-> txPower,
     chMask |-> chMask, chMaskCntl |-> chMaskCntl, nbTrans |-> nbTrans]

DutyCycleReq(maxDutyCycle) == [cid |-> "DutyCycleReq", maxDutyCycle |-> maxDutyCycle]

RxParamSetupReq(rx1DrOffset, rx2DataRate, freq) ==
    [cid |-> "RxParamSetupReq", rx1DrOffset |-> rx1DrOffset, rx2DataRate |-> rx2DataRate,
     freq |-> freq]

DevStatusReq == [cid |-> "DevStatusReq"]

NewChannelReq(chIndex, freq, minDr, maxDr) ==
    [cid |-> "NewChannelReq", chIndex |-> chIndex, freq |-> freq, minDr |-> minDr, maxDr |-> maxDr]

\* Uplink answers: only their type, serialized size and acknowledgement bits
\* matter to the MAC.
Answer(cid, size, acks) == [cid |-> cid, size |-> size, acks |-> acks]

Queue(w, ans) == [w EXCEPT !.mac.macCommandList = Append(@, ans)]

-----------------------------------------------------------------------------
(* Handlers.                                                               *)

OnLinkCheckAns(w, margin, gwCnt) ==
    [w EXCEPT !.mac.lastKnownLinkMarginDb = margin, !.mac.lastKnownGatewayCount = gwCnt]

Exists(w, i) == w.channels[i] # NoChannel

Supports(c, dr) == c.minDr <= dr /\ dr <= c.maxDr

\* Enable the existing channels of the mask and disable the other existing ones.
ApplyChannelMask(w, mask) ==
    [w EXCEPT !.channels = [i \in Slots |->
        IF ~Exists(w, i) THEN NoChannel
        ELSE IF i \in mask THEN EnableForUplink(w.channels[i])
        ELSE DisableForUplink(w.channels[i])]]

OnLinkAdrReq(w, dataRate, txPower, chMask, chMaskCntl, nbTrans) ==
    LET mask == IF chMaskCntl = 6 THEN {i \in Slots : Exists(w, i)} ELSE chMask
        channelMaskAck ==
            /\ chMaskCntl \in {0, 6}
            /\ chMaskCntl = 0 => \A i \in chMask : Exists(w, i)
            /\ mask # {}
        \* ADR off: some channel of the mask carries the current data rate.
        compatibleNow == \E i \in mask : Supports(w.channels[i], w.mac.dataRate)
        \* ADR on: some channel of the mask, or a hole of it with a valid data rate.
        dataRateAck ==
            dataRate = Unchanged4Bit
            \/ \E i \in mask : IF Exists(w, i) THEN Supports(w.channels[i], dataRate)
                                               ELSE IsDataRateValid(dataRate)
        powerAck == txPower = Unchanged4Bit \/ GetDbmForTxPower(txPower) >= 0
        ans(p, d, c) == Answer("LinkAdrAns", 2, [power |-> p, dataRate |-> d, channelMask |-> c])
    IN  IF ~w.mac.adr
        THEN IF channelMaskAck /\ compatibleNow
             THEN Queue(ApplyChannelMask(w, mask), ans(FALSE, FALSE, TRUE))
             ELSE Queue(w, ans(FALSE, FALSE, FALSE))
        ELSE IF channelMaskAck /\ dataRateAck /\ powerAck
             THEN LET w1 == ApplyChannelMask(w, mask)
                  IN  Queue([w1 EXCEPT
                          !.mac.txPowerDbm = IF txPower = Unchanged4Bit THEN @
                                             ELSE GetDbmForTxPower(txPower),
                          !.mac.nbTrans = IF nbTrans = 0 THEN 1 ELSE nbTrans,
                          !.mac.dataRate = IF dataRate = Unchanged4Bit THEN @ ELSE dataRate],
                        ans(TRUE, TRUE, TRUE))
             ELSE Queue(w, ans(powerAck, dataRateAck, channelMaskAck))

OnDutyCycleReq(w, maxDutyCycle) ==
    Queue([w EXCEPT !.mac.maxDutyCycle = maxDutyCycle], Answer("DutyCycleAns", 1, [none |-> TRUE]))

OnDevStatusReq(w) == Queue(w, Answer("DevStatusAns", 3, [none |-> TRUE]))

\* Mutant: a frequency outside every sub-band is accepted.
OnNewChannelReqNoFrequencyCheck(w, chIndex, freq, minDr, maxDr) ==
    LET ok == chIndex >= 3 /\ chIndex \in Slots /\ IsDataRateValid(minDr)
              /\ IsDataRateValid(maxDr) /\ minDr <= maxDr
        ch == LogicalLoraChannel(freq, minDr, maxDr)
        w1 == IF ok THEN [w EXCEPT !.channels[chIndex] =
                                IF freq = 0 THEN DisableForUplink(ch) ELSE EnableForUplink(ch)]
              ELSE w
    IN  Queue(w1, Answer("NewChannelAns", 2, [dataRate |-> ok, frequency |-> ok]))

OnNewChannelReq(w, chIndex, freq, minDr, maxDr) ==
    LET indexOk == chIndex >= 3 /\ chIndex \in Slots
        channelFrequencyOk == indexOk /\ (freq # 0 => IsFrequencyValid(freq))
        dataRateRangeOk == /\ indexOk
                           /\ IsDataRateValid(minDr) /\ IsDataRateValid(maxDr)
                           /\ minDr <= maxDr
        ch == LogicalLoraChannel(freq, minDr, maxDr)
        w1 == IF dataRateRangeOk /\ channelFrequencyOk
              THEN [w EXCEPT !.channels = SetChannel(@, chIndex,
                                IF freq = 0 THEN DisableForUplink(ch) ELSE EnableForUplink(ch))]
              ELSE w
    IN  Queue(w1, Answer("NewChannelAns", 2,
                         [dataRate |-> dataRateRangeOk, frequency |-> channelFrequencyOk]))

OnRxParamSetupReq(w, rx1DrOffset, rx2DataRate, freq) ==
    LET rx1DrOffsetAck == rx1DrOffset \in ReplyDataRateOffsets
        rx2DataRateAck == IsDataRateValid(rx2DataRate)
        channelAck == IsFrequencyValid(freq)
        w1 == IF rx1DrOffsetAck /\ rx2DataRateAck /\ channelAck
              THEN [w EXCEPT !.mac.rx1DrOffset = rx1DrOffset, !.mac.rx2DataRate = rx2DataRate,
                             !.mac.rx2Freq = freq]
              ELSE w
    IN  Queue(w1, Answer("RxParamSetupAns", 2,
                         [rx1DrOffset |-> rx1DrOffsetAck, rx2DataRate |-> rx2DataRateAck,
                          channel |-> channelAck]))

\* The dispatch loop of ParseCommands over the commands of a frame header.
HandleCommand(w, c) ==
    CASE c.cid = "LinkCheckAns"    -> OnLinkCheckAns(w, c.margin, c.gwCnt)
      [] c.cid = "LinkAdrReq"      -> OnLinkAdrReq(w, c.dataRate, c.txPower, c.chMask,
                                                   c.chMaskCntl, c.nbTrans)
      [] c.cid = "DutyCycleReq"    -> OnDutyCycleReq(w, c.maxDutyCycle)
      [] c.cid = "RxParamSetupReq" -> OnRxParamSetupReq(w, c.rx1DrOffset, c.rx2DataRate, c.freq)
      [] c.cid = "DevStatusReq"    -> OnDevStatusReq(w)
      [] c.cid = "NewChannelReq"   -> OnNewChannelReq(w, c.chIndex, c.freq, c.minDr, c.maxDr)
      [] OTHER                     -> w

HandleCommands(w, cmds) == FoldLeft(HandleCommand, w, cmds)
=============================================================================
