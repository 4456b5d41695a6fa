---------------------------- MODULE MCFrameCodec ----------------------------
(* Command sets and constants for checking FrameCodec with TLC.            *)
EXTENDS FrameCodec

\* The answers EndDeviceLorawanMac queues, as the network server reads them.
UplinkAnswers ==
    { [cid |-> "LinkCheckReq"],
      [cid |-> "LinkAdrAns", powerAck |-> TRUE, dataRateAck |-> FALSE, channelMaskAck |-> TRUE],
      [cid |-> "DutyCycleAns"],
      [cid |-> "RxParamSetupAns", rx1DrOffsetAck |-> TRUE, rx2DataRateAck |-> TRUE,
       channelAck |-> FALSE],
      [cid |-> "DevStatusAns", battery |-> 255, margin |-> 10],
      [cid |-> "NewChannelAns", dataRateRangeOk |-> FALSE, channelFrequencyOk |-> TRUE] }

\* The requests the network server's components and the test suite build.
DownlinkRequests ==
    { [cid |-> "LinkCheckAns", margin |-> 10, gwCnt |-> 1],
      [cid |-> "LinkAdrReq", dataRate |-> 5, txPower |-> 2, chMask |-> 7, chMaskCntl |-> 0,
       nbTrans |-> 1],
      [cid |-> "DutyCycleReq", maxDutyCycle |-> 7],
      [cid |-> "RxParamSetupReq", rx1DrOffset |-> 2, rx2DataRate |-> 3, frequencyHz |-> 869525000],
      [cid |-> "DevStatusReq"],
      [cid |-> "NewChannelReq", chIndex |-> 3, frequencyHz |-> 867100000, minDataRate |-> 0,
       maxDataRate |-> 5],
      [cid |-> "RxTimingSetupReq", delay |-> 1] }

MCAddresses == {0, 16909060}
MCFCnts == {1, 65535}
MCPayload == <<171, 205>>
=============================================================================
