----------------------------- MODULE FrameFormat ----------------------------
(***************************************************************************)
(* The LoRaWAN frame header (FHDR) and MAC command wire format of          *)
(* model/lora-frame-header.cc and model/mac-command.cc, as operators.      *)
(*                                                                         *)
(* A buffer is a sequence of bytes (0..255).  ns-3's Buffer::Iterator      *)
(* writes and reads WriteU16 / WriteU32 least significant byte first.  A   *)
(* MAC command is a record whose field cid names its class and whose other *)
(* fields are the class's members.                                         *)
(***************************************************************************)
EXTENDS Integers, SequencesExt

Bytes == 0..255
B(flag) == IF flag THEN 1 ELSE 0
Bit(x, k) == (x \div 2^k) % 2 = 1

WriteU16(x) == << x % 256, (x \div 256) % 256 >>
WriteU32(x) == << x % 256, (x \div 256) % 256, (x \div 2^16) % 256, (x \div 2^24) % 256 >>
\* Mutant: the 16-bit field read most significant byte first.
ReadU16SwappedBytes(b, i) == 256 * b[i] + b[i + 1]
ReadU16(b, i) == b[i] + 256 * b[i + 1]
ReadU32(b, i) == b[i] + 256 * b[i + 1] + 2^16 * b[i + 2] + 2^24 * b[i + 3]

\* The 24-bit little-endian frequency of RxParamSetupReq and NewChannelReq,
\* in units of 100 Hz.
EncodeFrequency(f) == LET e == f \div 100 IN << e % 256, (e \div 256) % 256, (e \div 2^16) % 256 >>
DecodeFrequency(b, i) == (b[i] + 256 * b[i + 1] + 2^16 * b[i + 2]) * 100

-----------------------------------------------------------------------------
(* MAC commands.                                                           *)

\* m_serializedSize set by each class's constructors.
SerializedSize ==
    [LinkCheckReq |-> 1, LinkCheckAns |-> 3, LinkAdrReq |-> 5, LinkAdrAns |-> 2,
     DutyCycleReq |-> 2, DutyCycleAns |-> 1, RxParamSetupReq |-> 5, RxParamSetupAns |-> 2,
     DevStatusReq |-> 1, DevStatusAns |-> 3, NewChannelReq |-> 6, NewChannelAns |-> 2,
     RxTimingSetupReq |-> 2, RxTimingSetupAns |-> 1, TxParamSetupReq |-> 1,
     TxParamSetupAns |-> 1, DlChannelAns |-> 1]

\* m_commandType set by each class's constructor: four classes give
\* themselves the type DEV_STATUS_REQ.
CommandType(c) ==
    IF c.cid \in {"RxTimingSetupAns", "DlChannelAns", "TxParamSetupReq", "TxParamSetupAns"}
    THEN "DevStatusReq" ELSE c.cid

\* MacCommand::GetCIDFromMacCommand.
CIDOf(type) ==
    CASE type \in {"LinkCheckReq", "LinkCheckAns"}         -> 2
      [] type \in {"LinkAdrReq", "LinkAdrAns"}             -> 3
      [] type \in {"DutyCycleReq", "DutyCycleAns"}         -> 4
      [] type \in {"RxParamSetupReq", "RxParamSetupAns"}   -> 5
      [] type \in {"DevStatusReq", "DevStatusAns"}         -> 6
      [] type \in {"NewChannelReq", "NewChannelAns"}       -> 7
      [] type \in {"RxTimingSetupReq", "RxTimingSetupAns"} -> 8
      [] type \in {"TxParamSetupReq", "TxParamSetupAns"}   -> 9
      [] type = "DlChannelAns"                             -> 10

\* Each class's Serialize: the bytes written after the CID.  Bit fields are
\* shifted into a uint8_t, so what does not fit is lost.
LinkCheckAnsSerialize(c) == << c.margin, c.gwCnt >>
LinkAdrReqSerialize(c) ==
    << (c.dataRate * 16 + (c.txPower % 16)) % 256 >> \o WriteU16(c.chMask)
    \o << (c.chMaskCntl * 16 + (c.nbTrans % 16)) % 256 >>
LinkAdrAnsSerialize(c) == << 4 * B(c.powerAck) + 2 * B(c.dataRateAck) + B(c.channelMaskAck) >>
DutyCycleReqSerialize(c) == << c.maxDutyCycle >>
RxParamSetupReqSerialize(c) ==
    << (c.rx1DrOffset % 8) * 16 + (c.rx2DataRate % 16) >> \o EncodeFrequency(c.frequencyHz)
RxParamSetupAnsSerialize(c) ==
    << 4 * B(c.rx1DrOffsetAck) + 2 * B(c.rx2DataRateAck) + B(c.channelAck) >>
DevStatusAnsSerialize(c) == << c.battery, c.margin >>
NewChannelReqSerialize(c) ==
    << c.chIndex >> \o EncodeFrequency(c.frequencyHz)
    \o << (c.maxDataRate * 16 + (c.minDataRate % 16)) % 256 >>
NewChannelAnsSerialize(c) == << 2 * B(c.dataRateRangeOk) + B(c.channelFrequencyOk) >>
RxTimingSetupReqSerialize(c) == << c.delay % 16 >>

\* The virtual Serialize call; the other classes write their CID only.
CommandBody(c) ==
    CASE c.cid = "LinkCheckAns"     -> LinkCheckAnsSerialize(c)
      [] c.cid = "LinkAdrReq"       -> LinkAdrReqSerialize(c)
      [] c.cid = "LinkAdrAns"       -> LinkAdrAnsSerialize(c)
      [] c.cid = "DutyCycleReq"     -> DutyCycleReqSerialize(c)
      [] c.cid = "RxParamSetupReq"  -> RxParamSetupReqSerialize(c)
      [] c.cid = "RxParamSetupAns"  -> RxParamSetupAnsSerialize(c)
      [] c.cid = "DevStatusAns"     -> DevStatusAnsSerialize(c)
      [] c.cid = "NewChannelReq"    -> NewChannelReqSerialize(c)
      [] c.cid = "NewChannelAns"    -> NewChannelAnsSerialize(c)
      [] c.cid = "RxTimingSetupReq" -> RxTimingSetupReqSerialize(c)
      [] OTHER                      -> << >>

SerializeCommand(c) == << CIDOf(CommandType(c)) >> \o CommandBody(c)

\* The class LoraFrameHeader::Deserialize creates for a CID, by direction;
\* "none" leaves the command a null pointer.
CommandForCid(uplink, cid) ==
    LET up   == <<"none", "LinkCheckReq", "LinkAdrAns", "DutyCycleAns", "RxParamSetupAns",
                  "DevStatusAns", "NewChannelAns", "RxTimingSetupAns", "TxParamSetupAns",
                  "DlChannelAns">>
        down == <<"none", "LinkCheckAns", "LinkAdrReq", "DutyCycleReq", "RxParamSetupReq",
                  "DevStatusReq", "NewChannelReq", "RxTimingSetupReq", "TxParamSetupReq",
                  "none">>
    IN  IF cid \in 1..10 THEN (IF uplink THEN up[cid] ELSE down[cid]) ELSE "none"

\* Each class's Deserialize of the command whose CID is at b[i].
LinkCheckAnsDeserialize(b, i) == [cid |-> "LinkCheckAns", margin |-> b[i + 1], gwCnt |-> b[i + 2]]
LinkAdrReqDeserialize(b, i) ==
    [cid |-> "LinkAdrReq", dataRate |-> b[i + 1] \div 16, txPower |-> b[i + 1] % 16,
     chMask |-> ReadU16(b, i + 2), chMaskCntl |-> b[i + 4] \div 16, nbTrans |-> b[i + 4] % 16]
LinkAdrAnsDeserialize(b, i) ==
    [cid |-> "LinkAdrAns", powerAck |-> Bit(b[i + 1], 2), dataRateAck |-> Bit(b[i + 1], 1),
     channelMaskAck |-> Bit(b[i + 1], 0)]
DutyCycleReqDeserialize(b, i) == [cid |-> "DutyCycleReq", maxDutyCycle |-> b[i + 1]]
RxParamSetupReqDeserialize(b, i) ==
    [cid |-> "RxParamSetupReq", rx1DrOffset |-> (b[i + 1] \div 16) % 8,
     rx2DataRate |-> b[i + 1] % 16, frequencyHz |-> DecodeFrequency(b, i + 2)]
RxParamSetupAnsDeserialize(b, i) ==
    [cid |-> "RxParamSetupAns", rx1DrOffsetAck |-> Bit(b[i + 1], 2),
     rx2DataRateAck |-> Bit(b[i + 1], 1), channelAck |-> Bit(b[i + 1], 0)]
DevStatusAnsDeserialize(b, i) == [cid |-> "DevStatusAns", battery |-> b[i + 1], margin |-> b[i + 2]]
NewChannelReqDeserialize(b, i) ==
    [cid |-> "NewChannelReq", chIndex |-> b[i + 1], frequencyHz |-> DecodeFrequency(b, i + 2),
     maxDataRate |-> b[i + 5] \div 16, minDataRate |-> b[i + 5] % 16]
NewChannelAnsDeserialize(b, i) ==
    [cid |-> "NewChannelAns", dataRateRangeOk |-> Bit(b[i + 1], 1),
     channelFrequencyOk |-> Bit(b[i + 1], 0)]
RxTimingSetupReqDeserialize(b, i) == [cid |-> "RxTimingSetupReq", delay |-> b[i + 1] % 16]

\* The virtual Deserialize call on the class t created for the CID; the
\* other classes only consume their CID.
DeserializeCommand(t, b, i) ==
    CASE t = "LinkCheckAns"     -> LinkCheckAnsDeserialize(b, i)
      [] t = "LinkAdrReq"       -> LinkAdrReqDeserialize(b, i)
      [] t = "LinkAdrAns"       -> LinkAdrAnsDeserialize(b, i)
      [] t = "DutyCycleReq"     -> DutyCycleReqDeserialize(b, i)
      [] t = "RxParamSetupReq"  -> RxParamSetupReqDeserialize(b, i)
      [] t = "RxParamSetupAns"  -> RxParamSetupAnsDeserialize(b, i)
      [] t = "DevStatusAns"     -> DevStatusAnsDeserialize(b, i)
      [] t = "NewChannelReq"    -> NewChannelReqDeserialize(b, i)
      [] t = "NewChannelAns"    -> NewChannelAnsDeserialize(b, i)
      [] t = "RxTimingSetupReq" -> RxTimingSetupReqDeserialize(b, i)
      [] OTHER                  -> [cid |-> t]

-----------------------------------------------------------------------------
(* The frame header.                                                       *)

\* LoraFrameHeader::Serialize.
SerializeHeader(h) ==
    WriteU32(h.address)
    \o << 128 * B(h.adr) + 64 * B(h.adrAckReq) + 32 * B(h.ack) + 16 * B(h.fPending)
          + (h.fOptsLen % 16) >>
    \o WriteU16(h.fCnt)
    \o FlattenSeq([k \in 1..Len(h.cmds) |-> SerializeCommand(h.cmds[k])])
    \o << h.fPort >>

\* LoraFrameHeader::GetSerializedSize.
GetSerializedSize(h) == 8 + h.fOptsLen

\* The command loop of Deserialize: a command is read while the uint8_t
\* byteNumber is below m_fOptsLen.  A read past the buffer's end, or an
\* unknown CID (a null command), ends the parse with ok = FALSE.
RECURSIVE ParseCommands(_, _, _, _, _, _)
ParseCommands(uplink, b, pos, byteNumber, fOptsLen, acc) ==
    IF byteNumber >= fOptsLen THEN [ok |-> TRUE, cmds |-> acc, pos |-> pos]
    ELSE IF pos > Len(b) THEN [ok |-> FALSE, cmds |-> acc, pos |-> pos]
    ELSE LET t == CommandForCid(uplink, b[pos])
         IN  IF t = "none" \/ pos + SerializedSize[t] - 1 > Len(b)
             THEN [ok |-> FALSE, cmds |-> acc, pos |-> pos]
             ELSE ParseCommands(uplink, b, pos + SerializedSize[t],
                                (byteNumber + SerializedSize[t]) % 256, fOptsLen,
                                Append(acc, DeserializeCommand(t, b, pos)))

\* LoraFrameHeader::Deserialize: the header read and the bytes it reports
\* consumed (8 + m_fOptsLen).
DeserializeHeader(uplink, b) ==
    LET fCtrl == b[5]
        fOptsLen == fCtrl % 16
        p == ParseCommands(uplink, b, 8, 0, fOptsLen, << >>)
    IN  [ok |-> p.ok /\ p.pos <= Len(b),
         hdr |-> [address |-> ReadU32(b, 1), adr |-> Bit(fCtrl, 7), adrAckReq |-> Bit(fCtrl, 6),
                  ack |-> Bit(fCtrl, 5), fPending |-> Bit(fCtrl, 4), fOptsLen |-> fOptsLen,
                  fCnt |-> ReadU16(b, 6), cmds |-> p.cmds,
                  fPort |-> IF p.pos <= Len(b) THEN b[p.pos] ELSE 0],
         consumed |-> 8 + fOptsLen]

=============================================================================
