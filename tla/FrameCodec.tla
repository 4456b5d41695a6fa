----------------------------- MODULE FrameCodec -----------------------------
(***************************************************************************)
(* One LoraFrameHeader under construction: its setters and AddCommand are  *)
(* the actions.  The receiving side deserializes what Serialize wrote,     *)
(* followed by the packet's payload (FrameFormat).                         *)
(***************************************************************************)
EXTENDS Integers, SequencesExt, FrameFormat

CONSTANTS
    Addresses,         \* device addresses given to SetAddress
    FCnts,             \* values given to SetFCnt (uint16_t)
    FPorts,            \* values given to SetFPort
    UplinkCommands,    \* commands an uplink header may carry
    DownlinkCommands,  \* commands a downlink header may carry
    MaxCommands,       \* bound on AddCommand calls per header
    Payload            \* the bytes that follow the header in the packet

VARIABLES
    hdr,        \* the LoraFrameHeader's members
    direction   \* m_isUplink: "uplink", "downlink", or "unset"

vars == <<hdr, direction>>

-----------------------------------------------------------------------------
(* The header under construction.                                          *)

\* LoraFrameHeader::LoraFrameHeader: the initialization list sets every
\* member but m_isUplink.
NewHeader ==
    [address |-> 0, adr |-> FALSE, adrAckReq |-> FALSE, ack |-> FALSE,
     fPending |-> FALSE, fOptsLen |-> 0, fCnt |-> 0, cmds |-> << >>, fPort |-> 0]

\* "unset": no direction given since the constructor.
Init ==
    /\ hdr = NewHeader
    /\ direction = "unset"

\* m_isUplink, once a direction is given.
IsUplink == direction = "uplink"

\* LoraFrameHeader::SetAsUplink and SetAsDownlink.  Every caller
\* (ApplyNecessaryOptions, the server components, ParseCommands' reading
\* of a downlink) gives the direction first, right after construction.
SetAsUplink == direction = "unset" /\ direction' = "uplink" /\ UNCHANGED hdr
SetAsDownlink == direction = "unset" /\ direction' = "downlink" /\ UNCHANGED hdr

\* A setter that writes field f of the header with a value of vals.
SetField(f, vals) ==
    /\ direction # "unset"
    /\ \E v \in vals : hdr' = [hdr EXCEPT ![f] = v]
    /\ UNCHANGED direction

SetFPort == SetField("fPort", FPorts)
SetAddress == SetField("address", Addresses)
SetAdr == SetField("adr", BOOLEAN)
SetAdrAckReq == SetField("adrAckReq", BOOLEAN)
SetAck == SetField("ack", BOOLEAN)
SetFPending == SetField("fPending", BOOLEAN)
SetFCnt == SetField("fCnt", {n % 2^16 : n \in FCnts})

\* LoraFrameHeader::AddCommand: append, and grow the uint8_t m_fOptsLen.
AddCommand ==
    /\ direction # "unset"
    /\ Len(hdr.cmds) < MaxCommands
    /\ \E c \in IF IsUplink THEN UplinkCommands ELSE DownlinkCommands :
          hdr' = [hdr EXCEPT !.cmds = Append(@, c),
                             !.fOptsLen = (@ + SerializedSize[c.cid]) % 256]
    /\ UNCHANGED direction

Next ==
    \/ SetAsUplink \/ SetAsDownlink
    \/ SetFPort \/ SetAddress \/ SetAdr \/ SetAdrAckReq \/ SetAck \/ SetFPending
    \/ SetFCnt \/ AddCommand

Spec == Init /\ [][Next]_vars

\* EndDeviceLorawanMac::Send on a retransmission: RemoveHeader into a
\* LoraFrameHeader fresh from the constructor, on which neither SetAsUplink
\* nor SetAsDownlink is called, so Deserialize reads an uninitialized
\* m_isUplink: the outcomes of either direction's CID table.
StripFrameHeader(bytes) == {DeserializeHeader(dir, bytes) : dir \in BOOLEAN}

-----------------------------------------------------------------------------
(* Properties.                                                             *)

\* What the receiving side (the device for a downlink, the network server
\* for an uplink) reads back from the serialized header followed by the
\* payload is the header that was built, Deserialize reports exactly the
\* bytes Serialize wrote (GetSerializedSize), and the payload is left intact.
RoundTrip ==
    direction # "unset" =>
    LET wire == SerializeHeader(hdr)
        d == DeserializeHeader(IsUplink, wire \o Payload)
    IN  /\ d.ok
        /\ d.hdr = hdr
        /\ d.consumed = Len(wire)
        /\ d.consumed = GetSerializedSize(hdr)

\* When Send retransmits a packet, removing the frame header it stored
\* reads the header back without a fault and leaves exactly the payload
\* (the stripped header consumes what Serialize wrote), whichever value the
\* stripping header's m_isUplink holds.
RetryStripIntact ==
    IsUplink =>
        \A d \in StripFrameHeader(SerializeHeader(hdr) \o Payload) :
            d.ok /\ d.consumed = Len(SerializeHeader(hdr))
=============================================================================
