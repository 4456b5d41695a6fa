-------------------------- MODULE ServerComponents --------------------------
(***************************************************************************)
(* The network-controller components of model/network-controller-          *)
(* components.cc, run on one end device's status by the network server.    *)
(*                                                                         *)
(* status->m_reply is the variable reply.  Each component hook is an       *)
(* operator over it; the server's pipeline, which is not in this           *)
(* repository, calls OnReceivedPacket of every component when an uplink    *)
(* arrives, BeforeSendingReply of every component before the reply is      *)
(* built, and OnFailedReply of every component when no receive window is   *)
(* available.  The components are installed in the order                   *)
(* ConfirmedMessagesComponent, LinkCheckComponent.                         *)
(*                                                                         *)
(* An uplink is its MAC header type and the bytes after the MAC header:    *)
(* the serialized frame header (FrameFormat) and the payload.  The         *)
(* components read it back with RemoveHeader, i.e. Deserialize.           *)
(***************************************************************************)
EXTENDS Integers, FiniteSets, SequencesExt, FrameFormat

CONSTANTS
    Uplinks,           \* [mType, hdr]: the uplinks the device can send
    Gateways,          \* gateways that may receive an uplink
    RxPowers,          \* received powers a gateway may report (dBm)
    SpreadingFactors,  \* spreading factors of the uplink
    Payload            \* the application bytes after the frame header

VARIABLES
    reply,    \* status->m_reply
    phase,    \* where the server is in handling the last uplink
    uplink,   \* the last packet received from the device
    info,     \* GetLastReceivedPacketInfo(): [sf, gwList]
    fault     \* a dereference of a null command or a read past a buffer

vars == <<reply, phase, uplink, info, fault>>

\* The packet as the server receives it, MAC header removed.
PacketBytes(u) == SerializeHeader(u.hdr) \o Payload

\* EndDeviceStatus::InitializeReply: a default reply (not in this repository).
InitialReply ==
    [needsReply |-> FALSE, isUplink |-> TRUE, ack |-> FALSE, address |-> 0,
     mType |-> "none", cmds |-> << >>]

-----------------------------------------------------------------------------
(* ConfirmedMessagesComponent.                                             *)

\* Mutant: an ADRACKReq without confirmation gets no reply.
ConfirmedOnReceivedPacketNoAdrAckReq(r, mType, fHdr) ==
    IF mType = "CONFIRMED_DATA_UP"
    THEN [r EXCEPT !.isUplink = FALSE, !.ack = TRUE, !.address = fHdr.address,
                   !.mType = "UNCONFIRMED_DATA_DOWN", !.needsReply = TRUE]
    ELSE r

ConfirmedOnReceivedPacket(r, mType, fHdr) ==
    IF mType = "CONFIRMED_DATA_UP"
    THEN [r EXCEPT !.isUplink = FALSE, !.ack = TRUE, !.address = fHdr.address,
                   !.mType = "UNCONFIRMED_DATA_DOWN", !.needsReply = TRUE]
    ELSE IF fHdr.adrAckReq
    THEN [r EXCEPT !.isUplink = FALSE, !.ack = FALSE, !.address = fHdr.address,
                   !.mType = "UNCONFIRMED_DATA_DOWN", !.needsReply = TRUE]
    ELSE r

ConfirmedOnFailedReply(r) == [r EXCEPT !.ack = FALSE]

-----------------------------------------------------------------------------
(* LinkCheckComponent.  Signal levels are in hundredths of a dB.          *)

\* requiredSnr[12 - sf]: the demodulation floor of each spreading factor.
RequiredSnr(sf) == <<-2000, -1750, -1500, -1250, -1000, -750, -500>>[12 - sf + 1]

\* maxRssi + 174 - 10 log10(125000) - 6, over the gateways' best power,
\* starting from -1e3 when no gateway is listed.
MaxSnr(gwList) ==
    LET maxRssi == IF DOMAIN gwList = {} THEN -1000
                   ELSE Max({gwList[g] : g \in DOMAIN gwList})
    IN  maxRssi * 100 + 11703

\* uint8_t margin = (diff < 0) ? 0 : (diff > 254) ? 254 : diff, truncating.
Margin(inf) ==
    LET diff == MaxSnr(inf.gwList) - RequiredSnr(inf.sf)
    IN  IF diff < 0 THEN 0 ELSE IF diff > 25400 THEN 254 ELSE diff \div 100

\* fHdr.GetMacCommand<LinkCheckReq>() is non-null.
HasLinkCheckReq(fHdr) == \E i \in DOMAIN fHdr.cmds : fHdr.cmds[i].cid = "LinkCheckReq"

LinkCheckBeforeSendingReply(r, fHdr, inf) ==
    IF HasLinkCheckReq(fHdr)
    THEN [r EXCEPT !.needsReply = TRUE, !.isUplink = FALSE,
                   !.cmds = Append(@, [cid |-> "LinkCheckAns", margin |-> Margin(inf),
                                       gwCnt |-> Cardinality(DOMAIN inf.gwList) % 256]),
                   !.mType = "UNCONFIRMED_DATA_DOWN"]
    ELSE r

-----------------------------------------------------------------------------
(* The server's calls into the components (not in this repository).       *)

Init ==
    /\ reply = InitialReply
    /\ phase = "idle"
    /\ uplink = CHOOSE u \in Uplinks : TRUE
    /\ info = [sf |-> CHOOSE sf \in SpreadingFactors : TRUE, gwList |-> <<>>]
    /\ fault = FALSE

\* An uplink arrives: the reply is initialized and every component's
\* OnReceivedPacket runs; only ConfirmedMessagesComponent's changes it.
ReceivePacket(u) ==
    /\ phase \in {"idle", "sent", "failed"}
    /\ ~fault
    /\ \E sf \in SpreadingFactors, gws \in SUBSET Gateways \ {{}} :
       \E pw \in [gws -> RxPowers] :
          LET d == DeserializeHeader(TRUE, PacketBytes(u))
          IN  /\ uplink' = u
              /\ info' = [sf |-> sf, gwList |-> pw]
              /\ IF d.ok
                 THEN reply' = ConfirmedOnReceivedPacket(InitialReply, u.mType, d.hdr)
                      /\ fault' = FALSE
                 ELSE UNCHANGED reply /\ fault' = TRUE
              /\ phase' = "received"

ReceivedPacket == \E u \in Uplinks : ReceivePacket(u)

\* Just before the reply is built: every component's BeforeSendingReply;
\* LinkCheckComponent reads the last packet from the device again.
BeforeSendingReply ==
    /\ phase = "received"
    /\ ~fault
    /\ LET d == DeserializeHeader(TRUE, PacketBytes(uplink))
       IN  IF d.ok
           THEN reply' = LinkCheckBeforeSendingReply(reply, d.hdr, info) /\ fault' = FALSE
           ELSE UNCHANGED reply /\ fault' = TRUE
    /\ phase' = "ready"
    /\ UNCHANGED <<uplink, info>>

\* A reply that is needed goes out in RX1 or RX2.
SendReply ==
    /\ phase = "ready" /\ ~fault /\ reply.needsReply
    /\ phase' = "sent"
    /\ UNCHANGED <<reply, uplink, info, fault>>

\* Neither window had a gateway: every component's OnFailedReply.
FailedReply ==
    /\ phase = "ready" /\ ~fault /\ reply.needsReply
    /\ reply' = ConfirmedOnFailedReply(reply)
    /\ phase' = "failed"
    /\ UNCHANGED <<uplink, info, fault>>

\* No component asked for a reply.
NoReply ==
    /\ phase = "ready" /\ ~fault /\ ~reply.needsReply
    /\ phase' = "idle"
    /\ UNCHANGED <<reply, uplink, info, fault>>

\* What the server does with a received uplink.
HandleReply == BeforeSendingReply \/ SendReply \/ FailedReply \/ NoReply

Next == ReceivedPacket \/ HandleReply

Spec == Init /\ [][Next]_vars

-----------------------------------------------------------------------------
(* Properties.                                                             *)

\* The reply the components build for the device's uplink, once every
\* component has run (ConfirmedMessagesComponent::OnReceivedPacket and
\* LinkCheckComponent::BeforeSendingReply): it is needed exactly when the
\* uplink was confirmed, asked for an ADR acknowledgement or carried a
\* LinkCheckReq; its ACK bit is set exactly for a confirmed uplink; it
\* carries a LinkCheckAns exactly when the uplink carried a LinkCheckReq,
\* reporting the gateways that heard it.
ReplyFollowsUplink ==
    phase \in {"ready", "sent"} =>
        LET h == uplink.hdr
            answers == {i \in DOMAIN reply.cmds : reply.cmds[i].cid = "LinkCheckAns"}
        IN  /\ ~fault
            /\ reply.needsReply
                 = (uplink.mType = "CONFIRMED_DATA_UP" \/ h.adrAckReq \/ HasLinkCheckReq(h))
            /\ reply.ack = (uplink.mType = "CONFIRMED_DATA_UP")
            /\ (answers # {}) = HasLinkCheckReq(h)
            /\ \A i \in answers : reply.cmds[i].gwCnt = Cardinality(DOMAIN info.gwList)
=============================================================================
