----------------------------- MODULE UplinkPath -----------------------------
(***************************************************************************)
(* A frame header built with the LoraFrameHeader setters (FrameCodec)      *)
(* travels to the network server, whose components read it back with      *)
(* RemoveHeader and build the reply (ServerComponents).  The header is     *)
(* built first; once it is an uplink header the device may send it, with  *)
(* either data MAC header type, and the server handles it.  One uplink is *)
(* delivered per behaviour.                                                *)
(***************************************************************************)
EXTENDS FrameCodec

CONSTANTS
    MTypes,            \* MAC header types of a data uplink
    Gateways,          \* gateways that may receive the uplink
    RxPowers,          \* received powers a gateway may report (dBm)
    SpreadingFactors   \* spreading factors of the uplink

VARIABLES
    reply, phase, uplink, info, fault,   \* the server side (ServerComponents)
    delivered                            \* the uplink has reached the server

serverVars == <<reply, phase, uplink, info, fault>>
pathVars == <<hdr, direction, serverVars, delivered>>

\* The server side; its Uplinks only place the server's uplink before the
\* first delivery, the uplink it handles is the header built here.
Server == INSTANCE ServerComponents
              WITH Uplinks <- {[mType |-> m, hdr |-> NewHeader] : m \in MTypes}

PathInit == Init /\ Server!Init /\ delivered = FALSE

\* A setter or AddCommand on the header, before it is sent.
Build == ~delivered /\ Next /\ UNCHANGED <<serverVars, delivered>>

\* The device sends the uplink header; the server receives it.
Deliver ==
    /\ ~delivered /\ IsUplink
    /\ \E m \in MTypes : Server!ReceivePacket([mType |-> m, hdr |-> hdr])
    /\ delivered' = TRUE
    /\ UNCHANGED <<hdr, direction>>

\* The server's components and the reply to the delivered uplink.
Serve == Server!HandleReply /\ UNCHANGED <<hdr, direction, delivered>>

PathNext == Build \/ Deliver \/ Serve

PathSpec == PathInit /\ [][PathNext]_pathVars

-----------------------------------------------------------------------------
(* Properties.                                                             *)

\* The reply that ConfirmedMessagesComponent::OnReceivedPacket and
\* LinkCheckComponent::BeforeSendingReply build for any uplink header the
\* setters and AddCommand can produce follows that uplink: needed exactly
\* for a confirmed uplink, an ADRACKReq or a LinkCheckReq, acknowledging
\* exactly a confirmed one, answering exactly a LinkCheckReq with the
\* number of gateways that heard it (ServerComponents).
ReplyFollowsUplink == Server!ReplyFollowsUplink
=============================================================================
