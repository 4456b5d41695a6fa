CONSTANTS
    g1 = g1
    g2 = g2
    Addresses <- MCAddresses
    FCnts <- MCFCnts
    FPorts = {1}
    UplinkCommands <- UplinkAnswers
    DownlinkCommands <- DownlinkRequests
    MaxCommands = 2
    Payload <- MCPayload
    MTypes <- MCMTypes
    Gateways <- MCGateways
    RxPowers <- MCRxPowers
    SpreadingFactors <- MCSpreadingFactors
INIT PathInit
NEXT PathNext
INVARIANT RoundTrip
INVARIANT ReplyFollowsUplink
CHECK_DEADLOCK FALSE
